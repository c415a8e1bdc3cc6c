---------------------------- MODULE UrlMap_proofs ----------------------------
(***************************************************************************)
(* Proofs about UrlMap, for any parties, hosts and repositories: what a    *)
(* job's key looks like, that a failed job can be named again, and that    *)
(* stamps tell repositories apart.                                         *)
(***************************************************************************)
EXTENDS UrlMap, TLAPS, FiniteSetTheorems, SequenceTheorems

-----------------------------------------------------------------------------
(* Places in a path. *)

(* A set of places has a last one: the places up to one of them could       *)
(* otherwise all be shifted by one, into fewer.                             *)
LEMMA LastPlace ==
  ASSUME NEW n \in Nat, NEW T \in SUBSET (1 .. n), T # {}
  PROVE  Max(T) \in T /\ \A y \in T : y <= Max(T)
  <1>1. \E x \in T : \A y \in T : x >= y
    <2> SUFFICES ASSUME \A x \in T : \E y \in T : y > x PROVE FALSE
      OBVIOUS
    <2> DEFINE D == {x \in 1 .. n : \E y \in T : y >= x}
               f == [x \in D |-> x + 1]
    <2>1. 1 \in D /\ IsFiniteSet(D)
      <3>1. IsFiniteSet(1 .. n)
        BY FS_Interval
      <3>2. D \subseteq 1 .. n
        OBVIOUS
      <3>3. PICK y \in T : y \in 1 .. n
        OBVIOUS
      <3>4. 1 \in D
        BY <3>3
      <3> QED
        BY <3>1, <3>2, <3>4, FS_Subset
    <2>2. IsFiniteSet(D \ {1}) /\ Cardinality(D \ {1}) < Cardinality(D)
      <3>1. Cardinality(D \ {1}) = Cardinality(D) - 1 /\ IsFiniteSet(D \ {1})
        BY <2>1, FS_RemoveElement
      <3>2. Cardinality(D) \in Nat
        BY <2>1, FS_CardinalityType
      <3> QED
        BY <3>1, <3>2
    <2>3. f \in [D -> D \ {1}]
      BY Z3
    <2>4. \A x \in D : x \in Nat /\ f[x] = x + 1
      OBVIOUS
    <2> HIDE DEF D, f
    <2>5. PICK x \in D, y \in D : x # y /\ f[x] = f[y]
      BY <2>1, <2>2, <2>3, FS_PigeonHole
    <2> QED
      BY <2>4, <2>5
  <1> QED
    BY <1>1 DEF Max

(* And a first one.                                                         *)
LEMMA FirstPlace ==
  ASSUME NEW n \in Nat, NEW T \in SUBSET (1 .. n), T # {}
  PROVE  Min(T) \in T /\ \A y \in T : Min(T) <= y
  <1> DEFINE U == {x \in 1 .. n : n + 1 - x \in T}
  <1>1. U \in SUBSET (1 .. n) /\ U # {}
    <2>1. PICK y \in T : TRUE
      OBVIOUS
    <2>2. n + 1 - y \in U
      BY <2>1
    <2> QED
      BY <2>2
  <1>2. Max(U) \in U /\ \A y \in U : y <= Max(U)
    BY <1>1, LastPlace
  <1>3. \E x \in T : \A y \in T : x <= y
    <2>1. n + 1 - Max(U) \in T
      BY <1>2
    <2>2. \A y \in T : n + 1 - y \in U
      OBVIOUS
    <2>3. \A y \in T : n + 1 - Max(U) <= y
      BY <1>2, <2>2
    <2> QED
      BY <2>1, <2>3
  <1> QED
    BY <1>3 DEF Min

-----------------------------------------------------------------------------
(* Paths. *)

Paths == Seq(Tokens)

(* A path without a slash at either end.                                    *)
Stripped(q) == q = << >> \/ (q[1] # "/" /\ q[Len(q)] # "/")

LEMMA PathFacts ==
  ASSUME NEW p \in Paths
  PROVE  /\ Len(p) \in Nat /\ DOMAIN p = 1 .. Len(p) /\ \A i \in 1 .. Len(p) : p[i] \in Tokens
         /\ p # << >> => Len(p) >= 1
  BY LenProperties, ElementOfSeq, EmptySeq DEF Paths

LEMMA Part ==
  ASSUME NEW p \in Paths, NEW m \in Int, NEW n \in Int, m >= 1, n <= Len(p)
  PROVE  /\ SubSeq(p, m, n) \in Paths
         /\ Len(SubSeq(p, m, n)) = IF m <= n THEN n - m + 1 ELSE 0
         /\ \A i \in 1 .. n - m + 1 : SubSeq(p, m, n)[i] = p[m + i - 1]
  <1>1. \A i \in m .. n : p[i] \in Tokens
    BY PathFacts
  <1> QED
    BY <1>1, SubSeqProperties DEF Paths

LEMMA DotGit ==
  <<".git">> \in Paths /\ Len(<<".git">>) = 1 /\ <<".git">>[1] = ".git"
  <1>1. ".git" \in Tokens
    BY UrlAssumption
  <1>2. \A S : \A e \in S : <<e>> \in Seq(S) /\ Len(<<e>>) = 1 /\ <<e>>[1] = e
    OBVIOUS
  <1> QED
    BY <1>1, <1>2 DEF Paths

LEMMA StripFacts ==
  ASSUME NEW p \in Paths
  PROVE  Strip(p) \in Paths /\ Stripped(Strip(p))
  <1> DEFINE rest == {i \in DOMAIN p : p[i] # "/"}
  <1>1. Len(p) \in Nat /\ rest \in SUBSET (1 .. Len(p))
    BY PathFacts
  <1>2. CASE rest = {}
    BY <1>2, EmptySeq DEF Strip, Paths, Stripped
  <1>3. CASE rest # {}
    <2>1. Min(rest) \in rest /\ Max(rest) \in rest /\ Min(rest) <= Max(rest)
      BY <1>1, <1>3, FirstPlace, LastPlace
    <2>2. Strip(p) = SubSeq(p, Min(rest), Max(rest))
      BY <1>3 DEF Strip
    <2> DEFINE m == Min(rest)
               n == Max(rest)
    <2>3. m \in 1 .. Len(p) /\ n \in 1 .. Len(p) /\ m <= n /\ p[m] # "/" /\ p[n] # "/"
      BY <1>1, <2>1
    <2> HIDE DEF m, n
    <2>4. /\ SubSeq(p, m, n) \in Paths /\ Len(SubSeq(p, m, n)) = n - m + 1
          /\ \A i \in 1 .. n - m + 1 : SubSeq(p, m, n)[i] = p[m + i - 1]
      BY <1>1, <2>3, Part
    <2>5. SubSeq(p, m, n)[1] = p[m] /\ SubSeq(p, m, n)[n - m + 1] = p[n]
      BY <1>1, <2>3, <2>4
    <2>6. Stripped(SubSeq(p, m, n))
      BY <2>3, <2>4, <2>5 DEF Stripped
    <2> QED
      BY <2>2, <2>4, <2>6 DEF m, n
  <1> QED
    BY <1>2, <1>3

(* Stripping a stripped path changes nothing.                               *)
LEMMA StripAgain ==
  ASSUME NEW p \in Paths, Stripped(p)
  PROVE  Strip(p) = p
  <1> DEFINE rest == {i \in DOMAIN p : p[i] # "/"}
  <1>1. Len(p) \in Nat /\ rest \in SUBSET (1 .. Len(p)) /\ DOMAIN p = 1 .. Len(p)
    BY PathFacts
  <1>2. CASE p = << >>
    <2>1. rest = {}
      BY <1>2
    <2> QED
      BY <1>2, <2>1 DEF Strip
  <1>3. CASE p # << >>
    <2>1. Len(p) >= 1 /\ 1 \in rest /\ Len(p) \in rest
      BY <1>1, <1>3, PathFacts DEF Stripped
    <2>2. Min(rest) \in 1 .. Len(p) /\ Max(rest) \in 1 .. Len(p)
          /\ Min(rest) <= 1 /\ Len(p) <= Max(rest)
      BY <1>1, <2>1, FirstPlace, LastPlace
    <2>3. Min(rest) = 1 /\ Max(rest) = Len(p)
      BY <1>1, <2>2
    <2>4. Strip(p) = SubSeq(p, 1, Len(p))
      BY <2>1, <2>3 DEF Strip
    <2> QED
      BY <2>4, SubSeqFull DEF Paths
  <1> QED
    BY <1>2, <1>3

LEMMA StripRightFacts ==
  ASSUME NEW p \in Paths
  PROVE  StripRight(p) \in Paths
  <1> DEFINE rest == {i \in DOMAIN p : p[i] # "/"}
  <1>1. Len(p) \in Nat /\ rest \in SUBSET (1 .. Len(p))
    BY PathFacts
  <1>2. CASE rest = {}
    BY <1>2, EmptySeq DEF StripRight, Paths
  <1>3. CASE rest # {}
    <2>1. Max(rest) \in 1 .. Len(p)
      BY <1>1, <1>3, LastPlace
    <2>2. StripRight(p) = SubSeq(p, 1, Max(rest))
      BY <1>3 DEF StripRight
    <2> QED
      BY <1>1, <2>1, <2>2, Part
  <1> QED
    BY <1>2, <1>3

LEMMA FrontFacts ==
  ASSUME NEW p \in Paths, p # << >>
  PROVE  Front(p) \in Paths
  BY PathFacts, Part DEF Front

LEMMA StripGitSuffixFacts ==
  ASSUME NEW p \in Paths
  PROVE  StripGitSuffix(p) \in Paths /\ Stripped(StripGitSuffix(p))
  <1>1. Strip(p) \in Paths /\ Stripped(Strip(p))
    BY StripFacts
  <1>2. CASE Strip(p) # << >> /\ Last(Strip(p)) = ".git"
    <2>1. Front(Strip(p)) \in Paths
      BY <1>1, <1>2, FrontFacts
    <2> QED
      BY <1>2, <2>1, StripFacts DEF StripGitSuffix
  <1>3. CASE ~(Strip(p) # << >> /\ Last(Strip(p)) = ".git")
    BY <1>1, <1>3 DEF StripGitSuffix
  <1> QED
    BY <1>2, <1>3

LEMMA WithDotGit ==
  ASSUME NEW p \in Paths
  PROVE  LET w == p \o <<".git">>
         IN /\ w \in Paths /\ Len(w) = Len(p) + 1 /\ w[Len(p) + 1] = ".git"
            /\ \A i \in 1 .. Len(p) : w[i] = p[i]
  <1>1. <<".git">> \in Paths /\ Len(<<".git">>) = 1 /\ <<".git">>[1] = ".git" /\ Len(p) \in Nat
    BY DotGit, PathFacts
  <1>2. /\ p \o <<".git">> \in Paths /\ Len(p \o <<".git">>) = Len(p) + 1
        /\ \A i \in 1 .. Len(p) + 1 :
             (p \o <<".git">>)[i] = IF i <= Len(p) THEN p[i] ELSE <<".git">>[i - Len(p)]
    BY <1>1, ConcatProperties DEF Paths
  <1> QED
    BY <1>1, <1>2

(* ".git" is taken off the end where it was put.                            *)
LEMMA SuffixTakenOff ==
  ASSUME NEW r \in Paths, Stripped(r), r # << >>
  PROVE  StripGitSuffix(r \o <<".git">>) = r
  <1> DEFINE q == r \o <<".git">>
  <1>1. Len(r) \in Nat /\ Len(r) >= 1
    BY PathFacts
  <1>2. /\ q \in Paths /\ Len(q) = Len(r) + 1 /\ q[Len(q)] = ".git"
        /\ \A i \in 1 .. Len(r) : q[i] = r[i]
    BY WithDotGit
  <1> HIDE DEF q
  <1>3. Stripped(q) /\ q # << >>
    BY <1>1, <1>2 DEF Stripped
  <1>4. Strip(q) = q
    BY <1>2, <1>3, StripAgain
  <1>5. Front(q) = r
    <2>1. Front(q) = SubSeq(q, 1, Len(r))
      BY <1>1, <1>2 DEF Front
    <2>2. SubSeq(q, 1, Len(r)) = SubSeq(r, 1, Len(r))
      <3>1. <<".git">> \in Paths /\ 1 \in 1 .. Len(r) /\ Len(r) \in 1 .. Len(r)
        BY <1>1, DotGit
      <3> QED
        BY <3>1, SubSeqOfConcat1 DEF q, Paths
    <2> QED
      BY <2>1, <2>2, SubSeqFull DEF Paths
  <1>6. StripGitSuffix(q) = Strip(r)
    BY <1>2, <1>3, <1>4, <1>5 DEF StripGitSuffix, Last
  <1> QED
    BY <1>6, StripAgain DEF q

-----------------------------------------------------------------------------
(* Empty segments. *)

(* The places that are kept are numbered from one, in their order.          *)
LEMMA Ranks ==
  ASSUME NEW n \in Nat, NEW s \in SUBSET (1 .. n)
  PROVE  /\ IsFiniteSet(s) /\ Cardinality(s) \in Nat
         /\ \A i \in 0 .. n : Rank(i, s) \in 0 .. Cardinality(s)
         /\ \A i \in 1 .. n : Rank(i, s) = Rank(i - 1, s) + IF i \in s THEN 1 ELSE 0
         /\ \A i \in s : Rank(i, s) \in 1 .. Cardinality(s)
         /\ \A i, j \in s : i < j => Rank(i, s) < Rank(j, s)
         /\ \A m \in 1 .. Cardinality(s) : \E i \in s : Rank(i, s) = m
  <1> DEFINE Upto(i) == {k \in s : k <= i}
  <1>0. \A k \in s : k \in Int /\ 1 <= k /\ k <= n
    OBVIOUS
  <1>1. IsFiniteSet(s) /\ Cardinality(s) \in Nat
    <2>1. IsFiniteSet(1 .. n)
      BY FS_Interval
    <2> QED
      BY <2>1, FS_Subset, FS_CardinalityType
  <1>2. ASSUME NEW i \in 0 .. n
        PROVE  IsFiniteSet(Upto(i)) /\ Rank(i, s) \in 0 .. Cardinality(s)
    <2>1. Upto(i) \in SUBSET s
      OBVIOUS
    <2>2. IsFiniteSet(Upto(i)) /\ Cardinality(Upto(i)) <= Cardinality(s)
      BY <1>1, <2>1, FS_Subset
    <2>3. Cardinality(Upto(i)) \in Nat
      BY <2>2, FS_CardinalityType
    <2> QED
      BY <1>1, <2>2, <2>3 DEF Rank
  <1>3. ASSUME NEW i \in 1 .. n
        PROVE  Rank(i, s) = Rank(i - 1, s) + IF i \in s THEN 1 ELSE 0
    <2>0. i \in Int /\ i - 1 \in 0 .. n /\ \A k \in s : k <= i <=> k <= i - 1 \/ k = i
      BY <1>0
    <2>1. i \in s => Upto(i) = Upto(i - 1) \cup {i} /\ i \notin Upto(i - 1)
      <3>1. ~(i <= i - 1) /\ i <= i
        BY <2>0
      <3> QED
        BY <2>0, <3>1
    <2>2. i \notin s => Upto(i) = Upto(i - 1)
      BY <2>0
    <2>3. IsFiniteSet(Upto(i - 1)) /\ i - 1 \in 0 .. n
      BY <1>2, <2>0
    <2>4. Cardinality(Upto(i - 1)) \in Nat
      BY <2>3, FS_CardinalityType
    <2>5. CASE i \in s
      <3>1. Cardinality(Upto(i - 1) \cup {i}) = Cardinality(Upto(i - 1)) + 1
        BY <2>1, <2>3, <2>5, FS_AddElement
      <3> QED
        BY <2>1, <2>5, <3>1 DEF Rank
    <2>6. CASE i \notin s
      BY <2>2, <2>4, <2>6 DEF Rank
    <2> QED
      BY <2>5, <2>6
  <1>4. ASSUME NEW i \in s
        PROVE  Rank(i, s) \in 1 .. Cardinality(s)
    <2>1. i \in 1 .. n /\ i - 1 \in 0 .. n /\ i \in 0 .. n
      BY <1>0
    <2>2. Rank(i - 1, s) \in 0 .. Cardinality(s) /\ Rank(i, s) \in 0 .. Cardinality(s)
      BY <1>2, <2>1
    <2>3. Rank(i, s) = Rank(i - 1, s) + 1
      BY <1>3, <2>1
    <2> QED
      BY <1>1, <2>2, <2>3
  <1>5. ASSUME NEW i \in s, NEW j \in s, i < j
        PROVE  Rank(i, s) < Rank(j, s)
    <2>0. \A k \in s : k <= i => k <= j - 1
      BY <1>0, <1>5
    <2>1. Upto(i) \in SUBSET Upto(j - 1)
      BY <2>0
    <2>2. j - 1 \in 0 .. n /\ j \in 1 .. n /\ i \in 0 .. n
      OBVIOUS
    <2>3. Cardinality(Upto(i)) <= Cardinality(Upto(j - 1))
      BY <1>2, <2>1, <2>2, FS_Subset
    <2>4. Rank(i, s) <= Rank(j - 1, s) /\ Rank(j, s) = Rank(j - 1, s) + 1
      BY <1>3, <2>2, <2>3 DEF Rank
    <2>5. Rank(i, s) \in 0 .. Cardinality(s) /\ Rank(j - 1, s) \in 0 .. Cardinality(s)
      BY <1>2, <2>2
    <2> QED
      BY <1>1, <2>4, <2>5
  <1>6. ASSUME NEW m \in 1 .. Cardinality(s)
        PROVE  \E i \in s : Rank(i, s) = m
    <2> DEFINE f == [i \in s |-> Rank(i, s)]
               T == 1 .. Cardinality(s)
    <2>1. f \in [s -> T]
      BY <1>4
    <2>2. \A i, j \in s : i # j => f[i] # f[j]
      <3> SUFFICES ASSUME NEW i \in s, NEW j \in s, i # j PROVE f[i] # f[j]
        OBVIOUS
      <3>1. i < j \/ j < i
        OBVIOUS
      <3>2. Rank(i, s) < Rank(j, s) \/ Rank(j, s) < Rank(i, s)
        BY <1>5, <3>1
      <3> QED
        BY <1>1, <1>4, <3>2
    <2>3. IsFiniteSet(T) /\ Cardinality(T) = Cardinality(s)
      BY <1>1, FS_Interval
    <2> HIDE DEF f, T
    <2>4. f \in Injection(s, T)
      BY <2>1, <2>2 DEF Injection, IsInjective
    <2>5. f \in Surjection(s, T)
      BY <2>3, <2>4, FS_Injection
    <2>6. PICK i \in s : f[i] = m
      BY <2>5 DEF Surjection, T
    <2> QED
      BY <2>6 DEF f
  <1> QED
    BY <1>1, <1>2, <1>3, <1>4, <1>5, <1>6

(* So what is picked at a kept place's number is what is at that place.     *)
LEMMA PickedAt ==
  ASSUME NEW p \in Paths, NEW s \in SUBSET (1 .. Len(p))
  PROVE  /\ Picked(p, s) \in Paths /\ Len(Picked(p, s)) = Cardinality(s)
         /\ \A i \in s : Picked(p, s)[Rank(i, s)] = p[i]
  <1> DEFINE q == Picked(p, s)
             At(m) == CHOOSE i \in s : Rank(i, s) = m
  <1>1. Len(p) \in Nat /\ \A i \in 1 .. Len(p) : p[i] \in Tokens
    BY PathFacts
  <1>2. Cardinality(s) \in Nat
    BY <1>1, Ranks
  <1>3. \A m \in 1 .. Cardinality(s) : At(m) \in s /\ Rank(At(m), s) = m
    BY <1>1, Ranks
  <1>4. q = [m \in 1 .. Cardinality(s) |-> p[At(m)]]
    BY DEF Picked
  <1> HIDE DEF At, q
  <1>5. q \in Paths /\ Len(q) = Cardinality(s)
    <2>1. \A m \in 1 .. Cardinality(s) : q[m] \in Tokens
      BY <1>1, <1>3, <1>4
    <2>2. q \in Seq(Tokens)
      BY <1>2, <1>4, <2>1
    <2> QED
      BY <1>2, <1>4, <2>2 DEF Paths
  <1>6. ASSUME NEW i \in s
        PROVE  q[Rank(i, s)] = p[i]
    <2>1. Rank(i, s) \in 1 .. Cardinality(s)
      BY <1>1, Ranks
    <2>2. PICK k \in s : k = At(Rank(i, s)) /\ Rank(k, s) = Rank(i, s)
      BY <1>3, <2>1
    <2>3. \A a, b \in s : a < b => Rank(a, s) < Rank(b, s)
      BY <1>1, Ranks
    <2>4. ~(k < i) /\ ~(i < k)
      BY <2>1, <2>2, <2>3
    <2>5. k = i
      BY <1>1, <2>4
    <2> QED
      BY <1>4, <2>1, <2>2, <2>5
  <1> QED
    BY <1>5, <1>6 DEF q

(* A path without empty segments.                                           *)
Clean(q) ==
  \A i \in 1 .. Len(q) : q[i] = "/" => i > 1 /\ i < Len(q) /\ q[i - 1] # "/"

LEMMA KeptFacts ==
  ASSUME NEW p \in Paths
  PROVE  /\ Kept(p) \in SUBSET (1 .. Len(p)) /\ Len(p) \in Nat
         /\ \A i \in 1 .. Len(p) : p[i] # "/" => i \in Kept(p)
         /\ \A i \in Kept(p) : p[i] = "/" => /\ i > 1 /\ p[i - 1] # "/"
                                            /\ \E k \in Kept(p) : k > i /\ p[k] # "/"
  <1>1. Len(p) \in Nat /\ DOMAIN p = 1 .. Len(p)
    BY PathFacts
  <1> QED
    BY <1>1 DEF Kept

LEMMA CollapseFacts ==
  ASSUME NEW p \in Paths
  PROVE  Collapse(p) \in Paths /\ Clean(Collapse(p))
  <1> DEFINE s == Kept(p)
             q == Picked(p, s)
  <1>1. s \in SUBSET (1 .. Len(p)) /\ Len(p) \in Nat
    BY KeptFacts
  <1>2. q \in Paths /\ Len(q) = Cardinality(s) /\ \A i \in s : q[Rank(i, s)] = p[i]
    BY <1>1, PickedAt
  <1>3. ASSUME NEW m \in 1 .. Len(q), q[m] = "/"
        PROVE  m > 1 /\ m < Len(q) /\ q[m - 1] # "/"
    <2>1. PICK i \in s : Rank(i, s) = m
      BY <1>1, <1>2, <1>3, Ranks
    <2>2. p[i] = "/"
      BY <1>2, <1>3, <2>1
    <2>3. PICK k \in s : i > 1 /\ p[i - 1] # "/" /\ k > i
      BY <2>2, KeptFacts
    <2>4. i - 1 \in s /\ i \in 1 .. Len(p)
      BY <1>1, <2>3, KeptFacts
    <2>5. Rank(i, s) = Rank(i - 1, s) + 1
      BY <1>1, <2>1, <2>4, Ranks
    <2>6. Rank(i - 1, s) \in 1 .. Cardinality(s) /\ Rank(k, s) \in 1 .. Cardinality(s)
      BY <1>1, <2>4, Ranks
    <2>7. Rank(i, s) < Rank(k, s) /\ Cardinality(s) \in Nat
      BY <1>1, <2>3, Ranks
    <2>8. m - 1 = Rank(i - 1, s) /\ m > 1 /\ m < Len(q)
      BY <1>2, <2>1, <2>5, <2>6, <2>7
    <2>9. q[m - 1] = p[i - 1]
      BY <1>2, <2>4, <2>8
    <2> QED
      BY <2>3, <2>8, <2>9
  <1> QED
    BY <1>2, <1>3 DEF Clean, Collapse

(* Nothing is left out of a path that is clean.                             *)
LEMMA CleanStays ==
  ASSUME NEW q \in Paths, Clean(q)
  PROVE  Collapse(q) = q
  <1> DEFINE s == 1 .. Len(q)
  <1>1. Len(q) \in Nat /\ DOMAIN q = s
    BY PathFacts
  <1>2. Kept(q) = s
    <2>1. ASSUME NEW i \in s, q[i] = "/"
          PROVE  i > 1 /\ q[i - 1] # "/" /\ \E k \in s : k > i /\ q[k] # "/"
      <3>1. i > 1 /\ i < Len(q) /\ q[i - 1] # "/"
        BY <2>1 DEF Clean
      <3>2. i + 1 \in s /\ q[i + 1] # "/"
        <4>1. i + 1 \in 1 .. Len(q) /\ (i + 1) - 1 = i
          BY <1>1, <3>1
        <4> QED
          BY <2>1, <4>1 DEF Clean
      <3> QED
        BY <3>1, <3>2
    <2> QED
      BY <1>1, <2>1 DEF Kept
  <1>3. Cardinality(s) = Len(q)
    <2>1. \A n \in Nat : Cardinality(1 .. n) = n
      BY FS_Interval
    <2> QED
      BY <1>1, <2>1
  <1>4. \A i \in s : Rank(i, s) = i
    <2> SUFFICES ASSUME NEW i \in s PROVE Rank(i, s) = i
      OBVIOUS
    <2>1. {k \in s : k <= i} = 1 .. i /\ i \in Nat /\ i >= 1
      BY <1>1
    <2>2. \A n \in Nat : Cardinality(1 .. n) = n
      BY FS_Interval
    <2> QED
      BY <2>1, <2>2 DEF Rank
  <1>5. /\ Picked(q, s) \in Paths /\ Len(Picked(q, s)) = Len(q)
        /\ \A i \in s : Picked(q, s)[i] = q[i]
    BY <1>3, <1>4, PickedAt
  <1>6. Picked(q, s) = q
    BY <1>5, SeqEqual DEF Paths
  <1> QED
    BY <1>2, <1>6 DEF Collapse

(* ".git" at the end of a name is no segment of its own.                    *)
LEMMA CollapseWithDotGit ==
  ASSUME NEW p \in Paths, p # << >>, p[Len(p)] # "/"
  PROVE  Collapse(p \o <<".git">>) = Collapse(p) \o <<".git">>
  <1> DEFINE w == p \o <<".git">>
             n == Len(p) + 1
             s == Kept(p)
             t == Kept(w)
             a == Picked(w, t)
             b == Picked(p, s) \o <<".git">>
  <1>1. Len(p) \in Nat /\ Len(p) >= 1 /\ DOMAIN p = 1 .. Len(p)
    BY PathFacts
  <1>2. /\ w \in Paths /\ Len(w) = n /\ w[n] = ".git" /\ DOMAIN w = 1 .. n
        /\ \A i \in 1 .. Len(p) : w[i] = p[i]
    BY WithDotGit, PathFacts
  <1>3. s \in SUBSET (1 .. Len(p)) /\ t \in SUBSET (1 .. n)
    BY <1>2, KeptFacts
  <1>4. t = s \cup {n} /\ n \notin s
    <2>1. \A i \in 1 .. Len(p) :
            p[i] = "/" => (\E k \in 1 .. Len(p) : k > i /\ p[k] # "/")
                          /\ \E k \in 1 .. n : k > i /\ w[k] # "/"
      BY <1>1, <1>2
    <2>2. \A i \in 1 .. Len(p) : i \in s <=> (p[i] = "/" => i > 1 /\ p[i - 1] # "/")
      BY <1>1, <2>1 DEF Kept
    <2>3. \A i \in 1 .. Len(p) : i \in t <=> (w[i] = "/" => i > 1 /\ w[i - 1] # "/")
      BY <1>1, <1>2, <2>1 DEF Kept
    <2>4. \A i \in 1 .. Len(p) : i \in s <=> i \in t
      BY <1>1, <1>2, <2>2, <2>3
    <2>5. n \in t
      BY <1>1, <1>2 DEF Kept
    <2> QED
      BY <1>1, <1>3, <2>4, <2>5
  <1> HIDE DEF s, t, w, n
  <1>5. Cardinality(t) = Cardinality(s) + 1 /\ Cardinality(s) \in Nat
    BY <1>1, <1>3, <1>4, Ranks, FS_AddElement
  <1>6. /\ \A i \in s : Rank(i, t) = Rank(i, s)
        /\ Rank(n, t) = Cardinality(t)
    <2>1. ASSUME NEW i \in s PROVE Rank(i, t) = Rank(i, s)
      <3>1. {k \in t : k <= i} = {k \in s : k <= i}
        BY <1>1, <1>3, <1>4 DEF n
      <3> QED
        BY <3>1 DEF Rank
    <2>2. {k \in t : k <= n} = t
      <3>1. n \in Nat /\ \A k \in t : k \in 1 .. n
        BY <1>1, <1>3 DEF n
      <3> QED
        BY <3>1
    <2> QED
      BY <2>1, <2>2 DEF Rank
  <1>7. a \in Paths /\ Len(a) = Cardinality(t) /\ \A i \in t : a[Rank(i, t)] = w[i]
    BY <1>2, <1>3, PickedAt
  <1>8. /\ Picked(p, s) \in Paths /\ Len(Picked(p, s)) = Cardinality(s)
        /\ \A i \in s : Picked(p, s)[Rank(i, s)] = p[i]
    BY <1>3, PickedAt
  <1>9. /\ b \in Paths /\ Len(b) = Cardinality(s) + 1 /\ b[Cardinality(s) + 1] = ".git"
        /\ \A m \in 1 .. Cardinality(s) : b[m] = Picked(p, s)[m]
    BY <1>8, WithDotGit
  <1> HIDE DEF a, b
  <1>10. \A m \in 1 .. Cardinality(t) : a[m] = b[m]
    <2>1. ASSUME NEW m \in 1 .. Cardinality(s) PROVE a[m] = b[m]
      <3>1. PICK i \in s : Rank(i, s) = m
        BY <1>1, <1>3, Ranks
      <3>2. i \in t /\ i \in 1 .. Len(p) /\ Rank(i, t) = m
        BY <1>3, <1>4, <1>6, <3>1
      <3>3. a[m] = p[i]
        BY <1>2, <1>7, <3>2
      <3> QED
        BY <1>8, <1>9, <3>1, <3>3
    <2>2. a[Cardinality(t)] = ".git"
      BY <1>2, <1>4, <1>6, <1>7
    <2> QED
      BY <1>5, <1>9, <2>1, <2>2
  <1>11. a = b
    BY <1>5, <1>7, <1>9, <1>10, SeqEqual DEF Paths
  <1> QED
    BY <1>11 DEF a, b, s, t, w, Collapse

(* The slash behind an owner stays.                                         *)
LEMMA OwnerStays ==
  ASSUME NEW p \in Paths, Stripped(p), HasOwner(p)
  PROVE  Collapse(p) # << >> /\ HasOwner(Collapse(p))
  <1> DEFINE slashes == {i \in 1 .. Len(p) : p[i] = "/"}
             s == Kept(p)
  <1>1. Len(p) \in Nat /\ DOMAIN p = 1 .. Len(p) /\ (p # << >> => Len(p) >= 1)
    BY PathFacts
  <1>2. slashes # {}
    BY <1>1 DEF HasOwner, ToSet
  <1>3. PICK i \in slashes : \A y \in slashes : i <= y
    BY <1>1, <1>2, FirstPlace
  <1>4. p # << >> /\ p[1] # "/" /\ p[Len(p)] # "/"
    BY <1>1, <1>3 DEF Stripped
  <1>5. i \in s
    <2>1. i > 1 /\ p[i - 1] # "/" /\ Len(p) > i /\ Len(p) \in DOMAIN p
      BY <1>1, <1>3, <1>4
    <2> QED
      BY <1>1, <1>3, <1>4, <2>1 DEF Kept
  <1>6. s \in SUBSET (1 .. Len(p))
    BY KeptFacts
  <1>7. /\ Rank(i, s) \in 1 .. Cardinality(s) /\ Len(Collapse(p)) = Cardinality(s)
        /\ Collapse(p)[Rank(i, s)] = "/"
    <2>1. p[i] = "/"
      BY <1>3
    <2>2. Rank(i, s) \in 1 .. Cardinality(s)
      BY <1>1, <1>5, <1>6, Ranks
    <2>3. Len(Picked(p, s)) = Cardinality(s) /\ Picked(p, s)[Rank(i, s)] = p[i]
      BY <1>5, <1>6, PickedAt
    <2> QED
      BY <2>1, <2>2, <2>3 DEF Collapse
  <1>8. Collapse(p) \in Paths
    BY CollapseFacts
  <1>9. DOMAIN Collapse(p) = 1 .. Len(Collapse(p)) /\ Len(Collapse(p)) \in Nat
    BY <1>8, PathFacts
  <1> QED
    BY <1>7, <1>9 DEF HasOwner, ToSet

-----------------------------------------------------------------------------
(* Mappings. *)

LEMMA SplitFacts ==
  ASSUME NEW p \in Paths
  PROVE  SplitRepoAndSuffix(p).repo \in Paths /\ Stripped(SplitRepoAndSuffix(p).repo)
  <1> DEFINE full      == <<"/">> \o Strip(p)
             git       == {i \in DOMAIN full : full[i] = ".git"}
             Places(k) == {i \in DOMAIN full :
                             IsPrefix(ServiceSuffixes[k], SubSeq(full, i, Len(full)))}
             services  == {k \in DOMAIN ServiceSuffixes : Places(k) # {}}
             end       == IF git # {} THEN Min(git)
                          ELSE IF services # {} THEN Min(Places(Min(services)))
                          ELSE Len(full) + 1
  <1>1. full \in Paths
    <2>1. "/" \in Tokens
      BY UrlAssumption
    <2>2. <<"/">> \in Paths
      BY <2>1 DEF Paths
    <2> QED
      BY <2>2, StripFacts, ConcatProperties DEF Paths
  <1>2. Len(full) \in Nat /\ DOMAIN full = 1 .. Len(full)
    BY <1>1, PathFacts
  <1>3. git \in SUBSET (1 .. Len(full)) /\ \A k : Places(k) \in SUBSET (1 .. Len(full))
    BY <1>2
  <1>4. services \in SUBSET (1 .. 6)
    BY DEF ServiceSuffixes
  <1>5. SplitRepoAndSuffix(p).repo = StripGitSuffix(SubSeq(full, 1, end - 1))
    BY DEF SplitRepoAndSuffix
  <1>6. services # {} => Places(Min(services)) # {}
    BY <1>4, FirstPlace
  <1> HIDE DEF full, git, Places, services
  <1>7. git # {} => Min(git) \in 1 .. Len(full)
    BY <1>2, <1>3, FirstPlace
  <1>8. services # {} => Min(Places(Min(services))) \in 1 .. Len(full)
    BY <1>2, <1>3, <1>6, FirstPlace
  <1>9. end - 1 \in Int /\ end - 1 <= Len(full)
    BY <1>2, <1>7, <1>8
  <1> HIDE DEF end
  <1>10. SubSeq(full, 1, end - 1) \in Paths
    BY <1>1, <1>9, Part
  <1> QED
    BY <1>5, <1>10, StripGitSuffixFacts

(* A mapping that is made is of a supported host and is what its key says.  *)
IsMapping(m) ==
  /\ m.host \in ProviderHosts /\ m.repo \in Paths
  /\ m = Mapping(m.host, m.repo, m.suffix)

LEMMA MadeMapping ==
  ASSUME NEW h \in ProviderHosts, NEW r \in Paths, NEW s
  PROVE  IsMapping(Mapping(h, r, s))
  <1>1. PICK m : m = Mapping(h, r, s)
    OBVIOUS
  <1>2. m.host = h /\ m.repo = r /\ m.suffix = s
    BY <1>1 DEF Mapping
  <1>3. m.host \in ProviderHosts /\ m.repo \in Paths /\ m = Mapping(m.host, m.repo, m.suffix)
    BY <1>1, <1>2
  <1> QED
    BY <1>1, <1>3 DEF IsMapping

LEMMA GatewayMappings ==
  ASSUME NEW host, NEW p \in Paths, MapGatewayPath(host, p) # Refused
  PROVE  LET m == MapGatewayPath(host, p)
         IN IsMapping(m) /\ Stripped(m.repo) /\ HasOwner(m.repo)
  <1> DEFINE r == SplitRepoAndSuffix(p).repo
             s == SplitRepoAndSuffix(p).suffix
  <1>1. host \in ProviderHosts /\ HasOwner(r) /\ MapGatewayPath(host, p) = Mapping(host, r, s)
    BY DEF MapGatewayPath
  <1>2. r \in Paths /\ Stripped(r)
    BY SplitFacts
  <1> HIDE DEF r, s
  <1>3. IsMapping(Mapping(host, r, s)) /\ Mapping(host, r, s).repo = r
    <2>1. IsMapping(Mapping(host, r, s))
      BY <1>1, <1>2, MadeMapping
    <2>2. Mapping(host, r, s).repo = r
      BY DEF Mapping
    <2> QED
      BY <2>1, <2>2
  <1> QED
    BY <1>1, <1>2, <1>3

LEMMA RemoteMappings ==
  ASSUME NEW u, u.path \in Paths, MapRemoteUrl(u) # Refused
  PROVE  LET m == MapRemoteUrl(u)
         IN IsMapping(m) /\ Stripped(m.repo) /\ (u.syntax # "scp" => HasOwner(m.repo))
  <1> DEFINE r == StripGitSuffix(u.path)
  <1>1. /\ u.host \in ProviderHosts /\ MapRemoteUrl(u) = Mapping(u.host, r, << >>)
        /\ u.syntax # "scp" => HasOwner(r)
    BY DEF MapRemoteUrl
  <1>2. r \in Paths /\ Stripped(r)
    BY StripGitSuffixFacts
  <1> HIDE DEF r
  <1>3. IsMapping(Mapping(u.host, r, << >>))
    BY <1>1, <1>2, MadeMapping
  <1>4. Mapping(u.host, r, << >>).repo = r
    BY DEF Mapping
  <1> QED
    BY <1>1, <1>2, <1>3, <1>4

(* The remote URL of a key names the key again.                             *)
LEMMA RemoteUrlNames ==
  ASSUME NEW m, IsMapping(m), Stripped(m.repo), HasOwner(m.repo)
  PROVE  MapRemoteUrl(RemoteUrl(m)) = [m EXCEPT !.suffix = << >>]
  <1>1. m.repo # << >>
    BY DEF HasOwner, ToSet
  <1>2. StripGitSuffix(m.repo \o <<".git">>) = m.repo
    BY <1>1, SuffixTakenOff DEF IsMapping
  <1>3. MapRemoteUrl(RemoteUrl(m)) = Mapping(m.host, m.repo, << >>)
    BY <1>2 DEF IsMapping, MapRemoteUrl, RemoteUrl
  <1>4. [m EXCEPT !.suffix = << >>] = Mapping(m.host, m.repo, << >>)
    <2>1. PICK h, r, s : h = m.host /\ r = m.repo /\ s = m.suffix
      OBVIOUS
    <2>2. m = Mapping(h, r, s)
      BY <2>1 DEF IsMapping
    <2> QED
      BY <2>1, <2>2 DEF Mapping
  <1> QED
    BY <1>3, <1>4

(* A mapping is never taken for a ValueError.                               *)
LEMMA RefusedIsNoMapping ==
  ASSUME NEW h \in ProviderHosts, NEW r \in Paths
  PROVE  Mapping(h, r, << >>) # Refused
  <1>1. Collapse(r) \in Paths /\ << >> \in Paths
    BY CollapseFacts, EmptySeq DEF Paths
  <1>2. Mapping(h, r, << >>) \in
          [host : ProviderHosts, repo : Paths, suffix : Paths,
           project : [host : ProviderHosts, path : Paths]]
    BY <1>1 DEF Mapping
  <1> QED
    BY <1>2, UrlAssumption DEF Paths

(* A project with an owner is found under its name.                         *)
LEMMA ScanFinds ==
  ASSUME NEW m, IsMapping(m), Stripped(m.repo), HasOwner(m.repo)
  PROVE  LET found == ScannedMapping(m.project)
         IN found # Refused /\ found.project = m.project /\ MirrorDir(found) = MirrorDir(m)
  <1> DEFINE c == Collapse(m.repo)
             found == ScannedMapping(m.project)
  <1>1. /\ m.host \in ProviderHosts /\ m.repo \in Paths
        /\ m.project = [host |-> m.host, path |-> c]
    <2>1. PICK h, r, s : h = m.host /\ r = m.repo /\ s = m.suffix
      OBVIOUS
    <2>2. m = Mapping(h, r, s)
      BY <2>1 DEF IsMapping
    <2> QED
      BY <2>1, <2>2 DEF Mapping, IsMapping
  <1>2. c \in Paths /\ Clean(c) /\ c # << >> /\ HasOwner(c)
    BY <1>1, CollapseFacts, OwnerStays
  <1>3. Collapse(c) = c
    BY <1>2, CleanStays
  <1>4. Segments(c) >= 2
    <2> DEFINE slashes == {i \in DOMAIN c : c[i] = "/"}
    <2>1. DOMAIN c = 1 .. Len(c) /\ Len(c) \in Nat
      BY <1>2, PathFacts
    <2>2. slashes # {}
      BY <1>2 DEF HasOwner, ToSet
    <2>3. IsFiniteSet(1 .. Len(c)) /\ slashes \in SUBSET (1 .. Len(c))
      BY <2>1, FS_Interval
    <2>4. IsFiniteSet(slashes)
      BY <2>3, FS_Subset
    <2>5. Cardinality(slashes) \in Nat /\ Cardinality(slashes) # 0
      BY <2>2, <2>4, FS_CardinalityType, FS_EmptySet
    <2> QED
      BY <2>5 DEF Segments
  <1> HIDE DEF c
  <1>5. found = Mapping(m.host, c, << >>)
    BY <1>1, <1>3, <1>4 DEF ScannedMapping
  <1>6. found # Refused
    BY <1>1, <1>2, <1>5, RefusedIsNoMapping
  <1>7. found.project = m.project
    BY <1>1, <1>3, <1>5 DEF Mapping
  <1>8. MirrorDir(found) = MirrorDir(m)
    <2>1. Collapse(m.repo \o <<".git">>) = c \o <<".git">>
      <3>1. m.repo # << >>
        BY DEF HasOwner, ToSet
      <3> QED
        BY <1>1, <3>1, CollapseWithDotGit DEF Stripped, c
    <2>2. Collapse(c \o <<".git">>) = c \o <<".git">>
      <3>1. Len(c) \in Nat /\ Len(c) >= 1
        BY <1>2, PathFacts
      <3>2. c[Len(c)] # "/"
        BY <1>2, <3>1 DEF Clean
      <3> QED
        BY <1>2, <1>3, <3>2, CollapseWithDotGit
    <2>3. found.host = m.host /\ found.repo = c
      BY <1>5 DEF Mapping
    <2> QED
      BY <2>1, <2>2, <2>3 DEF MirrorDir
  <1> QED
    BY <1>6, <1>7, <1>8

(* Up to no place there are no slashes, up to the last one all of them, and *)
(* up to a later place no fewer.                                            *)
LEMMA RankEnds ==
  ASSUME NEW n \in Nat, NEW s \in SUBSET (1 .. n)
  PROVE  /\ Rank(0, s) = 0
         /\ Rank(n, s) = Cardinality(s)
         /\ \A i, j \in 0 .. n : i <= j => Rank(i, s) <= Rank(j, s)
  <1>1. \A k \in s : k \in Int /\ 1 <= k /\ k <= n
    OBVIOUS
  <1>2. Rank(0, s) = 0
    <2>1. \A k \in s : ~(k <= 0)
      BY <1>1
    <2>2. {k \in s : k <= 0} = {}
      BY <2>1
    <2> QED
      BY <2>2, FS_EmptySet DEF Rank
  <1>3. Rank(n, s) = Cardinality(s)
    <2>1. {k \in s : k <= n} = s
      BY <1>1
    <2> QED
      BY <2>1 DEF Rank
  <1>4. ASSUME NEW i \in 0 .. n, NEW j \in 0 .. n, i <= j
        PROVE  Rank(i, s) <= Rank(j, s)
    <2>1. \A k \in s : k <= i => k <= j
      BY <1>1, <1>4
    <2>2. {k \in s : k <= i} \subseteq {k \in s : k <= j}
      BY <2>1
    <2>3. {k \in s : k <= j} \subseteq s /\ IsFiniteSet(s)
      BY Ranks
    <2>4. IsFiniteSet({k \in s : k <= j})
      BY <2>3, FS_Subset
    <2>5. Cardinality({k \in s : k <= i}) <= Cardinality({k \in s : k <= j})
      BY <2>2, <2>4, FS_Subset
    <2> QED
      BY <2>5 DEF Rank
  <1> QED
    BY <1>2, <1>3, <1>4

(* Begins of one token after another: a slash takes two places, the last    *)
(* one ends the name.                                                       *)
LEMMA BeginsFacts ==
  ASSUME NEW p \in Paths
  PROVE  /\ Cardinality(Slashes(p)) \in Nat
         /\ p # << >> => Begins(p, 1) = 1
         /\ \A i \in 1 .. Len(p) : Begins(p, i) \in Nat /\ Begins(p, i) >= i
         /\ \A i \in 1 .. Len(p) : Begins(p, i) + (IF p[i] = "/" THEN 1 ELSE 0)
                                      <= Len(p) + Cardinality(Slashes(p))
         /\ \A i, j \in 1 .. Len(p) :
              i < j => Begins(p, i) + (IF p[i] = "/" THEN 2 ELSE 1) <= Begins(p, j)
         /\ \A i \in 1 .. Len(p) - 1 :
              Begins(p, i + 1) = Begins(p, i) + (IF p[i] = "/" THEN 2 ELSE 1)
         /\ \A i \in 1 .. Len(p) : i = Len(p) =>
              Begins(p, i) + (IF p[i] = "/" THEN 1 ELSE 0) = Len(p) + Cardinality(Slashes(p))
  <1> DEFINE r(i) == Rank(i, Slashes(p))
             w(i) == IF p[i] = "/" THEN 1 ELSE 0
             c == Cardinality(Slashes(p))
  <1>1. Len(p) \in Nat /\ Slashes(p) \in SUBSET (1 .. Len(p)) /\ (p # << >> => Len(p) >= 1)
    BY PathFacts DEF Slashes
  <1>2. c \in Nat /\ r(0) = 0 /\ r(Len(p)) = c
    BY <1>1, Ranks, RankEnds
  <1>3. \A i \in 0 .. Len(p) : r(i) \in Nat /\ r(i) <= c
    <2>1. \A i \in 0 .. Len(p) : r(i) \in 0 .. c
      BY <1>1, Ranks
    <2> QED
      BY <1>2, <2>1
  <1>4. \A i, j \in 0 .. Len(p) : i <= j => r(i) <= r(j)
    BY <1>1, RankEnds
  <1>5. \A i \in 1 .. Len(p) : r(i) = r(i - 1) + w(i)
    <2>1. \A i \in 1 .. Len(p) : i \in Slashes(p) <=> p[i] = "/"
      BY PathFacts DEF Slashes
    <2>2. \A i \in 1 .. Len(p) : r(i) = r(i - 1) + IF i \in Slashes(p) THEN 1 ELSE 0
      BY <1>1, Ranks
    <2> QED
      BY <2>1, <2>2
  <1>6. \A i : Begins(p, i) = i + r(i - 1)
    BY DEF Begins
  <1>7. \A i : w(i) \in {0, 1} /\ (IF p[i] = "/" THEN 2 ELSE 1) = w(i) + 1
    OBVIOUS
  <1> HIDE DEF r, w, c
  <1>8. ASSUME NEW i \in 1 .. Len(p)
        PROVE  /\ i \in Int /\ 1 <= i /\ i <= Len(p)
               /\ i - 1 \in 0 .. Len(p) /\ i \in 0 .. Len(p)
               /\ r(i) \in Nat /\ r(i - 1) \in Nat /\ w(i) \in Nat
               /\ r(i) = r(i - 1) + w(i) /\ r(i) <= c /\ Begins(p, i) = i + r(i - 1)
    <2>1. i \in Int /\ 1 <= i /\ i <= Len(p) /\ i - 1 \in 0 .. Len(p) /\ i \in 0 .. Len(p)
      BY <1>1
    <2>2. w(i) \in Nat
      BY <1>7
    <2> QED
      BY <1>3, <1>5, <1>6, <2>1, <2>2
  <1>9. ASSUME NEW i \in 1 .. Len(p), NEW j \in 1 .. Len(p), i < j
        PROVE  Begins(p, i) + (w(i) + 1) <= Begins(p, j)
    <2>1. i \in 0 .. Len(p) /\ j - 1 \in 0 .. Len(p) /\ i <= j - 1
      BY <1>1, <1>9
    <2>2. r(i) <= r(j - 1)
      BY <1>4, <2>1
    <2> QED
      BY <1>8, <1>9, <2>2
  <1>10. ASSUME NEW i \in 1 .. Len(p) - 1
         PROVE  Begins(p, i + 1) = Begins(p, i) + (w(i) + 1)
    <2>1. i \in 1 .. Len(p) /\ i + 1 \in 1 .. Len(p) /\ (i + 1) - 1 = i
      BY <1>1
    <2>2. Begins(p, i + 1) = (i + 1) + r(i)
      BY <1>6, <2>1
    <2> QED
      BY <1>8, <2>1, <2>2
  <1>11. Begins(p, Len(p)) + w(Len(p)) = Len(p) + c \/ Len(p) = 0
    <2>1. CASE Len(p) \in 1 .. Len(p)
      <3>1. /\ r(Len(p)) = r(Len(p) - 1) + w(Len(p))
            /\ Begins(p, Len(p)) = Len(p) + r(Len(p) - 1)
            /\ r(Len(p) - 1) \in Nat /\ w(Len(p)) \in Nat
        BY <1>8, <2>1
      <3> QED
        BY <1>1, <1>2, <3>1
    <2>2. Len(p) = 0 \/ Len(p) \in 1 .. Len(p)
      BY <1>1
    <2> QED
      BY <2>1, <2>2
  <1>12. p # << >> => Begins(p, 1) = 1
    <2>1. 1 - 1 = 0
      OBVIOUS
    <2> QED
      BY <1>2, <1>6, <2>1
  <1>13. \A i \in 1 .. Len(p) : /\ Begins(p, i) \in Nat /\ Begins(p, i) >= i
                                 /\ Begins(p, i) + w(i) <= Len(p) + c
    <2> SUFFICES ASSUME NEW i \in 1 .. Len(p)
                 PROVE  /\ Begins(p, i) \in Nat /\ Begins(p, i) >= i
                        /\ Begins(p, i) + w(i) <= Len(p) + c
      OBVIOUS
    <2> QED
      BY <1>1, <1>2, <1>8
  <1>14. \A i \in 1 .. Len(p) : i = Len(p) => Begins(p, i) + w(i) = Len(p) + c
    BY <1>1, <1>11
  <1> QED
    BY <1>2, <1>7, <1>9, <1>10, <1>12, <1>13, <1>14 DEF w, c

(* What stands where in the name made of a path.                            *)
LEMMA UnderscoredFacts ==
  ASSUME NEW p \in Paths
  PROVE  /\ DOMAIN Underscored(p) = 1 .. Len(p) + Cardinality(Slashes(p))
         /\ \A i \in 1 .. Len(p) :
              Underscored(p)[Begins(p, i)] = IF p[i] = "/" THEN "_" ELSE p[i]
         /\ \A i \in 1 .. Len(p) : p[i] = "/" => Underscored(p)[Begins(p, i) + 1] = "_"
  <1> DEFINE others == DOMAIN p \ Slashes(p)
             size == Len(p) + Cardinality(Slashes(p))
             u == Underscored(p)
  <1>1. /\ Len(p) \in Nat /\ DOMAIN p = 1 .. Len(p) /\ size \in Nat
        /\ \A i \in 1 .. Len(p) : i \in others <=> p[i] # "/"
        /\ others \subseteq 1 .. Len(p)
    BY PathFacts, BeginsFacts DEF Slashes
  <1>2. u = [k \in 1 .. size |-> IF \E i \in others : Begins(p, i) = k
                                   THEN p[CHOOSE i \in others : Begins(p, i) = k] ELSE "_"]
    BY DEF Underscored
  <1> HIDE DEF others, size, u
  <1>3. ASSUME NEW i \in 1 .. Len(p)
        PROVE  /\ Begins(p, i) \in 1 .. size
               /\ p[i] = "/" => Begins(p, i) + 1 \in 1 .. size
    <2>1. /\ Begins(p, i) \in Nat /\ Begins(p, i) >= i /\ i \in Int /\ 1 <= i
          /\ Begins(p, i) + (IF p[i] = "/" THEN 1 ELSE 0) <= size
      BY <1>1, BeginsFacts DEF size
    <2> QED
      BY <1>1, <2>1
  <1>4. \A i, j \in 1 .. Len(p) : Begins(p, i) = Begins(p, j) => i = j
    <2> SUFFICES ASSUME NEW i \in 1 .. Len(p), NEW j \in 1 .. Len(p), i < j
                 PROVE  Begins(p, i) < Begins(p, j)
      BY <1>1, BeginsFacts
    <2> QED
      BY <1>1, BeginsFacts
  <1>5. ASSUME NEW i \in 1 .. Len(p), p[i] # "/"
        PROVE  u[Begins(p, i)] = p[i]
    <2>1. i \in others /\ Begins(p, i) \in 1 .. size
      BY <1>1, <1>3, <1>5
    <2>2. \A j \in others : Begins(p, j) = Begins(p, i) => j = i
      BY <1>1, <1>4
    <2>3. (CHOOSE j \in others : Begins(p, j) = Begins(p, i)) = i
      BY <2>1, <2>2
    <2> QED
      BY <1>2, <2>1, <2>3
  <1>6. ASSUME NEW i \in 1 .. Len(p), p[i] = "/"
        PROVE  u[Begins(p, i)] = "_"
    <2>1. \A j \in others : Begins(p, j) # Begins(p, i)
      BY <1>1, <1>4, <1>6
    <2> QED
      BY <1>2, <1>3, <2>1
  <1>7. ASSUME NEW i \in 1 .. Len(p), p[i] = "/"
        PROVE  u[Begins(p, i) + 1] = "_"
    <2>1. ASSUME NEW j \in others PROVE Begins(p, j) # Begins(p, i) + 1
      <3>1. j \in 1 .. Len(p) /\ Begins(p, i) \in Nat /\ Begins(p, j) \in Nat
        BY <1>1, BeginsFacts
      <3>2. CASE j <= i
        <4>1. Begins(p, j) <= Begins(p, i)
          BY <3>1, <3>2, <1>1, BeginsFacts
        <4> QED
          BY <3>1, <4>1
      <3>3. CASE i < j
        <4>1. Begins(p, i) + 2 <= Begins(p, j)
          BY <3>1, <3>3, <1>7, BeginsFacts
        <4> QED
          BY <3>1, <4>1
      <3> QED
        BY <3>1, <3>2, <3>3
    <2> QED
      BY <1>2, <1>3, <1>7, <2>1
  <1> QED
    BY <1>2, <1>5, <1>6, <1>7 DEF u, size

(* Where two paths part, the one that has an underscore where the other has *)
(* a slash goes on with an underscore or a slash of its own.                *)
LEMMA PartAtUnderscore ==
  ASSUME NEW p \in Paths, NEW q \in Paths, Underscored(p) = Underscored(q),
         NEW i \in 1 .. Len(p), i \in 1 .. Len(q), Begins(p, i) = Begins(q, i),
         p[i] = "/", q[i] # "/"
  PROVE  LooksLikeSlash(q)
  <1>1. Len(p) \in Nat /\ Len(q) \in Nat
    BY PathFacts
  <1>2. q[i] = "_"
    BY UnderscoredFacts
  <1>3. /\ Begins(q, i) \in Nat
        /\ Cardinality(Slashes(p)) \in Nat /\ Cardinality(Slashes(q)) \in Nat
    BY BeginsFacts
  <1>4. Begins(q, i) + 1 <= Len(p) + Cardinality(Slashes(p))
    BY BeginsFacts
  <1>5. Len(p) + Cardinality(Slashes(p)) = Len(q) + Cardinality(Slashes(q))
    <2>1. 1 .. Len(p) + Cardinality(Slashes(p)) = 1 .. Len(q) + Cardinality(Slashes(q))
      BY UnderscoredFacts
    <2> QED
      BY <1>1, <1>3, <2>1
  <1>6. i \in 1 .. Len(q) - 1
    <2>1. i = Len(q) => Begins(q, i) + 0 = Len(q) + Cardinality(Slashes(q))
      BY BeginsFacts
    <2> QED
      BY <1>1, <1>3, <1>4, <1>5, <2>1
  <1>7. Begins(q, i + 1) = Begins(q, i) + 1 /\ i + 1 \in 1 .. Len(q)
    BY <1>1, <1>6, BeginsFacts
  <1>8. Underscored(q)[Begins(q, i + 1)] = "_"
    <2>1. Underscored(p)[Begins(p, i) + 1] = "_"
      BY UnderscoredFacts
    <2> QED
      BY <1>7, <2>1
  <1>9. q[i + 1] \in {"_", "/"}
    <2>1. \A k \in 1 .. Len(q) :
            Underscored(q)[Begins(q, k)] = IF q[k] = "/" THEN "_" ELSE q[k]
      BY UnderscoredFacts
    <2>2. Underscored(q)[Begins(q, i + 1)] = IF q[i + 1] = "/" THEN "_" ELSE q[i + 1]
      BY <1>7, <2>1
    <2> QED
      BY <1>8, <2>2
  <1> QED
    BY <1>2, <1>6, <1>9 DEF LooksLikeSlash

(* As long as two paths agree, so do the places of their tokens.            *)
LEMMA SameBegins ==
  ASSUME NEW p \in Paths, NEW q \in Paths, NEW i \in 1 .. Len(p), i \in 1 .. Len(q),
         \A k \in 1 .. i - 1 : p[k] = q[k]
  PROVE  Begins(p, i) = Begins(q, i)
  <1>1. /\ Len(p) \in Nat /\ DOMAIN p = 1 .. Len(p)
        /\ Len(q) \in Nat /\ DOMAIN q = 1 .. Len(q)
    BY PathFacts
  <1>2. \A k : k \in Slashes(p) /\ k <= i - 1 <=> k \in Slashes(q) /\ k <= i - 1
    BY <1>1 DEF Slashes
  <1>3. {k \in Slashes(p) : k <= i - 1} = {k \in Slashes(q) : k <= i - 1}
    BY <1>2
  <1> QED
    BY <1>3 DEF Begins, Rank

(* A path that goes on where another one ends makes a longer name.          *)
LEMMA LongerName ==
  ASSUME NEW p \in Paths, NEW q \in Paths, Len(p) < Len(q),
         \A k \in 1 .. Len(p) : p[k] = q[k]
  PROVE  Underscored(p) # Underscored(q)
  <1>1. /\ Len(p) \in Nat /\ DOMAIN p = 1 .. Len(p)
        /\ Len(q) \in Nat /\ DOMAIN q = 1 .. Len(q)
    BY PathFacts
  <1>2. Slashes(p) \subseteq Slashes(q)
    BY <1>1 DEF Slashes
  <1>3. IsFiniteSet(Slashes(q))
    <2>1. Slashes(q) \in SUBSET (1 .. Len(q))
      BY <1>1 DEF Slashes
    <2> QED
      BY <1>1, <2>1, Ranks
  <1>4. Cardinality(Slashes(p)) <= Cardinality(Slashes(q))
    BY <1>2, <1>3, FS_Subset
  <1>5. Cardinality(Slashes(p)) \in Nat /\ Cardinality(Slashes(q)) \in Nat
    BY BeginsFacts
  <1>6. Len(p) + Cardinality(Slashes(p)) < Len(q) + Cardinality(Slashes(q))
    BY <1>1, <1>4, <1>5
  <1>7. 1 .. Len(p) + Cardinality(Slashes(p)) # 1 .. Len(q) + Cardinality(Slashes(q))
    BY <1>1, <1>5, <1>6
  <1> QED
    BY <1>7, UnderscoredFacts

(* A key is read off its stamp, unless an underscore looks like a slash.    *)
LEMMA StampTells ==
  ASSUME NEW p \in Paths, NEW q \in Paths, Underscored(p) = Underscored(q),
         ~LooksLikeSlash(p), ~LooksLikeSlash(q)
  PROVE  p = q
  <1>1. Len(p) \in Nat /\ Len(q) \in Nat
    BY PathFacts
  <1> DEFINE differ == {i \in 1 .. Len(p) : i <= Len(q) /\ p[i] # q[i]}
  <1>2. CASE differ # {}
    <2> DEFINE i == Min(differ)
    <2>1. differ \in SUBSET (1 .. Len(p))
      OBVIOUS
    <2>2. i \in differ /\ \A y \in differ : i <= y
      BY <1>1, <1>2, <2>1, FirstPlace
    <2>3. i \in 1 .. Len(p) /\ i \in 1 .. Len(q) /\ p[i] # q[i]
      BY <1>1, <2>2
    <2>4. \A k \in 1 .. i - 1 : p[k] = q[k]
      BY <1>1, <2>2, <2>3
    <2> HIDE DEF i, differ
    <2>5. Begins(p, i) = Begins(q, i)
      BY <2>3, <2>4, SameBegins
    <2>6. (IF p[i] = "/" THEN "_" ELSE p[i]) = (IF q[i] = "/" THEN "_" ELSE q[i])
      BY <2>3, <2>5, UnderscoredFacts
    <2>7. CASE p[i] = "/"
      BY <2>3, <2>5, <2>7, PartAtUnderscore
    <2>8. CASE q[i] = "/"
      BY <2>3, <2>5, <2>8, PartAtUnderscore
    <2> QED
      BY <2>3, <2>6, <2>7, <2>8
  <1>3. CASE differ = {}
    <2>1. \A k \in 1 .. Len(p) : k <= Len(q) => p[k] = q[k]
      BY <1>3
    <2>2. ~(Len(p) < Len(q))
      BY <1>1, <2>1, LongerName
    <2>3. ~(Len(q) < Len(p))
      BY <1>1, <2>1, LongerName
    <2>4. Len(p) = Len(q)
      BY <1>1, <2>2, <2>3
    <2>5. \A k \in 1 .. Len(p) : p[k] = q[k]
      BY <2>1, <2>4
    <2> QED
      BY <2>4, <2>5, SeqEqual DEF Paths
  <1> QED
    BY <1>2, <1>3

-----------------------------------------------------------------------------
(* What is known of each party. *)
MapInv ==
  /\ step \in [Parties -> {"idle", "sent", "mapped", "refused", "mirrored", "answered"}]
  /\ url \in [Parties -> Urls \cup {Refused}]
  /\ path \in [Parties -> Paths]
  /\ DOMAIN map = Parties
  /\ \A p \in Parties : step[p] = "idle" => path[p] = << >>
  /\ \A p \in Parties : IsMapped(p) => IsMapping(map[p]) /\ Stripped(map[p].repo)
  /\ \A p \in Parties : IsMapped(p) /\ (path[p] # << >> \/ url[p].syntax # "scp") =>
       HasOwner(map[p].repo)
  /\ \A m \in mirrored : m.content.path \in Existing

LEMMA UrlPaths ==
  ASSUME NEW u \in Urls
  PROVE  u.path \in Paths /\ \A at \in RequestPaths(u) : at \in Paths
  <1>1. \A r \in Repos : r \in Paths
    BY UrlAssumption DEF Paths
  <1>2. <<"/">> \in Paths
    BY UrlAssumption DEF Paths
  <1>3. \A a, b \in Paths : a \o b \in Paths
    BY ConcatProperties DEF Paths
  <1>4. u.path \in Paths
    <2>1. PICK r \in Repos : u.path \in Spellings(r)
      BY DEF Urls
    <2> QED
      BY <1>1, <1>2, <1>3, <2>1, DotGit DEF Spellings
  <1>5. \A s \in Services : s \in Paths
    <2>1. {"/", "info", "refs", "git-upload-pack"} \subseteq Tokens
      BY UrlAssumption
    <2>2. \A a, b, c, d \in Tokens : <<a, b, c, d>> \in Seq(Tokens) /\ <<a, b>> \in Seq(Tokens)
      OBVIOUS
    <2> QED
      BY <2>1, <2>2 DEF Services, Paths
  <1> QED
    BY <1>3, <1>4, <1>5, StripRightFacts DEF RequestPaths

LEMMA MapInit == Init => MapInv
  <1> SUFFICES ASSUME Init PROVE MapInv
    OBVIOUS
  <1>1. << >> \in Paths
    BY EmptySeq DEF Paths
  <1> QED
    BY <1>1 DEF Init, MapInv, IsMapped

LEMMA MapStep == MapInv /\ [Next]_vars => MapInv'
  <1> SUFFICES ASSUME MapInv, [Next]_vars PROVE MapInv'
    OBVIOUS
  <1>1. ASSUME NEW p \in Parties, SendRequest(p) PROVE MapInv'
    <2>1. PICK u, at :
            /\ u \in Urls /\ at \in RequestPaths(u)
            /\ url' = [url EXCEPT ![p] = u] /\ path' = [path EXCEPT ![p] = at]
      BY <1>1 DEF SendRequest
    <2>2. at \in Paths
      BY <2>1, UrlPaths
    <2>3. step' = [step EXCEPT ![p] = "sent"] /\ UNCHANGED <<map, mirrored>>
      BY <1>1 DEF SendRequest
    <2> QED
      BY <2>1, <2>2, <2>3 DEF MapInv, IsMapped
  <1>2. ASSUME NEW p \in Parties, MapRequest(p) PROVE MapInv'
    <2>1. PICK m : m = MapGatewayPath(url[p].host, path[p])
      OBVIOUS
    <2>2. m # Refused => IsMapping(m) /\ Stripped(m.repo) /\ HasOwner(m.repo)
      BY <2>1, GatewayMappings DEF MapInv
    <2>3. /\ map' = [map EXCEPT ![p] = m] /\ UNCHANGED <<url, path, mirrored>>
          /\ step' = [step EXCEPT ![p] = IF m = Refused THEN "refused" ELSE "mapped"]
      BY <1>2, <2>1 DEF MapRequest, Mapped
    <2> QED
      BY <2>2, <2>3, <1>2 DEF MapInv, IsMapped, MapRequest
  <1>3. ASSUME NEW p \in Parties, Command(p) PROVE MapInv'
    <2>1. PICK u \in Urls : url' = [url EXCEPT ![p] = u] /\ Mapped(p, MapRemoteUrl(u))
      BY <1>3 DEF Command
    <2>2. PICK m : m = MapRemoteUrl(u)
      OBVIOUS
    <2>3. m # Refused => /\ IsMapping(m) /\ Stripped(m.repo)
                         /\ u.syntax # "scp" => HasOwner(m.repo)
      BY <2>2, UrlPaths, RemoteMappings
    <2>4. /\ map' = [map EXCEPT ![p] = m] /\ UNCHANGED <<path, mirrored>>
          /\ step' = [step EXCEPT ![p] = IF m = Refused THEN "refused" ELSE "mapped"]
          /\ step[p] = "idle"
      BY <1>3, <2>1, <2>2 DEF Command, Mapped
    <2>5. path[p] = << >>
      BY <2>4 DEF MapInv
    <2> QED
      BY <2>1, <2>3, <2>4, <2>5 DEF MapInv, IsMapped
  <1>4. ASSUME NEW p \in Parties, Mirror(p) PROVE MapInv'
    <2>1. /\ step[p] = "mapped" /\ step' = [step EXCEPT ![p] = "mirrored"]
          /\ UNCHANGED <<url, path, map>>
      BY <1>4 DEF Mirror
    <2>2. \A m \in mirrored' : m.content.path \in Existing
      BY <1>4 DEF Mirror, MapInv
    <2> QED
      BY <2>1, <2>2 DEF MapInv, IsMapped
  <1>5. ASSUME NEW p \in Parties, Answer(p) PROVE MapInv'
    <2>1. /\ step[p] \in {"mapped", "mirrored"} /\ step' = [step EXCEPT ![p] = "answered"]
          /\ UNCHANGED <<url, path, map, mirrored>>
      BY <1>5 DEF Answer
    <2> QED
      BY <2>1 DEF MapInv, IsMapped
  <1>6. CASE UNCHANGED vars
    BY <1>6 DEF MapInv, IsMapped, vars
  <1> QED
    BY <1>1, <1>2, <1>3, <1>4, <1>5, <1>6 DEF Next

LEMMA Invariant == Spec => []MapInv
  BY MapInit, MapStep, PTL DEF Spec

(* Every variable keeps its type; what is mapped is of a supported host.    *)
THEOREM TypeCorrect == Spec => []TypeOK
  <1>1. MapInv => TypeOK
    BY DEF MapInv, TypeOK, IsMapping
  <1> QED
    BY <1>1, Invariant, PTL

(* A failed job can be asked for again: its remote URL maps to its key.     *)
THEOREM RetriesMatch == Spec => []RetryNamesTheSameJob
  <1>1. MapInv => RetryNamesTheSameJob
    BY RemoteUrlNames DEF MapInv, RetryNamesTheSameJob
  <1> QED
    BY <1>1, Invariant, PTL

(* Only an underscore that is followed by another one, or ends its segment, *)
(* makes two repositories share a stamp, for names of any length.           *)
THEOREM StampsTellApart == Spec => []StampsSharedOnlyByUnderscores
  <1>1. MapInv => StampsSharedOnlyByUnderscores
    <2> SUFFICES ASSUME MapInv, NEW m \in Mappings, NEW n \in Mappings,
                        StampName(m) = StampName(n),
                        ~LooksLikeSlash(m.repo), ~LooksLikeSlash(n.repo)
                 PROVE  m.project = n.project
      BY DEF StampsSharedOnlyByUnderscores
    <2>1. IsMapping(m) /\ IsMapping(n)
      BY DEF MapInv, Mappings
    <2>2. m.host = n.host /\ Underscored(m.repo) = Underscored(n.repo)
      BY DEF StampName
    <2>3. m.repo = n.repo
      BY <2>1, <2>2, StampTells DEF IsMapping
    <2>4. /\ m = Mapping(m.host, m.repo, m.suffix)
          /\ n = Mapping(n.host, n.repo, n.suffix)
      BY <2>1 DEF IsMapping
    <2>5. /\ m.project = [host |-> m.host, path |-> Collapse(m.repo)]
          /\ n.project = [host |-> n.host, path |-> Collapse(n.repo)]
      BY <2>4 DEF Mapping
    <2> QED
      BY <2>2, <2>3, <2>5
  <1> QED
    BY <1>1, Invariant, PTL

(* A scan of GitLab finds each mirror that lies under an owner and names    *)
(* its local directory: the project's path is collapsed already, so that    *)
(* mapping it again changes nothing.                                        *)
THEOREM ScanIsComplete == Spec => []ScanFindsEveryMirror
  <1>1. MapInv => ScanFindsEveryMirror
    <2> SUFFICES ASSUME MapInv, NEW p \in Parties, step[p] = "mirrored",
                        url[p].syntax # "scp" \/ HasOwner(map[p].repo)
                 PROVE  LET found == ScannedMapping(map[p].project)
                        IN /\ found # Refused
                           /\ found.project = map[p].project
                           /\ MirrorDir(found) = MirrorDir(map[p])
      BY DEF ScanFindsEveryMirror
    <2>1. /\ IsMapping(map[p]) /\ Stripped(map[p].repo) /\ HasOwner(map[p].repo)
      BY DEF MapInv, IsMapped
    <2> QED
      BY <2>1, ScanFinds
  <1> QED
    BY <1>1, Invariant, PTL

=============================================================================
