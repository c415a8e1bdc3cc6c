------------------------- MODULE UrlMapNames_proofs -------------------------
(***************************************************************************)
(* What a request's path is cut into, and what is asked for with it: that  *)
(* a client gets the repository its URL names or none, that only its name  *)
(* can lose a repository, and that all its URLs meet at one lock.          *)
(***************************************************************************)
EXTENDS UrlMap_proofs

(* Paths that are joined. *)
LEMMA Joined ==
  ASSUME NEW a \in Paths, NEW b \in Paths
  PROVE  /\ a \o b \in Paths /\ Len(a \o b) = Len(a) + Len(b)
         /\ \A i \in 1 .. Len(a) : (a \o b)[i] = a[i]
         /\ \A i \in 1 .. Len(b) : (a \o b)[Len(a) + i] = b[i]
  <1>1. Len(a) \in Nat /\ Len(b) \in Nat
    BY PathFacts
  <1>2. /\ a \o b \in Paths /\ Len(a \o b) = Len(a) + Len(b)
        /\ \A i \in 1 .. Len(a) + Len(b) :
             (a \o b)[i] = IF i <= Len(a) THEN a[i] ELSE b[i - Len(a)]
    BY ConcatProperties DEF Paths
  <1> HIDE DEF Paths
  <1>3. ASSUME NEW i \in 1 .. Len(b) PROVE (a \o b)[Len(a) + i] = b[i]
    <2>1. Len(a) + i \in 1 .. Len(a) + Len(b) /\ ~(Len(a) + i <= Len(a)) /\ (Len(a) + i) - Len(a) = i
      BY <1>1
    <2> QED
      BY <1>2, <2>1
  <1> QED
    BY <1>1, <1>2, <1>3

LEMMA SamePath ==
  ASSUME NEW a \in Paths, NEW b \in Paths, Len(a) = Len(b),
         \A i \in 1 .. Len(a) : a[i] = b[i]
  PROVE  a = b
  BY SeqEqual DEF Paths

LEMMA Slash ==
  <<"/">> \in Paths /\ Len(<<"/">>) = 1 /\ <<"/">>[1] = "/"
  <1>1. "/" \in Tokens
    BY UrlAssumption
  <1>2. \A S : \A e \in S : <<e>> \in Seq(S) /\ Len(<<e>>) = 1 /\ <<e>>[1] = e
    OBVIOUS
  <1> QED
    BY <1>1, <1>2 DEF Paths

(* What is stripped lies outside the first and the last name.               *)
LEMMA StripIs ==
  ASSUME NEW p \in Paths, NEW m \in 1 .. Len(p), NEW n \in 1 .. Len(p),
         p[m] # "/", p[n] # "/",
         \A i \in 1 .. Len(p) : p[i] # "/" => m <= i /\ i <= n
  PROVE  Strip(p) = SubSeq(p, m, n) /\ StripRight(p) = SubSeq(p, 1, n)
  <1> DEFINE rest == {i \in DOMAIN p : p[i] # "/"}
  <1>1. Len(p) \in Nat /\ DOMAIN p = 1 .. Len(p) /\ rest \in SUBSET (1 .. Len(p))
    BY PathFacts
  <1>2. m \in rest /\ n \in rest /\ \A i \in rest : m <= i /\ i <= n
    BY <1>1
  <1>3. Strip(p) = SubSeq(p, Min(rest), Max(rest)) /\ StripRight(p) = SubSeq(p, 1, Max(rest))
    BY <1>2 DEF Strip, StripRight
  <1> HIDE DEF rest
  <1>4. /\ Min(rest) \in rest /\ Min(rest) <= m
        /\ Max(rest) \in rest /\ n <= Max(rest)
    BY <1>1, <1>2, FirstPlace, LastPlace
  <1>5. Min(rest) = m /\ Max(rest) = n
    <2>1. Min(rest) \in 1 .. Len(p) /\ Max(rest) \in 1 .. Len(p)
      BY <1>1, <1>4
    <2> QED
      BY <1>1, <1>2, <1>4, <2>1
  <1> QED
    BY <1>3, <1>5

(* As many places elsewhere.                                                *)
LEMMA Shifted ==
  ASSUME NEW n \in Nat, NEW T \in SUBSET (1 .. n), NEW m \in Nat
  PROVE  /\ IsFiniteSet({m + j : j \in T})
         /\ Cardinality({m + j : j \in T}) = Cardinality(T)
  <1> DEFINE U == {m + j : j \in T}
             f == [j \in T |-> m + j]
  <1>1. IsFiniteSet(T)
    BY Ranks
  <1>2. \A i, j \in T : i # j => f[i] # f[j]
    <2>1. \A j \in T : j \in Int
      OBVIOUS
    <2> QED
      BY <2>1
  <1>3. f \in [T -> U]
    BY Zenon
  <1>4. \A u \in U : \E j \in T : f[j] = u
    OBVIOUS
  <1> HIDE DEF f, U
  <1>5. f \in Bijection(T, U)
    BY <1>2, <1>3, <1>4 DEF Bijection, Injection, IsInjective, Surjection
  <1>6. IsFiniteSet(U) /\ Cardinality(U) = Cardinality(T)
    BY <1>1, <1>5, FS_Bijection DEF ExistsBijection
  <1> QED
    BY <1>6 DEF U

(* Empty segments are dropped on either side of a name's end.               *)
LEMMA CollapseJoined ==
  ASSUME NEW y \in Paths, NEW z \in Paths, y # << >>, y[Len(y)] # "/",
         z # << >>, z[1] # "/" \/ Len(z) = 1
  PROVE  Collapse(y \o z) = Collapse(y) \o Collapse(z)
  <1> DEFINE w == y \o z
             m == Len(y)
             n == Len(z)
             s == Kept(y)
             t == Kept(z)
             u == Kept(w)
             v == {m + j : j \in t}
  <1>1. /\ m \in Nat /\ m >= 1 /\ DOMAIN y = 1 .. m
        /\ n \in Nat /\ n >= 1 /\ DOMAIN z = 1 .. n
    BY PathFacts
  <1>2. /\ w \in Paths /\ Len(w) = m + n /\ DOMAIN w = 1 .. m + n
        /\ \A i \in 1 .. m : w[i] = y[i]
        /\ \A j \in 1 .. n : w[m + j] = z[j]
    BY Joined, PathFacts
  <1>3. s \in SUBSET (1 .. m) /\ t \in SUBSET (1 .. n) /\ u \in SUBSET (1 .. m + n)
    BY <1>2, KeptFacts
  <1>4. \A i \in 1 .. m : i \in s <=> i \in u
    <2>1. \A i \in 1 .. m :
            y[i] = "/" => (\E k \in 1 .. m : k > i /\ y[k] # "/")
                          /\ \E k \in 1 .. m + n : k > i /\ w[k] # "/"
      BY <1>1, <1>2
    <2>2. \A i \in 1 .. m : i \in s <=> (y[i] = "/" => i > 1 /\ y[i - 1] # "/")
      BY <1>1, <2>1 DEF Kept
    <2>3. \A i \in 1 .. m : i \in 1 .. m + n /\ (i > 1 => i - 1 \in 1 .. m)
      BY <1>1
    <2>4. \A i \in 1 .. m : i \in u <=> (w[i] = "/" => i > 1 /\ w[i - 1] # "/")
      BY <1>1, <1>2, <2>1, <2>3 DEF Kept
    <2> QED
      BY <1>2, <2>2, <2>3, <2>4
  <1>5. \A j \in 1 .. n : j \in t <=> m + j \in u
    <2> SUFFICES ASSUME NEW j \in 1 .. n PROVE j \in t <=> m + j \in u
      OBVIOUS
    <2>1. m + j \in 1 .. m + n /\ m + j > 1 /\ w[m + j] = z[j]
      BY <1>1, <1>2
    <2>2. (\E k \in 1 .. m + n : k > m + j /\ w[k] # "/") <=> \E k \in 1 .. n : k > j /\ z[k] # "/"
      <3>1. ASSUME NEW k \in 1 .. m + n, k > m + j, w[k] # "/"
            PROVE  k - m \in 1 .. n /\ k - m > j /\ z[k - m] # "/"
        <4>1. k - m \in 1 .. n /\ k - m > j /\ m + (k - m) = k
          BY <1>1, <3>1
        <4> QED
          BY <1>2, <3>1, <4>1
      <3>2. ASSUME NEW k \in 1 .. n, k > j, z[k] # "/"
            PROVE  m + k \in 1 .. m + n /\ m + k > m + j /\ w[m + k] # "/"
        BY <1>1, <1>2, <3>2
      <3> QED
        BY <3>1, <3>2
    <2>3. j \in t <=> (z[j] = "/" => j > 1 /\ z[j - 1] # "/" /\ \E k \in 1 .. n : k > j /\ z[k] # "/")
      BY <1>1 DEF Kept
    <2>4. m + j \in u <=> (w[m + j] = "/" => /\ m + j > 1 /\ w[(m + j) - 1] # "/"
                                             /\ \E k \in 1 .. m + n : k > m + j /\ w[k] # "/")
      BY <1>2, <2>1 DEF Kept
    <2>5. CASE j > 1
      <3>1. j - 1 \in 1 .. n /\ (m + j) - 1 = m + (j - 1)
        BY <1>1, <2>5
      <3>2. w[(m + j) - 1] = z[j - 1]
        BY <1>2, <3>1
      <3> QED
        BY <2>1, <2>2, <2>3, <2>4, <2>5, <3>2
    <2>6. CASE j = 1
      <3>1. z[1] = "/" => ~\E k \in 1 .. n : k > 1 /\ z[k] # "/"
        BY <1>1
      <3> QED
        BY <2>1, <2>2, <2>3, <2>4, <2>6, <3>1
    <2> QED
      BY <1>1, <2>5, <2>6
  <1>6. u = s \cup v /\ s \cap v = {}
    <2>1. \A i \in v : \E j \in t : i = m + j
      OBVIOUS
    <2>2. \A i \in v : i \in u /\ i > m
      BY <1>1, <1>3, <1>5, <2>1
    <2>3. \A i \in u : i > m => i \in v
      <3> SUFFICES ASSUME NEW i \in u, i > m PROVE i \in v
        OBVIOUS
      <3>1. i - m \in 1 .. n /\ m + (i - m) = i
        BY <1>1, <1>3
      <3> QED
        BY <1>5, <3>1
    <2>4. \A i \in u : ~(i > m) => i \in s
      BY <1>1, <1>3, <1>4
    <2>5. \A i \in s : i \in u /\ ~(i > m)
      BY <1>1, <1>3, <1>4
    <2> QED
      BY <2>2, <2>3, <2>4, <2>5
  <1> HIDE DEF s, t, u, w, m, n
  <1>7. /\ \A i \in s : Rank(i, u) = Rank(i, s)
        /\ \A j \in t : Rank(m + j, u) = Cardinality(s) + Rank(j, t)
        /\ Cardinality(u) = Cardinality(s) + Cardinality(t)
    <2>0. /\ IsFiniteSet(s) /\ Cardinality(s) \in Nat
          /\ \A i \in s : i \in Int /\ i <= m
          /\ \A j \in t : j \in Int /\ j >= 1
          /\ \A i \in v : \E j \in t : i = m + j
      BY <1>1, <1>3, Ranks
    <2>1. ASSUME NEW i \in s PROVE Rank(i, u) = Rank(i, s)
      <3>1. \A k \in v : ~(k <= i)
        BY <1>1, <2>0
      <3>2. {k \in u : k <= i} = {k \in s : k <= i}
        BY <1>6, <3>1
      <3> QED
        BY <3>2 DEF Rank
    <2>2. ASSUME NEW T \in SUBSET t
          PROVE  Cardinality(s \cup {m + j : j \in T}) = Cardinality(s) + Cardinality(T)
      <3> DEFINE V == {m + j : j \in T}
      <3>1. T \in SUBSET (1 .. n)
        BY <1>3
      <3>2. IsFiniteSet(V) /\ Cardinality(V) = Cardinality(T)
        BY <1>1, <3>1, Shifted
      <3>3. s \cap V = {}
        BY <1>6
      <3> HIDE DEF V
      <3>4. Cardinality(s \cup V) = Cardinality(s) + Cardinality(V) - Cardinality(s \cap V)
        BY <2>0, <3>2, FS_Union
      <3>5. Cardinality(s \cap V) = 0 /\ Cardinality(V) \in Nat
        BY <3>2, <3>3, FS_EmptySet, FS_CardinalityType
      <3>6. Cardinality(s \cup V) = Cardinality(s) + Cardinality(T)
        BY <2>0, <3>2, <3>4, <3>5
      <3> QED
        BY <3>6 DEF V
    <2>3. ASSUME NEW j \in t PROVE Rank(m + j, u) = Cardinality(s) + Rank(j, t)
      <3> DEFINE T == {k \in t : k <= j}
      <3>1. {k \in u : k <= m + j} = s \cup {m + k : k \in T}
        <4>1. \A k \in s : k <= m + j
          BY <1>1, <2>0
        <4>2. \A k \in t : m + k <= m + j <=> k <= j
          BY <1>1, <2>0
        <4> QED
          BY <1>6, <4>1, <4>2
      <3>2. T \in SUBSET t
        OBVIOUS
      <3> QED
        BY <2>2, <3>1, <3>2 DEF Rank
    <2> QED
      BY <1>6, <2>1, <2>2, <2>3
  <1> HIDE DEF v
  <1> DEFINE a == Picked(y, s)
             b == Picked(z, t)
             c == Picked(w, u)
  <1>8. /\ a \in Paths /\ Len(a) = Cardinality(s) /\ \A i \in s : a[Rank(i, s)] = y[i]
        /\ b \in Paths /\ Len(b) = Cardinality(t) /\ \A j \in t : b[Rank(j, t)] = z[j]
        /\ c \in Paths /\ Len(c) = Cardinality(u) /\ \A i \in u : c[Rank(i, u)] = w[i]
    BY <1>2, <1>3, PickedAt DEF m, n
  <1>9. /\ Cardinality(s) \in Nat /\ \A k \in 1 .. Cardinality(s) : \E i \in s : Rank(i, s) = k
        /\ Cardinality(t) \in Nat /\ \A k \in 1 .. Cardinality(t) : \E j \in t : Rank(j, t) = k
    BY <1>1, <1>3, Ranks
  <1> HIDE DEF a, b, c
  <1>10. /\ a \o b \in Paths /\ Len(a \o b) = Cardinality(s) + Cardinality(t)
         /\ \A k \in 1 .. Cardinality(s) : (a \o b)[k] = a[k]
         /\ \A k \in 1 .. Cardinality(t) : (a \o b)[Cardinality(s) + k] = b[k]
    <2>1. /\ a \o b \in Paths /\ Len(a \o b) = Len(a) + Len(b)
          /\ \A k \in 1 .. Len(a) : (a \o b)[k] = a[k]
          /\ \A k \in 1 .. Len(b) : (a \o b)[Len(a) + k] = b[k]
      BY <1>8, Joined
    <2> QED
      BY <1>8, <2>1
  <1>11. ASSUME NEW k \in 1 .. Cardinality(s) PROVE c[k] = (a \o b)[k]
    <2>1. PICK i \in s : Rank(i, s) = k
      BY <1>9
    <2>2. i \in u /\ i \in 1 .. m /\ Rank(i, u) = k
      BY <1>3, <1>6, <1>7, <2>1
    <2> QED
      BY <1>2, <1>8, <1>10, <2>1, <2>2
  <1>12. ASSUME NEW k \in 1 .. Cardinality(t)
         PROVE  c[Cardinality(s) + k] = (a \o b)[Cardinality(s) + k]
    <2>1. PICK j \in t : Rank(j, t) = k
      BY <1>9
    <2>2. m + j \in u /\ j \in 1 .. n /\ Rank(m + j, u) = Cardinality(s) + k
      BY <1>3, <1>5, <1>7, <2>1
    <2>3. c[Cardinality(s) + k] = z[j]
      BY <1>2, <1>8, <2>2
    <2> QED
      BY <1>8, <1>10, <2>1, <2>3
  <1>13. \A k \in 1 .. Len(c) : c[k] = (a \o b)[k]
    <2> SUFFICES ASSUME NEW k \in 1 .. Cardinality(s) + Cardinality(t) PROVE c[k] = (a \o b)[k]
      BY <1>7, <1>8
    <2>1. k \in 1 .. Cardinality(s) \/ k - Cardinality(s) \in 1 .. Cardinality(t)
      BY <1>9
    <2>2. Cardinality(s) + (k - Cardinality(s)) = k
      BY <1>9
    <2> QED
      BY <1>11, <1>12, <2>1, <2>2
  <1>14. c = a \o b
    <2>1. a \o b \in Paths /\ Len(c) = Len(a \o b)
      BY <1>7, <1>8, <1>10
    <2> QED
      BY <1>8, <1>13, <2>1, SamePath
  <1> QED
    BY <1>14 DEF a, b, c, s, t, u, w, Collapse

-----------------------------------------------------------------------------
(* Names, and the ways they are written. *)
(* The last name stays the last.                                            *)
LEMMA LastStays ==
  ASSUME NEW p \in Paths, p # << >>, p[Len(p)] # "/"
  PROVE  LET c == Collapse(p) IN c # << >> /\ Len(c) \in Nat /\ Len(c) >= 1 /\ c[Len(c)] = p[Len(p)]
  <1> DEFINE s == Kept(p)
             c == Picked(p, s)
             n == Len(p)
  <1>1. n \in Nat /\ n >= 1 /\ s \in SUBSET (1 .. n) /\ n \in s
    BY PathFacts, KeptFacts
  <1>2. c \in Paths /\ Len(c) = Cardinality(s) /\ c[Rank(n, s)] = p[n]
    BY <1>1, PickedAt
  <1>3. Rank(n, s) = Cardinality(s)
    <2>1. \A k \in s : k <= n
      BY <1>1
    <2>2. {k \in s : k <= n} = s
      BY <2>1
    <2> QED
      BY <2>2 DEF Rank
  <1>4. Rank(n, s) \in 1 .. Cardinality(s) /\ Cardinality(s) \in Nat
    BY <1>1, Ranks
  <1>5. Len(c) >= 1 /\ Len(c) \in Nat /\ c[Len(c)] = p[n]
    BY <1>2, <1>3, <1>4
  <1>6. c # << >>
    BY <1>5
  <1> QED
    BY <1>5, <1>6 DEF Collapse

LEMMA CleanIsStripped ==
  ASSUME NEW q \in Paths, Clean(q)
  PROVE  Stripped(q)
  <1>1. Len(q) \in Nat /\ (q # << >> => Len(q) >= 1)
    BY PathFacts
  <1> QED
    BY <1>1 DEF Clean, Stripped

(* A slash behind ".git" is kept.                                           *)
LEMMA SlashStays ==
  ASSUME NEW p \in Paths, NEW i \in 1 .. Len(p), i + 1 < Len(p),
         p[i] = ".git", p[i + 1] = "/", p[Len(p)] # "/"
  PROVE  LET c == Collapse(p) IN \E m \in 1 .. Len(c) - 1 : c[m] = ".git" /\ c[m + 1] = "/"
  <1> DEFINE s == Kept(p)
             c == Picked(p, s)
             n == Len(p)
  <1>1. n \in Nat /\ DOMAIN p = 1 .. n /\ s \in SUBSET (1 .. n) /\ i \in s /\ n \in s
    BY PathFacts, KeptFacts
  <1>2. i + 1 \in s
    <2>1. i + 1 \in 1 .. n /\ i + 1 > 1 /\ (i + 1) - 1 = i /\ n \in 1 .. n
      BY <1>1
    <2> QED
      BY <1>1, <2>1 DEF Kept
  <1>3. c \in Paths /\ Len(c) = Cardinality(s) /\ \A k \in s : c[Rank(k, s)] = p[k]
    BY <1>1, PickedAt
  <1>4. Rank(i + 1, s) = Rank((i + 1) - 1, s) + 1
    BY <1>1, <1>2, Ranks
  <1>5. /\ Rank(i, s) \in 1 .. Cardinality(s) /\ Rank(i + 1, s) \in 1 .. Cardinality(s)
        /\ Cardinality(s) \in Nat
    BY <1>1, <1>2, Ranks
  <1>6. (i + 1) - 1 = i
    OBVIOUS
  <1>7. Rank(i, s) \in 1 .. Len(c) - 1 /\ c[Rank(i, s)] = ".git" /\ c[Rank(i, s) + 1] = "/"
    BY <1>1, <1>2, <1>3, <1>4, <1>5, <1>6
  <1> QED
    BY <1>7 DEF Collapse

-----------------------------------------------------------------------------
(* Names of repositories. *)

LEMMA RepoFacts ==
  ASSUME NEW r \in Repos
  PROVE  /\ r \in Paths /\ r # << >> /\ Len(r) \in Nat /\ Len(r) >= 1 /\ Stripped(r)
         /\ r[1] # "/" /\ r[Len(r)] # "/" /\ r[Len(r)] # ".git"
         /\ \A i \in 1 .. Len(r) : r[i] = ".git" => i < Len(r) /\ r[i + 1] # "/"
  <1>1. r \in Paths /\ r # << >> /\ r[1] # "/" /\ r[Len(r)] # "/"
    BY UrlAssumption DEF Paths
  <1>2. Len(r) \in Nat /\ Len(r) >= 1 /\ DOMAIN r = 1 .. Len(r)
    BY <1>1, PathFacts
  <1>3. \A i \in 1 .. Len(r) : r[i] = ".git" => i < Len(r) /\ r[i + 1] # "/"
    BY <1>2, UrlAssumption
  <1>4. r[Len(r)] # ".git"
    BY <1>2, <1>3
  <1> QED
    BY <1>1, <1>2, <1>3, <1>4 DEF Stripped

LEMMA WithSlash ==
  ASSUME NEW r \in Paths, r # << >>, Stripped(r)
  PROVE  LET w == r \o <<"/">>
         IN Strip(w) = r /\ StripRight(w) = r /\ StripRight(r) = r /\ Collapse(w) = Collapse(r)
  <1> DEFINE w == r \o <<"/">>
             n == Len(r)
  <1>1. n \in Nat /\ n >= 1 /\ r[1] # "/" /\ r[n] # "/"
    BY PathFacts DEF Stripped
  <1>2. /\ w \in Paths /\ Len(w) = n + 1 /\ w[n + 1] = "/"
        /\ \A i \in 1 .. n : w[i] = r[i]
    BY <1>1, Slash, Joined
  <1>3. SubSeq(w, 1, n) = r
    <2>1. /\ SubSeq(w, 1, n) \in Paths /\ Len(SubSeq(w, 1, n)) = n
          /\ \A i \in 1 .. n : SubSeq(w, 1, n)[i] = w[1 + i - 1]
      <3>1. /\ SubSeq(w, 1, n) \in Paths
            /\ Len(SubSeq(w, 1, n)) = IF 1 <= n THEN n - 1 + 1 ELSE 0
            /\ \A i \in 1 .. n - 1 + 1 : SubSeq(w, 1, n)[i] = w[1 + i - 1]
        <4>1. 1 \in Int /\ n \in Int /\ 1 >= 1 /\ n <= Len(w) /\ w \in Paths
          BY <1>1, <1>2
        <4> HIDE DEF w, n
        <4> QED
          BY <4>1, Part
      <3>2. n - 1 + 1 = n /\ 1 <= n
        BY <1>1
      <3> QED
        BY <3>1, <3>2
    <2>2. \A i \in 1 .. n : SubSeq(w, 1, n)[i] = r[i]
      <3> SUFFICES ASSUME NEW i \in 1 .. n PROVE SubSeq(w, 1, n)[i] = r[i]
        OBVIOUS
      <3>1. 1 + i - 1 = i
        BY <1>1
      <3> QED
        BY <1>2, <2>1, <3>1
    <2> QED
      BY <2>1, <2>2, SamePath
  <1>4. /\ 1 \in 1 .. Len(w) /\ n \in 1 .. Len(w) /\ w[1] # "/" /\ w[n] # "/"
        /\ \A i \in 1 .. Len(w) : w[i] # "/" => 1 <= i /\ i <= n
    BY <1>1, <1>2
  <1> HIDE DEF w, n
  <1>5. Strip(w) = r /\ StripRight(w) = r
    BY <1>2, <1>3, <1>4, StripIs
  <1>6. StripRight(r) = r
    <2>1. 1 \in 1 .. Len(r) /\ Len(r) \in 1 .. Len(r) /\ \A i \in 1 .. Len(r) : 1 <= i /\ i <= Len(r)
      BY <1>1 DEF n
    <2>2. StripRight(r) = SubSeq(r, 1, Len(r))
      BY <1>1, <2>1, StripIs DEF n
    <2> QED
      BY <2>2, SubSeqFull DEF Paths
  <1>7. Collapse(w) = Collapse(r)
    <2>1. <<"/">> \in Paths /\ Len(<<"/">>) = 1 /\ <<"/">>[1] = "/" /\ <<"/">> # << >>
      BY Slash
    <2>2. Collapse(w) = Collapse(r) \o Collapse(<<"/">>)
      BY <1>1, <2>1, CollapseJoined DEF w, n
    <2>3. Kept(<<"/">>) = {}
      BY <2>1, PathFacts DEF Kept
    <2>4. Collapse(<<"/">>) \in Paths /\ Len(Collapse(<<"/">>)) = 0
      <3>1. Cardinality({}) = 0
        BY FS_EmptySet
      <3> QED
        BY <2>1, <2>3, <3>1, PickedAt DEF Collapse
    <2>5. Collapse(<<"/">>) = << >>
      BY <2>4
    <2>6. Collapse(r) \in Paths
      BY CollapseFacts
    <2> QED
      BY <2>2, <2>5, <2>6, ConcatEmptySeq DEF Paths
  <1> QED
    BY <1>5, <1>6, <1>7 DEF w

(* However it is spelled, the name of a repository is read off its URL; and *)
(* the rewritten URL ends in the name or in ".git".                         *)
LEMMA Spelled ==
  ASSUME NEW r \in Repos, NEW u \in Spellings(r)
  PROVE  /\ StripGitSuffix(u) = r /\ StripGitSuffix(Collapse(u)) = Collapse(r)
         /\ StripRight(u) \in {r, r \o <<".git">>}
  <1> DEFINE c == Collapse(r)
  <1>1. /\ r \in Paths /\ r # << >> /\ Len(r) \in Nat /\ Len(r) >= 1 /\ Stripped(r)
        /\ r[1] # "/" /\ r[Len(r)] # "/" /\ r[Len(r)] # ".git"
    BY RepoFacts
  <1>2. /\ c \in Paths /\ c # << >> /\ Stripped(c) /\ c[Len(c)] = r[Len(r)]
    BY <1>1, CollapseFacts, CleanIsStripped, LastStays
  <1>3. \A q \in Paths : q # << >> /\ Stripped(q) /\ q[Len(q)] # ".git" => StripGitSuffix(q) = q
    BY StripAgain DEF StripGitSuffix, Last
  <1> HIDE DEF c
  <1>4. CASE u = r
    BY <1>1, <1>2, <1>3, <1>4, WithSlash DEF c
  <1>5. CASE u = r \o <<".git">>
    <2>1. Collapse(u) = c \o <<".git">>
      BY <1>1, <1>5, CollapseWithDotGit DEF c
    <2>2. StripGitSuffix(u) = r /\ StripGitSuffix(Collapse(u)) = c
      BY <1>1, <1>2, <1>5, <2>1, SuffixTakenOff
    <2>3. StripRight(u) = u
      <3>1. u \in Paths /\ Len(u) = Len(r) + 1 /\ u[Len(r) + 1] = ".git"
        BY <1>1, <1>5, WithDotGit
      <3>2. Len(u) \in 1 .. Len(u) /\ u[Len(u)] # "/" /\ 1 \in 1 .. Len(u)
        BY <1>1, <3>1
      <3>3. u[1] # "/"
        BY <1>1, <1>5, WithDotGit
      <3>4. \A i \in 1 .. Len(u) : 1 <= i /\ i <= Len(u)
        BY <3>2
      <3>5. StripRight(u) = SubSeq(u, 1, Len(u))
        BY <3>1, <3>2, <3>3, <3>4, StripIs
      <3> QED
        BY <3>1, <3>5, SubSeqFull DEF Paths
    <2> QED
      BY <1>5, <2>2, <2>3 DEF c
  <1>6. CASE u = r \o <<"/">>
    <2>1. Strip(u) = r /\ StripRight(u) = r /\ Collapse(u) = c
      BY <1>1, <1>6, WithSlash DEF c
    <2>2. StripGitSuffix(u) = r
      BY <1>1, <2>1 DEF StripGitSuffix, Last
    <2>3. StripGitSuffix(c) = c
      BY <1>1, <1>2, <1>3
    <2> QED
      BY <2>1, <2>2, <2>3 DEF c
  <1> QED
    BY <1>4, <1>5, <1>6 DEF Spellings

(* In what servers hold no ".git" is followed by a slash.                   *)
LEMMA ExistingFacts ==
  ASSUME NEW r \in Repos
  PROVE  LET c == Collapse(r) IN \A m \in 1 .. Len(c) - 1 : c[m] = ".git" => c[m + 1] # "/"
  <1> DEFINE s == Kept(r)
             c == Picked(r, s)
  <1>1. /\ r \in Paths /\ Len(r) \in Nat
        /\ \A i \in 1 .. Len(r) : r[i] = ".git" => i < Len(r) /\ r[i + 1] # "/"
    BY RepoFacts
  <1>2. s \in SUBSET (1 .. Len(r))
    BY <1>1, KeptFacts
  <1>3. c \in Paths /\ Len(c) = Cardinality(s) /\ \A i \in s : c[Rank(i, s)] = r[i]
    BY <1>1, <1>2, PickedAt
  <1>4. ASSUME NEW m \in 1 .. Len(c) - 1, c[m] = ".git" PROVE c[m + 1] # "/"
    <2>1. m \in 1 .. Cardinality(s) /\ Cardinality(s) \in Nat
      BY <1>1, <1>2, <1>3, Ranks
    <2>2. PICK i \in s : Rank(i, s) = m
      BY <1>1, <1>2, <2>1, Ranks
    <2>3. r[i] = ".git" /\ i \in 1 .. Len(r)
      BY <1>2, <1>3, <1>4, <2>2
    <2>4. i + 1 \in 1 .. Len(r) /\ r[i + 1] # "/" /\ (i + 1) - 1 = i
      BY <1>1, <2>3
    <2>5. i + 1 \in s
      BY <1>1, <2>4, KeptFacts
    <2>6. Rank(i + 1, s) = m + 1
      <3>1. PICK k \in 1 .. Len(r) : k = i + 1 /\ k - 1 = i
        BY <2>4
      <3>2. Rank(k, s) = Rank(k - 1, s) + 1
        BY <1>1, <1>2, <2>5, <3>1, Ranks
      <3> QED
        BY <2>2, <3>1, <3>2
    <2> QED
      BY <1>3, <2>4, <2>5, <2>6
  <1> QED
    BY <1>4 DEF Collapse

-----------------------------------------------------------------------------
(* Where a path is cut. *)
(* A path falls into the parts it was joined from.                          *)
LEMMA Halves ==
  ASSUME NEW a \in Paths, NEW b \in Paths
  PROVE  SubSeq(a \o b, 1, Len(a)) = a /\ SubSeq(a \o b, Len(a) + 1, Len(a \o b)) = b
  <1> DEFINE q == a \o b
             m == Len(a)
             n == Len(b)
  <1>1. /\ m \in Nat /\ n \in Nat /\ q \in Paths /\ Len(q) = m + n
        /\ \A i \in 1 .. m : q[i] = a[i]
        /\ \A i \in 1 .. n : q[m + i] = b[i]
    BY Joined, PathFacts
  <1> HIDE DEF q, m, n
  <1>2. SubSeq(q, 1, m) = a
    <2> DEFINE c == SubSeq(q, 1, m)
    <2>1. /\ c \in Paths /\ Len(c) = IF 1 <= m THEN m - 1 + 1 ELSE 0
          /\ \A i \in 1 .. m - 1 + 1 : c[i] = q[1 + i - 1]
      BY <1>1, Part
    <2>2. Len(c) = m /\ \A i \in 1 .. m : i \in 1 .. m - 1 + 1 /\ 1 + i - 1 = i
      BY <1>1, <2>1
    <2> HIDE DEF c
    <2>3. c = a
      BY <1>1, <2>1, <2>2, SamePath DEF m
    <2> QED
      BY <2>3 DEF c
  <1>3. SubSeq(q, m + 1, m + n) = b
    <2> DEFINE c == SubSeq(q, m + 1, m + n)
    <2>1. /\ c \in Paths /\ Len(c) = IF m + 1 <= m + n THEN (m + n) - (m + 1) + 1 ELSE 0
          /\ \A i \in 1 .. (m + n) - (m + 1) + 1 : c[i] = q[(m + 1) + i - 1]
      BY <1>1, Part
    <2>2. /\ Len(c) = n
          /\ \A i \in 1 .. n : i \in 1 .. (m + n) - (m + 1) + 1 /\ (m + 1) + i - 1 = m + i
      BY <1>1, <2>1
    <2> HIDE DEF c
    <2>3. c = b
      BY <1>1, <2>1, <2>2, SamePath DEF n
    <2> QED
      BY <2>3 DEF c
  <1> QED
    BY <1>1, <1>2, <1>3 DEF q, m

(* And is joined from its parts.                                            *)
LEMMA Parted ==
  ASSUME NEW p \in Paths, NEW j \in 1 .. Len(p)
  PROVE  LET y == SubSeq(p, 1, j - 1)
             z == SubSeq(p, j + 1, Len(p))
         IN /\ y \in Paths /\ z \in Paths /\ Len(y) = j - 1 /\ \A i \in 1 .. j - 1 : y[i] = p[i]
            /\ p = y \o (<<p[j]>> \o z)
  <1> DEFINE y == SubSeq(p, 1, j - 1)
             z == SubSeq(p, j + 1, Len(p))
             n == Len(p)
             c == <<p[j]>>
  <1>1. n \in Nat /\ p[j] \in Tokens
    BY PathFacts
  <1>2. c \in Paths /\ Len(c) = 1 /\ c[1] = p[j]
    <2>1. \A S : \A x \in S : <<x>> \in Seq(S) /\ Len(<<x>>) = 1 /\ <<x>>[1] = x
      OBVIOUS
    <2> QED
      BY <1>1, <2>1 DEF Paths
  <1>3. /\ y \in Paths /\ Len(y) = IF 1 <= j - 1 THEN (j - 1) - 1 + 1 ELSE 0
        /\ \A i \in 1 .. (j - 1) - 1 + 1 : y[i] = p[1 + i - 1]
    BY <1>1, Part
  <1>4. /\ z \in Paths /\ Len(z) = IF j + 1 <= n THEN n - (j + 1) + 1 ELSE 0
        /\ \A i \in 1 .. n - (j + 1) + 1 : z[i] = p[(j + 1) + i - 1]
    BY <1>1, Part
  <1> HIDE DEF y, z, n, c
  <1>5. Len(y) = j - 1 /\ \A i \in 1 .. j - 1 : y[i] = p[i]
    <2>1. \A i \in 1 .. j - 1 : i \in 1 .. (j - 1) - 1 + 1 /\ 1 + i - 1 = i
      OBVIOUS
    <2> QED
      BY <1>3, <2>1
  <1>6. Len(z) = n - j /\ \A i \in 1 .. n - j : z[i] = p[j + i]
    <2>1. \A i \in 1 .. n - j : i \in 1 .. n - (j + 1) + 1 /\ (j + 1) + i - 1 = j + i
      BY <1>1
    <2>2. j \in 1 .. n
      BY DEF n
    <2> QED
      BY <1>1, <1>4, <2>1, <2>2
  <1> DEFINE q == c \o z
             w == y \o q
  <1>7. /\ q \in Paths /\ Len(q) = 1 + (n - j) /\ q[1] = p[j]
        /\ \A i \in 1 .. n - j : q[1 + i] = z[i]
    <2>1. 1 \in 1 .. Len(c)
      BY <1>2
    <2>2. /\ c \o z \in Paths /\ Len(c \o z) = Len(c) + Len(z)
          /\ \A k \in 1 .. Len(c) : (c \o z)[k] = c[k]
          /\ \A k \in 1 .. Len(z) : (c \o z)[Len(c) + k] = z[k]
      BY <1>2, <1>4, Joined
    <2> QED
      BY <1>2, <1>6, <2>1, <2>2
  <1> HIDE DEF q
  <1>8. /\ w \in Paths /\ Len(w) = (j - 1) + (1 + (n - j))
        /\ \A i \in 1 .. j - 1 : w[i] = y[i]
        /\ \A i \in 1 .. 1 + (n - j) : w[(j - 1) + i] = q[i]
    <2>1. /\ y \o q \in Paths /\ Len(y \o q) = Len(y) + Len(q)
          /\ \A k \in 1 .. Len(y) : (y \o q)[k] = y[k]
          /\ \A k \in 1 .. Len(q) : (y \o q)[Len(y) + k] = q[k]
      BY <1>3, <1>7, Joined
    <2> QED
      BY <1>5, <1>7, <2>1
  <1> HIDE DEF w
  <1>9. ASSUME NEW i \in 1 .. n PROVE p[i] = w[i]
    <2>1. CASE i < j
      <3>1. i \in 1 .. j - 1
        BY <2>1
      <3> QED
        BY <1>5, <1>8, <3>1
    <2>2. CASE i = j
      <3>1. 1 \in 1 .. 1 + (n - j) /\ (j - 1) + 1 = j
        BY <1>1, <2>2
      <3> QED
        BY <1>7, <1>8, <2>2, <3>1
    <2>3. CASE i > j
      <3>1. /\ 1 + (i - j) \in 1 .. 1 + (n - j) /\ (j - 1) + (1 + (i - j)) = i
            /\ i - j \in 1 .. n - j /\ j + (i - j) = i
        BY <1>1, <2>3
      <3>2. w[i] = q[1 + (i - j)] /\ q[1 + (i - j)] = z[i - j] /\ z[i - j] = p[i]
        BY <1>6, <1>7, <1>8, <3>1
      <3> QED
        BY <3>2
    <2> QED
      BY <2>1, <2>2, <2>3
  <1>10. Len(w) = n
    <2>1. j \in 1 .. n
      BY DEF n
    <2> QED
      BY <1>1, <1>8, <2>1
  <1>11. p = w
    BY <1>8, <1>9, <1>10, SamePath DEF n
  <1> QED
    BY <1>3, <1>4, <1>5, <1>11 DEF w, q, y, z, n, c

(* Paths that are joined, where it does not matter what they are.           *)
Cat(a, b) == a \o b

LEMMA Associative ==
  \A a, b, c \in Paths : Cat(a, b) \in Paths /\ Cat(Cat(a, b), c) = Cat(a, Cat(b, c))
  <1>1. \A a, b \in Paths : Cat(a, b) \in Paths
    BY ConcatProperties DEF Paths, Cat
  <1>2. \A a, b, c \in Paths : Cat(Cat(a, b), c) = Cat(a, Cat(b, c))
    BY ConcatAssociative DEF Paths, Cat
  <1> QED
    BY <1>1, <1>2

LEMMA ServiceFacts ==
  ASSUME NEW s \in Services
  PROVE  /\ s \in Paths /\ Len(s) \in {2, 4} /\ s # << >>
         /\ s[1] = "/" /\ s[2] # "/" /\ s[Len(s)] # "/"
         /\ \A i \in 1 .. Len(s) : s[i] # ".git"
         /\ \A t \in Services : t[Len(t)] = s[Len(s)] => t = s
  <1>1. {"/", "info", "refs", "git-upload-pack"} \subseteq Tokens
    BY UrlAssumption
  <1>2. \A a, b, c, d \in Tokens : <<a, b, c, d>> \in Seq(Tokens) /\ <<a, b>> \in Seq(Tokens)
    OBVIOUS
  <1>3. s \in Paths
    BY <1>1, <1>2 DEF Services, Paths
  <1>4. CASE s = <<"/", "info", "/", "refs">>
    <2>1. /\ Len(s) = 4 /\ s[1] = "/" /\ s[2] = "info" /\ s[3] = "/" /\ s[4] = "refs" /\ s # << >>
      BY <1>4
    <2>2. \A i \in 1 .. Len(s) : s[i] # ".git"
      BY <2>1
    <2>3. \A t \in Services : t = s \/ (Len(t) = 2 /\ t[2] = "git-upload-pack")
      BY <1>4 DEF Services
    <2> QED
      BY <1>3, <2>1, <2>2, <2>3
  <1>5. CASE s = <<"/", "git-upload-pack">>
    <2>1. Len(s) = 2 /\ s[1] = "/" /\ s[2] = "git-upload-pack" /\ s # << >>
      BY <1>5
    <2>2. \A i \in 1 .. Len(s) : s[i] # ".git"
      BY <2>1
    <2>3. \A t \in Services : t = s \/ (Len(t) = 4 /\ t[4] = "refs")
      BY <1>5 DEF Services
    <2> QED
      BY <1>3, <2>1, <2>2, <2>3
  <1> QED
    BY <1>4, <1>5 DEF Services

LEMMA ReverseFacts ==
  ASSUME NEW p \in Paths
  PROVE  /\ Reverse(p) \in Paths /\ Len(Reverse(p)) = Len(p)
         /\ \A i \in 1 .. Len(p) : Reverse(p)[i] = p[(Len(p) - i) + 1]
  <1>1. Len(p) \in Nat /\ \A i \in 1 .. Len(p) : p[i] \in Tokens
    BY PathFacts
  <1>2. \A i \in 1 .. Len(p) : (Len(p) - i) + 1 \in 1 .. Len(p)
    BY <1>1
  <1>3. \A i \in 1 .. Len(p) : p[(Len(p) - i) + 1] \in Tokens
    BY <1>1, <1>2
  <1>4. Reverse(p) = [i \in 1 .. Len(p) |-> p[(Len(p) - i) + 1]]
    BY DEF Reverse
  <1>5. Reverse(p) \in Seq(Tokens)
    BY <1>1, <1>3, <1>4
  <1>6. DOMAIN Reverse(p) = 1 .. Len(p)
    BY <1>4
  <1>7. Len(Reverse(p)) = Len(p)
    BY <1>1, <1>5, <1>6, LenProperties
  <1> QED
    BY <1>4, <1>5, <1>7 DEF Paths

(* The service at the end of a path is read off its last name.              *)
LEMMA EndsInService ==
  ASSUME NEW x \in Paths, NEW s \in Services
  PROVE  /\ {t \in Services : IsSuffix(t, x \o s)} = {s}
         /\ SubSeq(x \o s, 1, Len(x \o s) - Len(s)) = x
  <1> DEFINE q == x \o s
  <1>1. /\ s \in Paths /\ Len(s) \in Nat /\ Len(s) >= 1 /\ Len(x) \in Nat
        /\ \A t \in Services : t \in Paths /\ Len(t) \in Nat /\ Len(t) >= 1
        /\ \A t \in Services : t[Len(t)] = s[Len(s)] => t = s
    BY ServiceFacts, PathFacts
  <1>2. /\ q \in Paths /\ Len(q) = Len(x) + Len(s)
        /\ \A i \in 1 .. Len(x) : q[i] = x[i]
        /\ \A i \in 1 .. Len(s) : q[Len(x) + i] = s[i]
    BY <1>1, Joined
  <1> HIDE DEF q
  <1>3. \A t \in Paths : IsSuffix(t, q) <=>
          /\ Len(t) <= Len(q)
          /\ SubSeq(Reverse(t), 1, Len(t)) = SubSeq(Reverse(q), 1, Len(t))
    BY <1>2, ReverseFacts DEF IsSuffix, IsPrefix
  <1>4. ASSUME NEW t \in Services, IsSuffix(t, q) PROVE t = s
    <2>1. /\ Len(t) <= Len(q) /\ Len(q) \in Nat
          /\ SubSeq(Reverse(t), 1, Len(t)) = SubSeq(Reverse(q), 1, Len(t))
      BY <1>1, <1>2, <1>3, <1>4
    <2>2. /\ Reverse(t) \in Paths /\ Len(Reverse(t)) = Len(t)
          /\ Reverse(q) \in Paths /\ Len(Reverse(q)) = Len(q)
      BY <1>1, <1>2, ReverseFacts
    <2>3. /\ SubSeq(Reverse(t), 1, Len(t))[1] = Reverse(t)[1 + 1 - 1]
          /\ SubSeq(Reverse(q), 1, Len(t))[1] = Reverse(q)[1 + 1 - 1]
      <3>1. 1 \in 1 .. Len(t) - 1 + 1 /\ Len(t) \in Int /\ 1 \in Int /\ 1 >= 1
        BY <1>1
      <3> QED
        BY <2>1, <2>2, <3>1, Part
    <2>4. Reverse(t)[1] = t[(Len(t) - 1) + 1] /\ Reverse(q)[1] = q[(Len(q) - 1) + 1]
      <3>1. t \in Paths /\ q \in Paths /\ 1 \in 1 .. Len(t) /\ 1 \in 1 .. Len(q)
        BY <1>1, <1>2, <2>1
      <3> QED
        BY <3>1, ReverseFacts
    <2>5. (Len(t) - 1) + 1 = Len(t) /\ (Len(q) - 1) + 1 = Len(q) /\ 1 + 1 - 1 = 1
      BY <1>1, <2>1
    <2>6. t[Len(t)] = q[Len(q)]
      BY <2>1, <2>3, <2>4, <2>5
    <2>7. q[Len(q)] = s[Len(s)]
      BY <1>1, <1>2
    <2> QED
      BY <1>1, <2>6, <2>7
  <1>5. IsSuffix(s, q)
    <2> DEFINE a == SubSeq(Reverse(s), 1, Len(s))
               b == SubSeq(Reverse(q), 1, Len(s))
    <2>1. /\ Reverse(s) \in Paths /\ Len(Reverse(s)) = Len(s)
          /\ Reverse(q) \in Paths /\ Len(Reverse(q)) = Len(q)
          /\ \A i \in 1 .. Len(s) : Reverse(s)[i] = s[(Len(s) - i) + 1]
          /\ \A i \in 1 .. Len(q) : Reverse(q)[i] = q[(Len(q) - i) + 1]
      BY <1>1, <1>2, ReverseFacts
    <2>2. Len(s) <= Len(q) /\ Len(q) \in Nat
      BY <1>1, <1>2
    <2>3. /\ a \in Paths /\ Len(a) = Len(s) /\ \A i \in 1 .. Len(s) : a[i] = Reverse(s)[i]
      <3>1. \A i \in 1 .. Len(s) - 1 + 1 : a[i] = Reverse(s)[1 + i - 1]
        BY <1>1, <2>1, Part
      <3>2. \A i \in 1 .. Len(s) : i \in 1 .. Len(s) - 1 + 1 /\ 1 + i - 1 = i
        BY <1>1
      <3>3. a \in Paths /\ Len(a) = Len(s)
        BY <1>1, <2>1, Part
      <3> QED
        BY <3>1, <3>2, <3>3
    <2>4. /\ b \in Paths /\ Len(b) = Len(s) /\ \A i \in 1 .. Len(s) : b[i] = Reverse(q)[i]
      <3>1. \A i \in 1 .. Len(s) - 1 + 1 : b[i] = Reverse(q)[1 + i - 1]
        BY <1>1, <2>1, <2>2, Part
      <3>2. \A i \in 1 .. Len(s) : i \in 1 .. Len(s) - 1 + 1 /\ 1 + i - 1 = i
        BY <1>1
      <3>3. b \in Paths /\ Len(b) = Len(s)
        BY <1>1, <2>1, <2>2, Part
      <3> QED
        BY <3>1, <3>2, <3>3
    <2> HIDE DEF a, b
    <2>5. ASSUME NEW i \in 1 .. Len(s) PROVE a[i] = b[i]
      <3>1. i \in 1 .. Len(q)
        BY <1>1, <2>2
      <3>2. /\ (Len(s) - i) + 1 \in 1 .. Len(s)
            /\ Len(x) + ((Len(s) - i) + 1) = (Len(q) - i) + 1
        BY <1>1, <1>2
      <3>3. q[(Len(q) - i) + 1] = s[(Len(s) - i) + 1]
        BY <1>2, <3>2
      <3> QED
        BY <2>1, <2>3, <2>4, <3>1, <3>3
    <2>6. a = b
      BY <2>3, <2>4, <2>5, SamePath
    <2> QED
      BY <1>1, <1>3, <2>2, <2>6 DEF a, b
  <1>6. SubSeq(q, 1, Len(q) - Len(s)) = x
    <2>1. Len(q) - Len(s) = Len(x)
      BY <1>1, <1>2
    <2> QED
      BY <1>1, <2>1, Halves DEF q
  <1> QED
    BY <1>4, <1>5, <1>6 DEF q

LEMMA Served ==
  ASSUME NEW h, NEW x \in Paths, NEW s \in Services
  PROVE  Repository([host |-> h, path |-> x \o s])
           = [host |-> h, path |-> StripGitSuffix(Collapse(x))]
  <1> DEFINE q == x \o s
             at == [host |-> h, path |-> q]
  <1>1. {t \in Services : IsSuffix(t, q)} = {s} /\ SubSeq(q, 1, Len(q) - Len(s)) = x
    BY EndsInService
  <1>2. at.host = h /\ at.path = q
    OBVIOUS
  <1> HIDE DEF at, q
  <1>3. (CHOOSE t \in {s} : TRUE) = s
    OBVIOUS
  <1> QED
    BY <1>1, <1>2, <1>3 DEF Repository, at, q

-----------------------------------------------------------------------------
(* Where a request path is cut. *)

(* The path that is searched: what is asked for, then the service.          *)
LEMMA FullFacts ==
  ASSUME NEW x \in Paths, x # << >>, Stripped(x), NEW s \in Services
  PROVE  LET full == <<"/">> \o Strip(x \o s) IN
         /\ full = <<"/">> \o (x \o s) /\ full \in Paths /\ Len(full) = Len(x) + Len(s) + 1
         /\ DOMAIN full = 1 .. Len(x) + Len(s) + 1 /\ full[1] = "/"
         /\ \A i \in 1 .. Len(x) : full[1 + i] = x[i]
         /\ \A i \in 1 .. Len(s) : full[1 + (Len(x) + i)] = s[i]
  <1> DEFINE q == x \o s
             full == <<"/">> \o q
  <1>1. /\ s \in Paths /\ Len(s) \in Nat /\ Len(s) >= 1 /\ s[Len(s)] # "/"
        /\ Len(x) \in Nat /\ Len(x) >= 1 /\ x[1] # "/"
    BY ServiceFacts, PathFacts DEF Stripped
  <1>2. /\ q \in Paths /\ Len(q) = Len(x) + Len(s)
        /\ \A i \in 1 .. Len(x) : q[i] = x[i]
        /\ \A i \in 1 .. Len(s) : q[Len(x) + i] = s[i]
    BY <1>1, Joined
  <1> HIDE DEF q
  <1>3. q[1] # "/" /\ q[Len(q)] # "/"
    BY <1>1, <1>2
  <1>4. Strip(q) = q
    BY <1>2, <1>3, StripAgain DEF Stripped
  <1>5. <<"/">> \in Paths /\ Len(<<"/">>) = 1 /\ <<"/">>[1] = "/"
    BY Slash
  <1>6. /\ full \in Paths /\ Len(full) = 1 + Len(q) /\ full[1] = "/"
        /\ \A i \in 1 .. Len(q) : full[1 + i] = q[i]
    <2>1. /\ <<"/">> \o q \in Paths /\ Len(<<"/">> \o q) = Len(<<"/">>) + Len(q)
          /\ \A k \in 1 .. Len(<<"/">>) : (<<"/">> \o q)[k] = <<"/">>[k]
          /\ \A k \in 1 .. Len(q) : (<<"/">> \o q)[Len(<<"/">>) + k] = q[k]
      BY <1>2, <1>5, Joined
    <2>2. 1 \in 1 .. Len(<<"/">>)
      BY <1>5
    <2> QED
      BY <1>5, <2>1, <2>2
  <1>7. DOMAIN full = 1 .. Len(full)
    BY <1>6, PathFacts
  <1> HIDE DEF full
  <1>8. \A i \in 1 .. Len(x) : full[1 + i] = x[i]
    BY <1>1, <1>2, <1>6
  <1>9. ASSUME NEW i \in 1 .. Len(s) PROVE full[1 + (Len(x) + i)] = s[i]
    <2>1. Len(x) + i \in 1 .. Len(q)
      BY <1>1, <1>2
    <2> QED
      BY <1>2, <1>6, <2>1
  <1>10. Len(full) = Len(x) + Len(s) + 1
    BY <1>1, <1>2, <1>6
  <1> QED
    BY <1>4, <1>6, <1>7, <1>8, <1>9, <1>10 DEF full, q

(* What stands before the cut.                                              *)
LEMMA Before ==
  ASSUME NEW y \in Paths, y # << >>, Stripped(y), y[Len(y)] # ".git"
  PROVE  StripGitSuffix(<<"/">> \o y) = y
  <1> DEFINE w == <<"/">> \o y
             n == Len(y)
  <1>1. n \in Nat /\ n >= 1 /\ y[1] # "/" /\ y[n] # "/"
    BY PathFacts DEF Stripped
  <1>2. <<"/">> \in Paths /\ Len(<<"/">>) = 1 /\ <<"/">>[1] = "/"
    BY Slash
  <1>3. /\ w \in Paths /\ Len(w) = 1 + n /\ w[1] = "/" /\ \A i \in 1 .. n : w[1 + i] = y[i]
    BY <1>2, Joined
  <1> HIDE DEF w, n
  <1>4. /\ 2 \in 1 .. Len(w) /\ 1 + n \in 1 .. Len(w) /\ w[2] # "/" /\ w[1 + n] # "/"
        /\ \A i \in 1 .. Len(w) : w[i] # "/" => 2 <= i /\ i <= 1 + n
    <2>1. w[1 + 1] = y[1] /\ w[1 + n] = y[n]
      BY <1>1, <1>3
    <2> QED
      BY <1>1, <1>3, <2>1
  <1>5. Strip(w) = SubSeq(w, 2, 1 + n)
    BY <1>3, <1>4, StripIs
  <1>6. SubSeq(w, 2, 1 + n) = y
    <2>1. /\ SubSeq(w, 2, 1 + n) \in Paths /\ Len(SubSeq(w, 2, 1 + n)) = n
          /\ \A i \in 1 .. (1 + n) - 2 + 1 : SubSeq(w, 2, 1 + n)[i] = w[2 + i - 1]
      BY <1>1, <1>3, Part
    <2>2. \A i \in 1 .. n : i \in 1 .. (1 + n) - 2 + 1 /\ 2 + i - 1 = 1 + i
      BY <1>1
    <2>3. \A i \in 1 .. n : SubSeq(w, 2, 1 + n)[i] = y[i]
      BY <1>3, <2>1, <2>2
    <2> QED
      BY <2>1, <2>3, SamePath DEF n
  <1>7. Strip(w) = y /\ y[Len(y)] # ".git"
    BY <1>5, <1>6
  <1> QED
    BY <1>7 DEF StripGitSuffix, Last, w

(* With a ".git" in it, at the first one.                                   *)
LEMMA AroundDotGit ==
  ASSUME NEW y \in Paths, NEW z \in Paths, NEW s \in Paths
  PROVE  LET g    == <<".git">>
             full == <<"/">> \o ((y \o (g \o z)) \o s)
         IN /\ full = (<<"/">> \o y) \o (g \o (z \o s))
            /\ full = ((<<"/">> \o y) \o g) \o (z \o s)
  <1> DEFINE slash == <<"/">>
             g     == <<".git">>
             head  == Cat(slash, y)
             tail  == Cat(z, s)
  <1>1. slash \in Paths /\ g \in Paths
    BY DotGit, Slash
  <1> HIDE DEF slash, g
  <1>2. Cat(g, z) \in Paths /\ head \in Paths /\ tail \in Paths
    BY <1>1, Associative
  <1>3. Cat(g, tail) \in Paths
    BY <1>1, <1>2, Associative
  <1>4. Cat(Cat(g, z), s) = Cat(g, tail)
    BY <1>1, Associative
  <1>5. Cat(Cat(y, Cat(g, z)), s) = Cat(y, Cat(Cat(g, z), s))
    BY <1>2, Associative
  <1>6. Cat(head, Cat(g, tail)) = Cat(slash, Cat(y, Cat(g, tail)))
    BY <1>1, <1>3, Associative
  <1>7. Cat(Cat(head, g), tail) = Cat(head, Cat(g, tail))
    <2> HIDE DEF head, tail
    <2> QED
      BY <1>1, <1>2, Associative
  <1>8. /\ Cat(slash, Cat(Cat(y, Cat(g, z)), s)) = Cat(head, Cat(g, tail))
        /\ Cat(slash, Cat(Cat(y, Cat(g, z)), s)) = Cat(Cat(head, g), tail)
    BY <1>4, <1>5, <1>6, <1>7
  <1> QED
    BY <1>8 DEF Cat, slash, g

LEMMA GitCut ==
  ASSUME NEW y \in Paths, NEW z \in Paths, NEW s \in Services,
         \A i \in 1 .. Len(y) : y[i] # ".git", Stripped(y \o (<<".git">> \o z))
  PROVE  LET split == SplitRepoAndSuffix((y \o (<<".git">> \o z)) \o s)
         IN split.repo = StripGitSuffix(<<"/">> \o y) /\ split.suffix = z \o s
  <1> DEFINE x    == y \o (<<".git">> \o z)
             full == <<"/">> \o Strip(x \o s)
             git  == {i \in DOMAIN full : full[i] = ".git"}
             n    == Len(y)
             slash == <<"/">>
             g    == <<".git">>
             head == slash \o y
             w    == head \o g
             tail == z \o s
  <1>1. /\ s \in Paths /\ g \in Paths /\ Len(g) = 1 /\ g[1] = ".git"
        /\ slash \in Paths /\ Len(slash) = 1 /\ slash[1] = "/" /\ n \in Nat
    BY ServiceFacts, DotGit, Slash, PathFacts
  <1>2. /\ g \o z \in Paths /\ x \in Paths /\ x # << >> /\ head \in Paths /\ tail \in Paths
        /\ Len(head) = n + 1 /\ head[1] = "/" /\ \A i \in 1 .. n : head[1 + i] = y[i]
    <2>1. g \o z \in Paths /\ Len(g \o z) = Len(g) + Len(z) /\ Len(z) \in Nat
      BY <1>1, Joined, PathFacts
    <2>2. x \in Paths /\ Len(x) = n + Len(g \o z)
      BY <2>1, Joined
    <2>3. x # << >>
      BY <1>1, <2>1, <2>2
    <2>4. /\ head \in Paths /\ Len(head) = Len(slash) + n
          /\ \A i \in 1 .. Len(slash) : head[i] = slash[i]
          /\ \A i \in 1 .. n : head[Len(slash) + i] = y[i]
      BY <1>1, Joined
    <2>5. tail \in Paths
      BY <1>1, Joined
    <2> HIDE DEF head, slash, tail, x
    <2>6. Len(head) = n + 1 /\ head[1] = "/" /\ \A i \in 1 .. n : head[1 + i] = y[i]
      BY <1>1, <2>4
    <2> QED
      BY <2>1, <2>2, <2>3, <2>4, <2>5, <2>6
  <1>3. full = slash \o (x \o s) /\ full \in Paths
    BY <1>2, FullFacts
  <1>g. /\ slash \o ((y \o (g \o z)) \o s) = (slash \o y) \o (g \o (z \o s))
        /\ slash \o ((y \o (g \o z)) \o s) = ((slash \o y) \o g) \o (z \o s)
    <2>1. y \in Paths /\ z \in Paths /\ s \in Paths
      BY <1>1
    <2> QED
      BY ONLY <2>1, AroundDotGit
  <1>e. x = y \o (g \o z) /\ head = slash \o y /\ w = head \o g /\ tail = z \o s
    OBVIOUS
  <1>6. /\ w \in Paths /\ Len(w) = (n + 1) + 1 /\ w[(n + 1) + 1] = ".git"
        /\ \A i \in 1 .. n + 1 : w[i] = head[i]
    BY <1>2, WithDotGit DEF g
  <1> HIDE DEF x, full, head, tail, n, w, g, slash
  <1>5. g \o tail \in Paths
    BY <1>1, <1>2, Joined
  <1>4. full = head \o (g \o tail) /\ full = w \o tail
    BY <1>3, <1>e, <1>g
  <1>7. SubSeq(full, 1, n + 1) = head
    <2>1. SubSeq(head \o (g \o tail), 1, Len(head)) = head
      BY <1>2, <1>5, Halves
    <2> QED
      BY <1>2, <1>4, <2>1
  <1>9. SubSeq(full, ((n + 1) + 1) + 1, Len(full)) = tail
    <2>1. SubSeq(w \o tail, Len(w) + 1, Len(w \o tail)) = tail
      BY <1>2, <1>6, Halves
    <2> QED
      BY <1>4, <1>6, <2>1
  <1>10. /\ Len(full) \in Nat /\ DOMAIN full = 1 .. Len(full) /\ (n + 1) + 1 <= Len(full)
         /\ \A i \in 1 .. (n + 1) + 1 : full[i] = w[i]
    <2>0. Len(w \o tail) = Len(w) + Len(tail) /\ \A i \in 1 .. Len(w) : (w \o tail)[i] = w[i]
      BY <1>2, <1>6, Joined
    <2>1. Len(full) = Len(w) + Len(tail) /\ \A i \in 1 .. Len(w) : full[i] = w[i]
      BY <1>4, <2>0
    <2>2. Len(full) \in Nat /\ DOMAIN full = 1 .. Len(full) /\ Len(tail) \in Nat
      BY <1>2, <1>3, PathFacts
    <2> QED
      BY <1>1, <1>6, <2>1, <2>2
  <1>11. git # {} /\ Min(git) = n + 2
    <2>1. git \in SUBSET (1 .. Len(full))
      BY <1>10
    <2>2. n + 2 \in git
      <3>1. (n + 1) + 1 = n + 2 /\ n + 2 \in 1 .. (n + 1) + 1
        BY <1>1
      <3>2. full[n + 2] = ".git"
        BY <1>6, <1>10, <3>1
      <3>3. n + 2 \in 1 .. Len(full)
        BY <1>1, <1>10, <3>1
      <3> QED
        BY <1>10, <3>2, <3>3
    <2>3. ASSUME NEW i \in git PROVE i >= n + 2
      <3>1. i \in 1 .. Len(full) /\ full[i] = ".git"
        BY <1>10
      <3>2. ASSUME i < n + 2 PROVE FALSE
        <4>1. i \in 1 .. n + 1 /\ i \in 1 .. (n + 1) + 1
          BY <1>1, <1>10, <3>1, <3>2
        <4>2. head[i] = ".git"
          BY <1>6, <1>10, <3>1, <4>1
        <4>3. i # 1
          BY <1>2, <4>2
        <4>4. i - 1 \in 1 .. n /\ 1 + (i - 1) = i
          BY <1>1, <4>1, <4>3
        <4> QED
          BY <1>2, <4>2, <4>4 DEF n
      <3> QED
        BY <1>1, <3>1, <3>2
    <2> HIDE DEF git
    <2>4. Min(git) \in git /\ Min(git) <= n + 2
      BY <1>10, <2>1, <2>2, FirstPlace
    <2>5. Min(git) \in 1 .. Len(full)
      BY <2>1, <2>4
    <2> QED
      BY <1>1, <1>10, <2>2, <2>3, <2>4, <2>5
  <1>12. SplitRepoAndSuffix(x \o s) =
           [repo |-> StripGitSuffix(SubSeq(full, 1, Min(git) - 1)),
            suffix |-> SubSeq(full, Min(git) + 1, Len(full))]
    BY <1>11 DEF SplitRepoAndSuffix, full, git
  <1> HIDE DEF git
  <1>13. (n + 2) - 1 = n + 1 /\ (n + 2) + 1 = ((n + 1) + 1) + 1
    BY <1>1
  <1>14. SplitRepoAndSuffix(x \o s) = [repo |-> StripGitSuffix(head), suffix |-> tail]
    BY <1>7, <1>9, <1>11, <1>12, <1>13
  <1>15. SplitRepoAndSuffix(x \o s).repo = StripGitSuffix(head)
         /\ SplitRepoAndSuffix(x \o s).suffix = tail
    BY <1>14
  <1> QED
    BY <1>15 DEF x, g, slash, head, tail

(* A path that occurs at a place in another one.                            *)
LEMMA Occurs ==
  ASSUME NEW t \in Paths, NEW q \in Paths, NEW i \in 1 .. Len(q)
  PROVE  IsPrefix(t, SubSeq(q, i, Len(q))) <=>
           /\ i + Len(t) - 1 <= Len(q)
           /\ \A j \in 1 .. Len(t) : q[i + j - 1] = t[j]
  <1> DEFINE v == SubSeq(q, i, Len(q))
             a == SubSeq(t, 1, Len(t))
             b == SubSeq(v, 1, Len(t))
             l == Len(t)
             m == Len(q)
  <1>1. l \in Nat /\ m \in Nat
    BY PathFacts
  <1>2. v \in Paths /\ Len(v) = m - i + 1 /\ \A j \in 1 .. m - i + 1 : v[j] = q[i + j - 1]
    BY <1>1, Part
  <1>3. a = t
    BY SubSeqFull DEF Paths
  <1>4. l <= Len(v) <=> i + l - 1 <= m
    BY <1>1, <1>2
  <1>5. IsPrefix(t, v) <=> l <= Len(v) /\ t = b
    BY <1>3 DEF IsPrefix
  <1> HIDE DEF v, l, m, a
  <1>6. ASSUME l <= Len(v)
        PROVE  b \in Paths /\ Len(b) = l /\ \A j \in 1 .. l : b[j] = q[i + j - 1]
    <2>1. /\ b \in Paths /\ Len(b) = IF 1 <= l THEN l - 1 + 1 ELSE 0
          /\ \A j \in 1 .. l - 1 + 1 : b[j] = v[1 + j - 1]
      BY <1>1, <1>2, <1>6, Part DEF l
    <2>2. Len(b) = l
      BY <1>1, <2>1
    <2>3. \A j \in 1 .. l : j \in 1 .. l - 1 + 1 /\ 1 + j - 1 = j /\ j \in 1 .. m - i + 1
      BY <1>1, <1>2, <1>6
    <2> QED
      BY <1>2, <2>1, <2>2, <2>3
  <1> HIDE DEF b
  <1>7. l <= Len(v) => (t = b <=> \A j \in 1 .. l : q[i + j - 1] = t[j])
    <2>1. ASSUME l <= Len(v), \A j \in 1 .. l : q[i + j - 1] = t[j] PROVE t = b
      <3>1. b \in Paths /\ Len(t) = Len(b) /\ \A j \in 1 .. Len(t) : t[j] = b[j]
        BY <1>6, <2>1 DEF l
      <3> QED
        BY <3>1, SamePath
    <2> QED
      BY <1>6, <2>1
  <1> QED
    BY <1>4, <1>5, <1>7 DEF v, l, m

(* Without, at the first place where a service is named.                    *)
LEMMA ServiceCut ==
  ASSUME NEW r \in Paths, r # << >>, Stripped(r), NEW s \in Services,
         \A i \in 1 .. Len(r) : r[i] # ".git"
  PROVE  LET full  == <<"/">> \o (r \o s)
             split == SplitRepoAndSuffix(r \o s)
         IN \E e \in 1 .. Len(r) + 2 :
              /\ full[e] = "/"
              /\ e < Len(r) + 2 => ServiceInside(r)
              /\ split.repo = StripGitSuffix(SubSeq(full, 1, e - 1))
              /\ split.suffix = SubSeq(full, e, Len(full))
  <1> DEFINE full      == <<"/">> \o Strip(r \o s)
             git       == {i \in DOMAIN full : full[i] = ".git"}
             Places(k) == {i \in DOMAIN full :
                             IsPrefix(ServiceSuffixes[k], SubSeq(full, i, Len(full)))}
             services  == {k \in DOMAIN ServiceSuffixes : Places(k) # {}}
             own       == IF s = <<"/", "info", "/", "refs">> THEN 1 ELSE 2
             k         == Min(services)
             e         == Min(Places(k))
             n         == Len(r)
             l         == Len(s)
  <1>1. /\ s \in Paths /\ l \in {2, 4} /\ n \in Nat /\ n >= 1
        /\ \A i \in 1 .. l : s[i] # ".git"
        /\ \A t \in Services : t \in Paths /\ t[1] = "/" /\ Len(t) \in {2, 4}
    BY ServiceFacts, PathFacts
  <1>2. /\ full = <<"/">> \o (r \o s) /\ full \in Paths /\ Len(full) = n + l + 1
        /\ DOMAIN full = 1 .. n + l + 1 /\ full[1] = "/"
        /\ \A i \in 1 .. n : full[1 + i] = r[i]
        /\ \A i \in 1 .. l : full[1 + (n + i)] = s[i]
    BY FullFacts
  <1>3. /\ DOMAIN ServiceSuffixes = 1 .. 6 /\ own \in 1 .. 2 /\ ServiceSuffixes[own] = s
        /\ ServiceSuffixes[1] = <<"/", "info", "/", "refs">>
        /\ ServiceSuffixes[2] = <<"/", "git-upload-pack">>
    BY DEF ServiceSuffixes, Services
  <1>4. git = {} => SplitRepoAndSuffix(r \o s) =
          LET end == IF services # {} THEN e ELSE Len(full) + 1
          IN [repo |-> StripGitSuffix(SubSeq(full, 1, end - 1)),
              suffix |-> SubSeq(full, end, Len(full))]
    BY DEF SplitRepoAndSuffix
  <1> HIDE DEF full, own, n, l
  <1>5. git = {}
    <2> SUFFICES ASSUME NEW i \in 1 .. n + l + 1, full[i] = ".git" PROVE FALSE
      BY <1>2
    <2>1. CASE i = 1
      BY <1>2, <2>1
    <2>2. CASE i > 1 /\ i <= n + 1
      <3>1. i - 1 \in 1 .. n /\ 1 + (i - 1) = i
        BY <1>1, <2>2
      <3> QED
        BY <1>2, <3>1 DEF n
    <2>3. CASE i > n + 1
      <3>1. i - (n + 1) \in 1 .. l /\ 1 + (n + (i - (n + 1))) = i
        BY <1>1, <2>3
      <3>2. full[1 + (n + (i - (n + 1)))] = s[i - (n + 1)]
        BY <1>2, <3>1
      <3>3. s[i - (n + 1)] # ".git"
        BY <1>1, <3>1
      <3> QED
        BY <3>1, <3>2, <3>3
    <2> QED
      BY <1>1, <2>1, <2>2, <2>3
  <1>6. \A j \in 1 .. 2 : ServiceSuffixes[j] \in Services
    <2>1. ServiceSuffixes[1] \in Services
      BY <1>3 DEF Services
    <2>2. ServiceSuffixes[2] \in Services
      BY <1>3 DEF Services
    <2>3. \A j \in 1 .. 2 : j = 1 \/ j = 2
      OBVIOUS
    <2> QED
      BY <2>1, <2>2, <2>3
  <1>7. /\ \A j \in 1 .. 6 : Places(j) \in SUBSET (1 .. n + l + 1)
        /\ \A j \in 1 .. 2, i \in 1 .. n + l + 1 : i \in Places(j) <=>
             LET t == ServiceSuffixes[j]
             IN i + Len(t) - 1 <= n + l + 1 /\ \A a \in 1 .. Len(t) : full[i + a - 1] = t[a]
    <2>1. \A j \in 1 .. 2 : ServiceSuffixes[j] \in Paths
      BY <1>1, <1>6
    <2>2. ASSUME NEW j \in 1 .. 6 PROVE Places(j) \in SUBSET (1 .. n + l + 1)
      BY <1>2
    <2>3. ASSUME NEW j \in 1 .. 2, NEW i \in 1 .. n + l + 1
          PROVE  i \in Places(j) <=>
             LET t == ServiceSuffixes[j]
             IN i + Len(t) - 1 <= n + l + 1 /\ \A a \in 1 .. Len(t) : full[i + a - 1] = t[a]
      <3>1. i \in 1 .. Len(full)
        BY <1>2
      <3>2. IsPrefix(ServiceSuffixes[j], SubSeq(full, i, Len(full))) <=>
              /\ i + Len(ServiceSuffixes[j]) - 1 <= Len(full)
              /\ \A a \in 1 .. Len(ServiceSuffixes[j]) : full[i + a - 1] = ServiceSuffixes[j][a]
        BY <1>2, <2>1, <3>1, Occurs
      <3>3. i \in Places(j) <=> IsPrefix(ServiceSuffixes[j], SubSeq(full, i, Len(full)))
        BY <1>2
      <3> QED
        BY <1>2, <3>2, <3>3
    <2> QED
      BY <2>2, <2>3
  <1> HIDE DEF Places
  <1>8. n + 2 \in Places(own)
    <2>1. n + 2 \in 1 .. n + l + 1 /\ (n + 2) + l - 1 <= n + l + 1
      BY <1>1
    <2>2. \A a \in 1 .. l : (n + 2) + a - 1 = 1 + (n + a)
      BY <1>1
    <2>3. \A a \in 1 .. l : full[(n + 2) + a - 1] = s[a]
      BY <1>2, <2>2
    <2>4. n + 2 \in Places(own) <=>
             /\ (n + 2) + Len(ServiceSuffixes[own]) - 1 <= n + l + 1
             /\ \A a \in 1 .. Len(ServiceSuffixes[own]) :
                  full[(n + 2) + a - 1] = ServiceSuffixes[own][a]
      BY <1>3, <1>7, <2>1
    <2>5. ServiceSuffixes[own] = s /\ Len(s) = l
      BY <1>3 DEF l
    <2> QED
      BY <2>1, <2>3, <2>4, <2>5
  <1>9. k \in services /\ k \in 1 .. 2 /\ k <= own
    <2>1. services \in SUBSET (1 .. 6) /\ own \in services
      BY <1>3, <1>8
    <2> HIDE DEF services
    <2>2. k \in services /\ k <= own
      BY <2>1, FirstPlace
    <2>3. k \in 1 .. 6
      BY <2>1, <2>2
    <2> QED
      BY <1>3, <2>2, <2>3
  <1>10. Places(k) # {} /\ Places(k) \in SUBSET (1 .. n + l + 1)
    BY <1>3, <1>7, <1>9
  <1>11. SplitRepoAndSuffix(r \o s) =
           [repo |-> StripGitSuffix(SubSeq(full, 1, e - 1)), suffix |-> SubSeq(full, e, Len(full))]
    BY <1>4, <1>5, <1>9
  <1> DEFINE split == SplitRepoAndSuffix(r \o s)
             cut   == StripGitSuffix(SubSeq(full, 1, e - 1))
             rest  == SubSeq(full, e, Len(full))
  <1> HIDE DEF git, services, k
  <1>12. e \in Places(k) /\ \A i \in Places(k) : e <= i
    <2>1. n + l + 1 \in Nat
      BY <1>1
    <2>2. ASSUME NEW i \in Places(k) PROVE Min(Places(k)) \in Places(k) /\ Min(Places(k)) <= i
      BY <1>10, <2>1, FirstPlace
    <2> QED
      BY <1>10, <2>2
  <1> HIDE DEF e
  <1> DEFINE t == ServiceSuffixes[k]
  <1>13. /\ t \in Services /\ t \in Paths /\ t[1] = "/" /\ Len(t) \in {2, 4}
         /\ t = <<"/", "info", "/", "refs">> \/ t = <<"/", "git-upload-pack">>
    BY <1>1, <1>3, <1>6, <1>9
  <1>14. /\ e \in 1 .. n + l + 1 /\ e + Len(t) - 1 <= n + l + 1
         /\ \A a \in 1 .. Len(t) : full[e + a - 1] = t[a]
    BY <1>7, <1>9, <1>10, <1>12
  <1>15. e <= n + 2
    <2>1. CASE k = own
      BY <1>8, <1>12, <2>1
    <2>2. CASE k # own
      <3>1. k = 1 /\ own = 2
        BY <1>3, <1>9, <2>2
      <3>2. Len(t) = 4 /\ l = 2
        BY <1>3, <3>1 DEF l
      <3> QED
        BY <1>1, <1>14, <3>2
    <2> QED
      BY <2>1, <2>2
  <1>16. full[e] = "/"
    <2>1. 1 \in 1 .. Len(t) /\ e + 1 - 1 = e
      BY <1>1, <1>13, <1>14
    <2> QED
      BY <1>13, <1>14, <2>1
  <1>17. ASSUME e < n + 2 PROVE ServiceInside(r)
    <2>1. full[n + 2] = "/" /\ full[n + 3] \in {"info", "git-upload-pack"}
      <3>1. 1 \in 1 .. l /\ 2 \in 1 .. l /\ 1 + (n + 1) = n + 2 /\ 1 + (n + 2) = n + 3
        BY <1>1
      <3>2. s[1] = "/" /\ s[2] \in {"info", "git-upload-pack"}
        BY DEF Services
      <3> QED
        BY <1>2, <3>1, <3>2
    <2>2. e + Len(t) - 1 <= n + 1
      <3>1. CASE t = <<"/", "git-upload-pack">>
        <4>1. Len(t) = 2 /\ t[2] = "git-upload-pack"
          BY <3>1
        <4>2. full[e + 2 - 1] = "git-upload-pack"
          BY <1>14, <4>1
        <4>3. e + 2 - 1 # n + 2
          BY <2>1, <4>2
        <4> QED
          BY <1>1, <1>14, <1>17, <4>1, <4>3
      <3>2. CASE t = <<"/", "info", "/", "refs">>
        <4>1. Len(t) = 4 /\ t[2] = "info" /\ t[4] = "refs"
          BY <3>2
        <4>2. full[e + 2 - 1] = "info" /\ full[e + 4 - 1] = "refs"
          BY <1>14, <4>1
        <4>3. e + 2 - 1 # n + 2 /\ e + 4 - 1 # n + 2 /\ e + 4 - 1 # n + 3
          BY <2>1, <4>2
        <4> QED
          BY <1>1, <1>14, <1>17, <4>1, <4>3
      <3> QED
        BY <1>13, <3>1, <3>2
    <2> DEFINE q == <<"/">> \o r
    <2>3. /\ q \in Paths /\ Len(q) = n + 1
          /\ \A i \in 1 .. n + 1 : q[i] = full[i]
      <3>1. <<"/">> \in Paths /\ Len(<<"/">>) = 1 /\ <<"/">>[1] = "/"
        BY Slash
      <3>2. /\ q \in Paths /\ Len(q) = 1 + n /\ q[1] = "/"
            /\ \A i \in 1 .. n : q[1 + i] = r[i]
        BY <3>1, Joined DEF n
      <3> HIDE DEF q
      <3>3. ASSUME NEW i \in 1 .. n + 1 PROVE q[i] = full[i]
        <4>1. i = 1 \/ (i - 1 \in 1 .. n /\ 1 + (i - 1) = i)
          BY <1>1
        <4> QED
          BY <1>2, <3>2, <4>1
      <3> QED
        BY <1>1, <3>2, <3>3
    <2> HIDE DEF q
    <2>4. \A a \in 1 .. Len(t) : e + a - 1 \in 1 .. n + 1
      BY <1>1, <1>13, <1>14, <2>2
    <2>5. \A a \in 1 .. Len(t) : q[e + a - 1] = t[a]
      BY <1>14, <2>3, <2>4
    <2>6. e \in 1 .. Len(q)
      BY <1>1, <1>14, <1>17, <2>3
    <2>7. IsPrefix(t, SubSeq(q, e, Len(q)))
      <3>1. \A a \in Paths, b \in Paths : \A j \in 1 .. Len(b) :
              IsPrefix(a, SubSeq(b, j, Len(b)))
                <=> /\ j + Len(a) - 1 <= Len(b)
                    /\ \A i \in 1 .. Len(a) : b[j + i - 1] = a[i]
        BY Occurs
      <3> QED
        BY <1>13, <2>2, <2>3, <2>5, <2>6, <3>1
    <2>8. e - 1 \in 0 .. n /\ (e - 1) + 1 = e
      BY <1>1, <1>14, <1>17
    <2> QED
      BY <1>13, <2>3, <2>7, <2>8 DEF ServiceInside, q, n
  <1>18. e \in 1 .. n + 2
    BY <1>1, <1>14, <1>15
  <1>19. split.repo = cut /\ split.suffix = rest
    <2>1. split = [repo |-> cut, suffix |-> rest]
      BY <1>11
    <2> HIDE DEF split, cut, rest
    <2> QED
      BY <2>1
  <1>20. full = <<"/">> \o (r \o s)
    BY <1>2
  <1> HIDE DEF Places
  <1> QED
    BY <1>16, <1>17, <1>18, <1>19, <1>20 DEF n

-----------------------------------------------------------------------------
(* What a cut path is put together to. *)
LEMMA NoDotGit ==
  ASSUME NEW r \in Paths, ~DotGitInside(r)
  PROVE  \A i \in 1 .. Len(r) : r[i] # ".git"
  BY PathFacts DEF DotGitInside, ToSet

LEMMA NameWithDotGit ==
  ASSUME NEW r \in Paths, r # << >>, Stripped(r)
  PROVE  /\ r \o <<".git">> \in Paths /\ Stripped(r \o <<".git">>)
         /\ r \o (<<".git">> \o << >>) = r \o <<".git">>
  <1>1. Len(r) \in Nat /\ Len(r) >= 1 /\ r[1] # "/"
    BY PathFacts DEF Stripped
  <1>2. /\ r \o <<".git">> \in Paths /\ Len(r \o <<".git">>) = Len(r) + 1
        /\ (r \o <<".git">>)[Len(r) + 1] = ".git" /\ (r \o <<".git">>)[1] = r[1]
    BY <1>1, WithDotGit
  <1>3. <<".git">> \o << >> = <<".git">>
    BY DotGit, ConcatEmptySeq DEF Paths
  <1> QED
    BY <1>1, <1>2, <1>3 DEF Stripped

(* The path of a request for a repository, and what a target is asked for.  *)
IsRequest(at, r, s) == \E x \in {r, r \o <<".git">>} : at = x \o s
Ask(h, b, e) == Repository([host |-> h, path |-> b \o <<".git">> \o e])

(* A name without ".git" and services in it is cut where it ends.           *)
LEMMA ClearCut ==
  ASSUME NEW r \in Repos, ~Misread(r), NEW s \in Services, NEW at, IsRequest(at, r, s)
  PROVE  SplitRepoAndSuffix(at).repo = r /\ SplitRepoAndSuffix(at).suffix = s
  <1>0. PICK x \in {r, r \o <<".git">>} : at = x \o s
    BY DEF IsRequest
  <1>1. /\ r \in Paths /\ r # << >> /\ Len(r) \in Nat /\ Len(r) >= 1 /\ Stripped(r)
        /\ r[Len(r)] # ".git" /\ \A i \in 1 .. Len(r) : r[i] # ".git"
    BY RepoFacts, NoDotGit DEF Misread
  <1>2. StripGitSuffix(<<"/">> \o r) = r
    BY <1>1, Before
  <1>3. s \in Paths /\ << >> \in Paths
    BY ServiceFacts, EmptySeq DEF Paths
  <1>4. CASE x = r \o <<".git">>
    <2>1. x = r \o (<<".git">> \o << >>) /\ Stripped(x)
      BY <1>1, <1>4, NameWithDotGit
    <2>2. /\ SplitRepoAndSuffix(x \o s).repo = StripGitSuffix(<<"/">> \o r)
          /\ SplitRepoAndSuffix(x \o s).suffix = << >> \o s
      BY <1>1, <1>3, <2>1, GitCut
    <2>3. << >> \o s = s
      BY <1>3, ConcatEmptySeq DEF Paths
    <2>4. SplitRepoAndSuffix(x \o s).repo = r /\ SplitRepoAndSuffix(x \o s).suffix = s
      BY <1>2, <2>2, <2>3
    <2> QED
      BY <1>0, <2>4
  <1>5. CASE x = r
    <2> DEFINE full  == <<"/">> \o (r \o s)
               split == SplitRepoAndSuffix(r \o s)
    <2>1. PICK e \in 1 .. Len(r) + 2 :
            /\ e < Len(r) + 2 => ServiceInside(r)
            /\ split.repo = StripGitSuffix(SubSeq(full, 1, e - 1))
            /\ split.suffix = SubSeq(full, e, Len(full))
      <3>1. \E e \in 1 .. Len(r) + 2 :
              /\ full[e] = "/"
              /\ e < Len(r) + 2 => ServiceInside(r)
              /\ split.repo = StripGitSuffix(SubSeq(full, 1, e - 1))
              /\ split.suffix = SubSeq(full, e, Len(full))
        BY <1>1, ServiceCut
      <3> HIDE DEF full, split
      <3> QED
        BY <3>1
    <2>2. e = (1 + Len(r)) + 1 /\ e - 1 = 1 + Len(r)
      BY <1>1, <2>1 DEF Misread
    <2>3. <<"/">> \in Paths /\ Len(<<"/">>) = 1
      BY Slash
    <2>4. <<"/">> \o r \in Paths /\ Len(<<"/">> \o r) = 1 + Len(r)
      BY <1>1, <2>3, Joined
    <2>5. full = (<<"/">> \o r) \o s
      <3>1. Cat(Cat(<<"/">>, r), s) = Cat(<<"/">>, Cat(r, s))
        BY <1>1, <1>3, <2>3, Associative
      <3> QED
        BY <3>1 DEF Cat
    <2> HIDE DEF full, split
    <2>6. SubSeq(full, 1, 1 + Len(r)) = <<"/">> \o r /\ SubSeq(full, (1 + Len(r)) + 1, Len(full)) = s
      <3> DEFINE a == <<"/">> \o r
      <3> HIDE DEF a
      <3>1. SubSeq(a \o s, 1, Len(a)) = a /\ SubSeq(a \o s, Len(a) + 1, Len(a \o s)) = s
        BY <1>3, <2>4, Halves DEF a
      <3>2. Len(a) = 1 + Len(r) /\ full = a \o s
        BY <2>4, <2>5 DEF a
      <3>3. SubSeq(full, 1, 1 + Len(r)) = a /\ SubSeq(full, (1 + Len(r)) + 1, Len(full)) = s
        BY <3>1, <3>2
      <3> QED
        BY <3>3 DEF a
    <2>7. split.repo = r /\ split.suffix = s
      BY <1>2, <2>1, <2>2, <2>6
    <2> QED
      BY <1>0, <1>5, <2>7 DEF split
  <1> QED
    BY <1>0, <1>4, <1>5

(* A cut at ".git": the rest comes back behind it, so that a server reads   *)
(* the whole name.                                                          *)
LEMMA CutAtDotGit ==
  ASSUME NEW r \in Repos, NEW x \in {r, r \o <<".git">>}, NEW s \in Services,
         NEW i \in 1 .. Len(x), x[i] = ".git", ~DotGitFirst(r),
         HasOwner(SplitRepoAndSuffix(x \o s).repo)
  PROVE  LET split == SplitRepoAndSuffix(x \o s)
         IN \A b \in {split.repo, Collapse(split.repo)} : \A h :
              Ask(h, b, split.suffix) = [host |-> h, path |-> Collapse(r)]
  <1> DEFINE split == SplitRepoAndSuffix(x \o s)
             git   == {k \in 1 .. Len(x) : x[k] = ".git"}
             j     == Min(git)
             y     == SubSeq(x, 1, j - 1)
             z     == SubSeq(x, j + 1, Len(x))
             g     == <<".git">>
  <1>1. /\ r \in Paths /\ r # << >> /\ Len(r) \in Nat /\ Len(r) >= 1 /\ Stripped(r)
        /\ r[1] # "/" /\ r[Len(r)] # "/" /\ r[Len(r)] # ".git"
    BY RepoFacts
  <1>2. /\ x \in Paths /\ Stripped(x) /\ Len(x) \in Nat
        /\ \A k \in 1 .. Len(r) : x[k] = r[k]
        /\ Len(x) \in {Len(r), Len(r) + 1}
    <2>1. x \in Paths /\ Stripped(x)
      BY <1>1, NameWithDotGit
    <2>2. (\A k \in 1 .. Len(r) : x[k] = r[k]) /\ Len(x) \in {Len(r), Len(r) + 1}
      BY <1>1, WithDotGit
    <2> QED
      BY <1>1, <2>1, <2>2
  <1>3. /\ s \in Paths /\ g \in Paths /\ Len(g) = 1 /\ g[1] = ".git"
    BY ServiceFacts, DotGit
  <1>4. j \in 1 .. Len(x) /\ x[j] = ".git" /\ \A k \in 1 .. j - 1 : x[k] # ".git"
    <2>1. git # {} /\ git \in SUBSET (1 .. Len(x))
      OBVIOUS
    <2>2. Min(git) \in git /\ \A k \in git : Min(git) <= k
      BY <1>2, <2>1, FirstPlace
    <2>3. j \in 1 .. Len(x) /\ x[j] = ".git" /\ \A k \in 1 .. Len(x) : x[k] = ".git" => j <= k
      BY <2>2
    <2> HIDE DEF j
    <2>4. \A k \in 1 .. j - 1 : k \in 1 .. Len(x) /\ ~(j <= k)
      BY <1>2, <2>3
    <2> QED
      BY <2>3, <2>4
  <1> HIDE DEF j, git
  <1>5. /\ y \in Paths /\ z \in Paths /\ Len(y) = j - 1 /\ \A k \in 1 .. j - 1 : y[k] = x[k]
        /\ x = y \o (g \o z)
    BY <1>2, <1>4, Parted
  <1> HIDE DEF y, z, g
  <1>6. split.repo = StripGitSuffix(<<"/">> \o y) /\ split.suffix = z \o s
    <2>1. /\ y \in Paths /\ z \in Paths /\ \A k \in 1 .. Len(y) : y[k] # ".git"
          /\ x = y \o (<<".git">> \o z) /\ Stripped(y \o (<<".git">> \o z))
      BY <1>2, <1>4, <1>5 DEF g
    <2>2. LET cut == SplitRepoAndSuffix((y \o (<<".git">> \o z)) \o s)
          IN cut.repo = StripGitSuffix(<<"/">> \o y) /\ cut.suffix = z \o s
      BY ONLY <2>1, s \in Services, GitCut
    <2> QED
      BY <2>1, <2>2
  <1>7. y # << >>
    <2> SUFFICES ASSUME y = << >> PROVE FALSE
      OBVIOUS
    <2>1. <<"/">> \o y = <<"/">> /\ <<"/">> \in Paths /\ Len(<<"/">>) = 1 /\ <<"/">>[1] = "/"
      BY Slash, ConcatEmptySeq DEF Paths
    <2>2. {k \in DOMAIN <<"/">> : <<"/">>[k] # "/"} = {}
      BY <2>1, PathFacts
    <2>3. split.repo = << >>
      BY <1>6, <2>1, <2>2 DEF StripGitSuffix, Strip
    <2> QED
      BY <2>3 DEF HasOwner, ToSet
  <1>8. /\ y[1] # "/" /\ y[Len(y)] # "/" /\ y[Len(y)] # ".git" /\ j > 1
    <2>1. Len(y) \in Nat /\ Len(y) >= 1
      BY <1>5, <1>7, PathFacts
    <2>2. j > 1 /\ j - 1 \in 1 .. Len(r) /\ 1 \in 1 .. j - 1 /\ j - 1 \in 1 .. j - 1
      BY <1>1, <1>2, <1>4, <1>5, <2>1
    <2>3. y[j - 1] = r[j - 1] /\ y[1] = r[1] /\ y[j - 1] # ".git"
      <3>1. y[j - 1] = x[j - 1] /\ y[1] = x[1]
        BY <1>5, <2>2
      <3>2. x[j - 1] = r[j - 1]
        BY <1>2, <2>2
      <3>3. 1 \in 1 .. Len(r)
        BY <1>1
      <3>4. x[1] = r[1] /\ x[j - 1] # ".git"
        BY <1>2, <1>4, <2>2, <3>3
      <3> QED
        BY <3>1, <3>2, <3>4
    <2>4. r[j - 1] # "/"
      <3>1. CASE j \in 1 .. Len(r)
        <4>1. r[j] = ".git" /\ j \in 2 .. Len(r)
          BY <1>2, <1>4, <2>2, <3>1
        <4> QED
          BY <4>1 DEF DotGitFirst
      <3>2. CASE j \notin 1 .. Len(r)
        <4>1. j = Len(r) + 1
          BY <1>1, <1>2, <1>4, <3>2
        <4>2. j - 1 = Len(r)
          BY <1>1, <4>1
        <4> QED
          BY <1>1, <4>2
      <3> QED
        BY <3>1, <3>2
    <2> QED
      BY <1>1, <1>5, <2>2, <2>3, <2>4
  <1>9. split.repo = y
    BY <1>5, <1>6, <1>7, <1>8, Before DEF Stripped
  <1> DEFINE c == Collapse(y)
  <1>10. /\ c \in Paths /\ c # << >> /\ c[Len(c)] # "/" /\ Collapse(c) = c
    BY <1>5, <1>7, <1>8, CollapseFacts, CleanStays, LastStays
  <1>11. /\ g \o z \in Paths /\ (g \o z) # << >> /\ (g \o z)[1] = ".git"
    <2>1. /\ g \o z \in Paths /\ Len(g \o z) = 1 + Len(z) /\ (g \o z)[1] = ".git" /\ Len(z) \in Nat
      <3>1. 1 \in 1 .. Len(g) /\ Len(z) \in Nat
        BY <1>3, <1>5, PathFacts
      <3>2. /\ g \o z \in Paths /\ Len(g \o z) = Len(g) + Len(z)
            /\ \A k \in 1 .. Len(g) : (g \o z)[k] = g[k]
        BY <1>3, <1>5, Joined
      <3> QED
        BY <1>3, <3>1, <3>2
    <2> QED
      BY <2>1
  <1> HIDE DEF split, c
  <1>12. ASSUME NEW b \in {y, c}, NEW h
         PROVE  Repository([host |-> h, path |-> b \o g \o split.suffix])
                  = [host |-> h, path |-> Collapse(r)]
    <2>0. b \in Paths
      BY <1>5, <1>10
    <2>1. b \o g \o split.suffix = (b \o (g \o z)) \o s
      <3>1. (b \o g) \o (z \o s) = ((b \o g) \o z) \o s
        <4>1. b \o g \in Paths
          BY <1>3, <2>0, Joined
        <4>2. Cat(Cat(b \o g, z), s) = Cat(b \o g, Cat(z, s))
          BY <1>3, <1>5, <4>1, Associative
        <4> QED
          BY <4>2 DEF Cat
      <3>2. (b \o g) \o z = b \o (g \o z)
        <4>1. Cat(Cat(b, g), z) = Cat(b, Cat(g, z))
          BY <1>3, <1>5, <2>0, Associative
        <4> QED
          BY <4>1 DEF Cat
      <3> QED
        BY <1>6, <3>1, <3>2 DEF split
    <2>2. b \o (g \o z) \in Paths
      BY <1>11, <2>0, Joined
    <2>3. Collapse(b \o (g \o z)) = Collapse(x)
      <3>1. Collapse(y \o (g \o z)) = c \o Collapse(g \o z)
        BY <1>5, <1>7, <1>8, <1>11, CollapseJoined DEF c
      <3>2. Collapse(c \o (g \o z)) = c \o Collapse(g \o z)
        BY <1>10, <1>11, CollapseJoined
      <3> QED
        BY <1>5, <3>1, <3>2
    <2>4. Repository([host |-> h, path |-> (b \o (g \o z)) \o s])
            = [host |-> h, path |-> StripGitSuffix(Collapse(b \o (g \o z)))]
      BY <2>2, Served
    <2>5. StripGitSuffix(Collapse(x)) = Collapse(r)
      <3>1. x \in Spellings(r)
        BY DEF Spellings
      <3> QED
        BY <3>1, Spelled
    <2> QED
      BY <2>1, <2>3, <2>4, <2>5
  <1> QED
    BY <1>9, <1>12 DEF split, c, g, Ask

(* Asked for whole, a repository is the one that is served.                 *)
LEMMA WholeName ==
  ASSUME NEW r \in Repos, NEW b \in {r, Collapse(r)}, NEW h, NEW s \in Services
  PROVE  Ask(h, b, s) = [host |-> h, path |-> Collapse(r)]
  <1> DEFINE c == Collapse(r)
             g == <<".git">>
  <1>1. /\ r \in Paths /\ r # << >> /\ Len(r) \in Nat /\ Len(r) >= 1 /\ Stripped(r)
        /\ r[Len(r)] # "/" /\ r[Len(r)] # ".git"
    BY RepoFacts
  <1>2. c \in Paths /\ c # << >> /\ c[Len(c)] # "/" /\ Collapse(c) = c /\ Stripped(c)
    BY <1>1, CollapseFacts, CleanStays, CleanIsStripped, LastStays
  <1>3. g \in Paths
    BY DotGit
  <1> HIDE DEF c
  <1>4. Collapse(b \o g) = c \o g
    BY <1>1, <1>2, CollapseWithDotGit DEF c
  <1>5. StripGitSuffix(c \o g) = c
    BY <1>2, SuffixTakenOff
  <1>6. b \o g \in Paths
    BY <1>1, <1>2, <1>3, Joined DEF c
  <1> HIDE DEF g
  <1> QED
    BY <1>4, <1>5, <1>6, Served DEF c, g, Ask

(* A cut at a service name too early: what is asked for has a ".git" before *)
(* a slash, which no repository has.                                        *)
LEMMA CutTooEarly ==
  ASSUME NEW r \in Repos, NEW s \in Services, ~DotGitInside(r),
         HasOwner(SplitRepoAndSuffix(r \o s).repo)
  PROVE  LET split == SplitRepoAndSuffix(r \o s)
         IN \A b \in {split.repo, Collapse(split.repo)} : \A h :
              \E t \in Paths : /\ Ask(h, b, split.suffix) = [host |-> h, path |-> t]
                               /\ t = Collapse(r) \/ t \notin Existing
  <1> DEFINE split == SplitRepoAndSuffix(r \o s)
             full  == <<"/">> \o (r \o s)
             n     == Len(r)
             g     == <<".git">>
             head  == <<"/">> \o r
  <1>1. /\ r \in Paths /\ r # << >> /\ n \in Nat /\ n >= 1 /\ Stripped(r)
        /\ r[1] # "/" /\ r[n] # "/" /\ r[n] # ".git"
        /\ \A i \in 1 .. n : r[i] # ".git"
    BY RepoFacts, NoDotGit
  <1>2. /\ s \in Paths /\ g \in Paths /\ Len(g) = 1 /\ g[1] = ".git"
        /\ <<"/">> \in Paths /\ Len(<<"/">>) = 1 /\ <<"/">>[1] = "/"
    BY ServiceFacts, DotGit, Slash
  <1>3. PICK e \in 1 .. n + 2 :
          /\ full[e] = "/"
          /\ split.repo = StripGitSuffix(SubSeq(full, 1, e - 1))
          /\ split.suffix = SubSeq(full, e, Len(full))
    <2>1. \E e \in 1 .. Len(r) + 2 :
            /\ full[e] = "/"
            /\ e < Len(r) + 2 => ServiceInside(r)
            /\ split.repo = StripGitSuffix(SubSeq(full, 1, e - 1))
            /\ split.suffix = SubSeq(full, e, Len(full))
      BY <1>1, ServiceCut
    <2> HIDE DEF full, split
    <2> QED
      BY <2>1
  <1>4. /\ head \in Paths /\ Len(head) = n + 1 /\ \A i \in 1 .. n : head[1 + i] = r[i]
        /\ full = head \o s
    <2>1. head \in Paths /\ Len(head) = 1 + n /\ \A i \in 1 .. n : head[1 + i] = r[i]
      BY <1>1, <1>2, Joined
    <2>2. full = head \o s
      <3>1. Cat(Cat(<<"/">>, r), s) = Cat(<<"/">>, Cat(r, s))
        BY <1>1, <1>2, Associative
      <3> QED
        BY <3>1 DEF Cat
    <2> QED
      BY <1>1, <2>1, <2>2
  <1> HIDE DEF full, head, n, g
  <1>5. /\ full \in Paths /\ Len(full) = (n + 1) + Len(s) /\ Len(s) \in Nat
        /\ \A i \in 1 .. n + 1 : full[i] = head[i]
    <2>1. /\ head \o s \in Paths /\ Len(head \o s) = Len(head) + Len(s)
          /\ \A i \in 1 .. Len(head) : (head \o s)[i] = head[i]
      BY <1>2, <1>4, Joined
    <2>2. Len(s) \in Nat
      BY <1>2, PathFacts
    <2> QED
      BY <1>4, <2>1, <2>2
  <1>6. split.repo \in Paths /\ Stripped(split.repo) /\ split.repo # << >>
    <2>1. r \o s \in Paths
      BY <1>1, <1>2, Joined
    <2>2. split.repo # << >>
      BY DEF HasOwner, ToSet
    <2> QED
      BY <2>1, <2>2, SplitFacts
  <1>7. /\ \A b \in {split.repo, Collapse(split.repo)} :
             b \in Paths /\ b # << >> /\ Stripped(b)
    <2>1. HasOwner(split.repo)
      OBVIOUS
    <2>2. Collapse(split.repo) \in Paths /\ Stripped(Collapse(split.repo))
      BY <1>6, CollapseFacts, CleanIsStripped
    <2>3. Collapse(split.repo) # << >>
      BY <1>6, <2>1, OwnerStays
    <2> QED
      BY <1>6, <2>2, <2>3
  <1>8. ASSUME e = n + 2
        PROVE  split.repo = r /\ split.suffix = s
    <2>1. e - 1 = Len(head) /\ e = Len(head) + 1
      BY <1>1, <1>4, <1>8
    <2>2. SubSeq(full, 1, e - 1) = head /\ SubSeq(full, e, Len(full)) = s
      BY <1>2, <1>4, <2>1, Halves
    <2>3. StripGitSuffix(head) = r
      BY <1>1, Before DEF head, n
    <2> QED
      BY <1>3, <2>2, <2>3
  <1> HIDE DEF split
  <1>9. ASSUME NEW b \in {split.repo, Collapse(split.repo)}, NEW h, e = n + 2
        PROVE  Repository([host |-> h, path |-> b \o g \o split.suffix])
                 = [host |-> h, path |-> Collapse(r)]
    <2>1. split.suffix = s /\ b \in {r, Collapse(r)}
      BY <1>8, <1>9
    <2> QED
      BY <2>1, WholeName DEF g, Ask
  <1>10. ASSUME NEW b \in {split.repo, Collapse(split.repo)}, NEW h, e # n + 2
         PROVE  \E t \in Paths \ Existing :
                  Repository([host |-> h, path |-> b \o g \o split.suffix])
                    = [host |-> h, path |-> t]
    <2> DEFINE z == SubSeq(head, e, n + 1)
               v == (b \o g) \o z
               m == Len(b)
               c == Collapse(v)
    <2>1. e \in 1 .. n /\ e - 1 \in 0 .. n
      <3>1. e \in 1 .. n + 1
        BY <1>1, <1>3, <1>10
      <3>2. e # n + 1
        <4>1. head[1 + n] = r[n] /\ 1 + n = n + 1
          BY <1>1, <1>4
        <4>2. full[n + 1] # "/"
          BY <1>1, <1>5, <4>1
        <4> QED
          BY <1>3, <4>2
      <3> QED
        BY <1>1, <3>1, <3>2
    <2>2. /\ z \in Paths /\ Len(z) = n - e + 2 /\ \A i \in 1 .. n - e + 2 : z[i] = head[e + i - 1]
      <3>1. (n + 1) - e + 1 = n - e + 2 /\ e <= n + 1
        BY <1>1, <2>1
      <3>2. /\ z \in Paths /\ Len(z) = IF e <= n + 1 THEN (n + 1) - e + 1 ELSE 0
            /\ \A i \in 1 .. (n + 1) - e + 1 : z[i] = head[e + i - 1]
        BY <1>1, <1>4, <2>1, Part
      <3> QED
        BY <3>1, <3>2
    <2>3. split.suffix = z \o s
      <3>1. e \in 1 .. Len(head)
        BY <1>1, <1>4, <2>1
      <3>2. e = (e - 1) + 1
        OBVIOUS
      <3> DEFINE a == SubSeq(head, 1, e - 1)
      <3>3. a \in Paths /\ Len(a) = e - 1 /\ head = a \o z
        <4>1. /\ a \in Paths /\ Len(a) = e - 1
              /\ head = a \o (<<head[e]>> \o SubSeq(head, e + 1, Len(head)))
          BY <1>4, <3>1, Parted
        <4>2. z = <<head[e]>> \o SubSeq(head, e + 1, Len(head))
          <5>1. Len(head) \in e .. Len(head)
            BY <1>1, <1>4, <3>1
          <5>2. SubSeq(head, e, Len(head)) = <<head[e]>> \o SubSeq(head, e + 1, Len(head))
            BY <1>4, <3>1, <5>1, SubSeqRecursiveFirst DEF Paths
          <5> QED
            BY <1>4, <5>2
        <4> QED
          BY <4>1, <4>2
      <3> HIDE DEF a, z
      <3>4. z \o s \in Paths
        BY <1>2, <2>2, Joined
      <3>5. full = a \o (z \o s)
        <4>1. Cat(Cat(a, z), s) = Cat(a, Cat(z, s))
          BY <1>2, <2>2, <3>3, Associative
        <4>2. (a \o z) \o s = a \o (z \o s)
          BY <4>1 DEF Cat
        <4> QED
          BY <1>4, <3>3, <4>2
      <3>6. SubSeq(full, (e - 1) + 1, Len(full)) = z \o s
        BY <3>3, <3>4, <3>5, Halves
      <3> QED
        BY <1>3, <3>2, <3>6 DEF split, z
    <2>4. z[1] = "/" /\ z[n - e + 2] = r[n] /\ n - e + 2 >= 2
      <3>1. 1 \in 1 .. n - e + 2 /\ e + 1 - 1 = e /\ n - e + 2 \in 1 .. n - e + 2 /\ e + (n - e + 2) - 1 = 1 + n
            /\ e \in 1 .. n + 1
        BY <1>1, <2>1
      <3>2. z[1] = head[e] /\ z[n - e + 2] = head[1 + n]
        BY <2>2, <3>1
      <3> QED
        BY <1>1, <1>3, <1>4, <1>5, <3>1, <3>2
    <2>5. /\ b \o g \in Paths /\ m \in Nat /\ m >= 1 /\ b[1] # "/" /\ Len(b \o g) = m + 1
          /\ (b \o g)[m + 1] = ".git"
      <3>1. b \in Paths /\ b # << >> /\ Stripped(b)
        BY <1>7 DEF split
      <3> QED
        BY <3>1, WithDotGit, PathFacts DEF Stripped, g
    <2>6. (b \o g) \o split.suffix = v \o s
      <3>1. Cat(Cat(b \o g, z), s) = Cat(b \o g, Cat(z, s))
        BY <1>2, <2>2, <2>5, Associative
      <3>2. ((b \o g) \o z) \o s = (b \o g) \o (z \o s)
        BY <3>1 DEF Cat
      <3> QED
        BY <2>3, <3>2
    <2>7. /\ v \in Paths /\ Len(v) = (m + 1) + (n - e + 2)
          /\ \A i \in 1 .. m + 1 : v[i] = (b \o g)[i]
          /\ \A i \in 1 .. n - e + 2 : v[(m + 1) + i] = z[i]
      <3> DEFINE a == b \o g
      <3>1. a \in Paths /\ Len(a) = m + 1
        BY <2>5
      <3> HIDE DEF a, m, z
      <3>2. /\ a \o z \in Paths /\ Len(a \o z) = Len(a) + Len(z)
            /\ \A i \in 1 .. Len(a) : (a \o z)[i] = a[i]
            /\ \A i \in 1 .. Len(z) : (a \o z)[Len(a) + i] = z[i]
        BY <2>2, <3>1, Joined
      <3>3. v = a \o z
        BY DEF a
      <3> HIDE DEF v
      <3>4. /\ v \in Paths /\ Len(v) = (m + 1) + (n - e + 2)
            /\ \A i \in 1 .. m + 1 : v[i] = a[i]
            /\ \A i \in 1 .. n - e + 2 : v[(m + 1) + i] = z[i]
        BY <2>2, <3>1, <3>2, <3>3
      <3> QED
        BY <3>4 DEF a
    <2> HIDE DEF z, v, m
    <2>8. /\ v[m + 1] = ".git" /\ v[(m + 1) + 1] = "/" /\ m + 1 \in 1 .. Len(v)
          /\ (m + 1) + 1 < Len(v) /\ v[Len(v)] = r[n] /\ v # << >>
      <3>1. v[m + 1] = ".git" /\ v[(m + 1) + 1] = "/" /\ v[Len(v)] = r[n]
        <4>1. m + 1 \in 1 .. m + 1 /\ 1 \in 1 .. n - e + 2 /\ n - e + 2 \in 1 .. n - e + 2
          BY <1>1, <2>1, <2>5
        <4>2. v[m + 1] = (b \o g)[m + 1]
          BY <2>7, <4>1
        <4>3. v[(m + 1) + 1] = z[1] /\ v[(m + 1) + (n - e + 2)] = z[n - e + 2]
          BY <2>7, <4>1
        <4>4. v[Len(v)] = z[n - e + 2]
          BY <2>7, <4>3
        <4> QED
          BY <2>4, <2>5, <4>2, <4>3, <4>4
      <3>2. m + 1 \in 1 .. Len(v) /\ (m + 1) + 1 < Len(v)
        BY <1>1, <2>1, <2>5, <2>7
      <3> QED
        BY <3>1, <3>2
    <2>9. /\ c \in Paths /\ Stripped(c) /\ c # << >> /\ c[Len(c)] = r[n]
      BY <1>1, <2>7, <2>8, CollapseFacts, CleanIsStripped, LastStays
    <2>10. StripGitSuffix(c) = c
      BY <1>1, <2>9, StripAgain DEF StripGitSuffix, Last
    <2>11. \E i \in 1 .. Len(c) - 1 : c[i] = ".git" /\ c[i + 1] = "/"
      BY <1>1, <2>7, <2>8, SlashStays
    <2> HIDE DEF c
    <2>12. c \notin Existing
      BY <2>11, ExistingFacts DEF Existing
    <2>13. Repository([host |-> h, path |-> v \o s]) = [host |-> h, path |-> c]
      BY <2>7, <2>10, Served DEF c
    <2> QED
      BY <2>6, <2>9, <2>12, <2>13
  <1>11. Collapse(r) \in Paths
    BY <1>1, CollapseFacts
  <1>12. ASSUME NEW b \in {split.repo, Collapse(split.repo)}, NEW h
         PROVE  \E t \in Paths :
                  /\ Repository([host |-> h, path |-> b \o g \o split.suffix])
                       = [host |-> h, path |-> t]
                  /\ t = Collapse(r) \/ t \notin Existing
    <2>1. CASE e = n + 2
      <3>1. Repository([host |-> h, path |-> b \o g \o split.suffix])
              = [host |-> h, path |-> Collapse(r)]
        BY <1>9, <2>1
      <3> QED
        BY <1>11, <3>1
    <2>2. CASE e # n + 2
      BY <1>10, <2>2
    <2> QED
      BY <2>1, <2>2
  <1> QED
    BY <1>12 DEF split, g, Ask

(* What has an owner when written with single slashes has one as it is.     *)
LEMMA OwnerBefore ==
  ASSUME NEW p \in Paths, HasOwner(Collapse(p))
  PROVE  HasOwner(p)
  <1> DEFINE s == Kept(p)
             c == Picked(p, s)
  <1>1. Len(p) \in Nat /\ DOMAIN p = 1 .. Len(p) /\ s \in SUBSET (1 .. Len(p))
    BY PathFacts, KeptFacts
  <1>2. c \in Paths /\ Len(c) = Cardinality(s) /\ \A i \in s : c[Rank(i, s)] = p[i]
    BY <1>1, PickedAt
  <1>3. PICK m \in 1 .. Len(c) : c[m] = "/"
    <2>1. DOMAIN c = 1 .. Len(c)
      BY <1>2, PathFacts
    <2>2. HasOwner(c)
      BY DEF Collapse
    <2> HIDE DEF c
    <2> QED
      BY <2>1, <2>2 DEF HasOwner, ToSet
  <1>4. PICK i \in s : Rank(i, s) = m
    BY <1>1, <1>2, Ranks
  <1>5. i \in DOMAIN p /\ p[i] = "/"
    BY <1>1, <1>2, <1>3, <1>4
  <1> QED
    BY <1>5 DEF HasOwner, ToSet

(* A name without doubled slashes is a path object's name already.          *)
LEMMA SingleSlashes ==
  ASSUME NEW r \in Repos, NEW u \in Spellings(r), ~EmptySegment(u)
  PROVE  Collapse(r) = r
  <1>1. /\ r \in Paths /\ r # << >> /\ Len(r) \in Nat /\ Len(r) >= 1
        /\ r[1] # "/" /\ r[Len(r)] # "/"
    BY RepoFacts
  <1>2. Len(u) \in Nat /\ Len(u) >= Len(r) /\ \A i \in 1 .. Len(r) : u[i] = r[i]
    <2>1. CASE u = r
      BY <1>1, <2>1
    <2>2. CASE u = r \o <<".git">>
      BY <1>1, <2>2, WithDotGit
    <2>3. CASE u = r \o <<"/">>
      <3>1. /\ Len(r \o <<"/">>) = Len(r) + Len(<<"/">>)
            /\ \A i \in 1 .. Len(r) : (r \o <<"/">>)[i] = r[i]
        BY <1>1, Slash, Joined
      <3>2. Len(<<"/">>) = 1
        BY Slash
      <3> QED
        BY <1>1, <2>3, <3>1, <3>2
    <2> QED
      BY <2>1, <2>2, <2>3 DEF Spellings
  <1>3. ASSUME NEW i \in 1 .. Len(r), r[i] = "/"
        PROVE  i > 1 /\ i < Len(r) /\ r[i - 1] # "/"
    <2>1. i > 1 /\ i < Len(r)
      BY <1>1, <1>3
    <2>2. i - 1 \in 1 .. Len(u) - 1 /\ i - 1 \in 1 .. Len(r) /\ (i - 1) + 1 = i
      BY <1>1, <1>2, <2>1
    <2>3. u[i] = "/"
      BY <1>2, <1>3
    <2>4. u[i - 1] # "/"
      BY <2>2, <2>3 DEF EmptySegment
    <2> QED
      BY <1>2, <2>1, <2>2, <2>4
  <1>4. Clean(r)
    BY <1>3 DEF Clean
  <1> QED
    BY <1>1, <1>4, CleanStays

(* Whatever a request's path is cut into: what the target is asked for is   *)
(* the repository, or nothing that exists.                                  *)
LEMMA NothingElse ==
  ASSUME NEW r \in Repos, NEW s \in Services, NEW at, IsRequest(at, r, s),
         ~DotGitFirst(r), HasOwner(SplitRepoAndSuffix(at).repo)
  PROVE  LET split == SplitRepoAndSuffix(at)
         IN \A b \in {split.repo, Collapse(split.repo)} : \A h :
              \E t \in Paths : /\ Ask(h, b, split.suffix) = [host |-> h, path |-> t]
                               /\ t = Collapse(r) \/ t \notin Existing
  <1>0. PICK x \in {r, r \o <<".git">>} : at = x \o s
    BY DEF IsRequest
  <1>1. r \in Paths /\ Collapse(r) \in Paths
    BY RepoFacts, CollapseFacts
  <1>2. CASE \E i \in 1 .. Len(x) : x[i] = ".git"
    <2>1. PICK i \in 1 .. Len(x) : x[i] = ".git"
      BY <1>2
    <2> DEFINE split == SplitRepoAndSuffix(x \o s)
    <2>2. HasOwner(split.repo)
      BY <1>0
    <2>3. \A b \in {split.repo, Collapse(split.repo)} : \A h :
            Ask(h, b, split.suffix) = [host |-> h, path |-> Collapse(r)]
      BY <2>1, <2>2, CutAtDotGit
    <2>4. split = SplitRepoAndSuffix(at)
      BY <1>0
    <2> HIDE DEF split
    <2> QED
      BY <1>1, <2>3, <2>4
  <1>3. CASE \A i \in 1 .. Len(x) : x[i] # ".git"
    <2>1. x = r
      <3>1. Len(r) + 1 \in 1 .. Len(r) + 1
        BY <1>1, PathFacts
      <3> QED
        BY <1>1, <1>3, <3>1, WithDotGit
    <2>2. ~DotGitInside(r)
      BY <1>1, <1>3, <2>1, PathFacts DEF DotGitInside, ToSet
    <2> DEFINE split == SplitRepoAndSuffix(r \o s)
    <2>3. HasOwner(split.repo)
      BY <1>0, <2>1
    <2>4. \A b \in {split.repo, Collapse(split.repo)} : \A h :
            \E t \in Paths : /\ Ask(h, b, split.suffix) = [host |-> h, path |-> t]
                             /\ t = Collapse(r) \/ t \notin Existing
      BY <2>2, <2>3, CutTooEarly
    <2>5. split = SplitRepoAndSuffix(at)
      BY <1>0, <2>1
    <2> HIDE DEF split
    <2> QED
      BY <2>4, <2>5
  <1> QED
    BY <1>2, <1>3

(* A URL names one repository, and so do the requests made of it.           *)
LEMMA UrlNames ==
  ASSUME NEW u \in Urls
  PROVE  \E r \in Repos :
           /\ u.path \in Spellings(r) /\ u.host \in Hosts
           /\ StripGitSuffix(u.path) = r /\ StripGitSuffix(Collapse(u.path)) = Collapse(r)
           /\ \A at \in RequestPaths(u) : \E s \in Services : IsRequest(at, r, s)
  <1>1. PICK r \in Repos : u.path \in Spellings(r)
    BY DEF Urls
  <1>2. u.host \in Hosts
    BY DEF Urls
  <1>3. /\ StripGitSuffix(u.path) = r /\ StripGitSuffix(Collapse(u.path)) = Collapse(r)
        /\ StripRight(u.path) \in {r, r \o <<".git">>}
    BY <1>1, Spelled
  <1>4. ASSUME NEW at \in RequestPaths(u)
        PROVE  \E s \in Services : IsRequest(at, r, s)
    BY <1>3 DEF RequestPaths, IsRequest
  <1> QED
    BY <1>1, <1>2, <1>3, <1>4

(* A mapping that is made is not taken for a ValueError.                    *)
LEMMA NeverRefused ==
  ASSUME NEW h \in ProviderHosts, NEW r \in Paths, NEW s \in Paths
  PROVE  Mapping(h, r, s) # Refused
  <1>1. Collapse(r) \in Paths
    BY CollapseFacts
  <1>2. Mapping(h, r, s) \in
          [host : ProviderHosts, repo : Paths, suffix : Paths,
           project : [host : ProviderHosts, path : Paths]]
    BY <1>1 DEF Mapping
  <1> QED
    BY <1>2, UrlAssumption DEF Paths

LEMMA MappingFields ==
  ASSUME NEW h, NEW r, NEW s
  PROVE  LET m == Mapping(h, r, s)
         IN /\ m.host = h /\ m.repo = r /\ m.suffix = s
            /\ m.project = [host |-> h, path |-> Collapse(r)]
            /\ m.project.host = h /\ m.project.path = Collapse(r)
  BY DEF Mapping

-----------------------------------------------------------------------------
(* The parties. *)
(* What each party uses was made of the URL it has.                         *)
MapOf(p) ==
  IF path[p] # << >> THEN MapGatewayPath(url[p].host, path[p]) ELSE MapRemoteUrl(url[p])

Known(p) ==
  /\ step[p] # "idle" => url[p] \in Urls
  /\ step[p] = "sent" => path[p] # << >>
  /\ path[p] # << >> => path[p] \in RequestPaths(url[p])
  /\ IsMapped(p) => map[p] # Refused /\ map[p] = MapOf(p)
  /\ step[p] = "refused" => MapOf(p) = Refused

(* What an answer was when it was given, it still is.                       *)
Answered(p) ==
  step[p] = "answered" =>
    /\ ~DotGitFirst(Written(p)) => answer[p] \in {Asked(p), Missing}
    /\ Supported(p) /\ ~Misread(Written(p)) => answer[p] # Missing

(* Into each project the repository of its name was pushed.                 *)
Pushed ==
  \A m \in mirrored :
    m.project = m.content /\ m.content \in [host : Hosts, path : Existing]

NameInv ==
  /\ MapInv
  /\ DOMAIN answer = Parties
  /\ \A p \in Parties : Known(p) /\ Answered(p)
  /\ Pushed

(* A party whose URL is known asks for one repository.                      *)
LEMMA Requested ==
  ASSUME NameInv, NEW p \in Parties, step[p] # "idle"
  PROVE  \E r \in Repos :
           /\ url[p].path \in Spellings(r) /\ url[p].host \in Hosts
           /\ Written(p) = r /\ Asked(p) = [host |-> url[p].host, path |-> Collapse(r)]
           /\ MapRemoteUrl(url[p]) # Refused =>
                MapRemoteUrl(url[p]) = Mapping(url[p].host, r, << >>)
           /\ path[p] # << >> => \E s \in Services : IsRequest(path[p], r, s)
  <1>1. url[p] \in Urls /\ (path[p] # << >> => path[p] \in RequestPaths(url[p]))
    BY DEF NameInv, Known
  <1>2. PICK u \in Urls : u = url[p]
    BY <1>1
  <1>3. PICK r \in Repos :
          /\ u.path \in Spellings(r) /\ u.host \in Hosts
          /\ StripGitSuffix(u.path) = r /\ StripGitSuffix(Collapse(u.path)) = Collapse(r)
          /\ \A at \in RequestPaths(u) : \E s \in Services : IsRequest(at, r, s)
    BY UrlNames
  <1>4. Written(p) = r /\ Asked(p) = [host |-> u.host, path |-> Collapse(r)]
    BY <1>2, <1>3 DEF Written, Asked
  <1>5. MapRemoteUrl(u) # Refused => MapRemoteUrl(u) = Mapping(u.host, r, << >>)
    BY <1>3 DEF MapRemoteUrl
  <1>6. path[p] # << >> => \E s \in Services : IsRequest(path[p], r, s)
    BY <1>1, <1>2, <1>3
  <1> QED
    BY <1>2, <1>3, <1>4, <1>5, <1>6

(* What GitLab or the provider gives is what it was asked for, or nothing.  *)
LEMMA Given ==
  ASSUME NameInv, NEW h \in Hosts, NEW t
  PROVE  LET q == [host |-> h, path |-> t]
         IN /\ \A a \in {FromGitLab(q), FromUpstream(q)} :
                 a = Missing \/ (a = q /\ t \in Existing)
            /\ q \in Projects => FromGitLab(q) = q
            /\ t \in Existing => FromUpstream(q) = q /\ q # Missing
  <1> DEFINE q == [host |-> h, path |-> t]
  <1>1. \A m \in mirrored : m.project = m.content /\ m.content \in [host : Hosts, path : Existing]
    BY DEF NameInv, Pushed
  <1>2. ASSUME q \in Projects
        PROVE  FromGitLab(q) = q /\ t \in Existing
    <2> DEFINE m == CHOOSE m \in mirrored : m.project = q
    <2>1. m \in mirrored /\ m.project = q
      BY <1>2 DEF Projects
    <2>2. FromGitLab(q) = m.content
      BY <1>2 DEF FromGitLab
    <2> HIDE DEF m
    <2>3. m.content = q /\ m.content \in [host : Hosts, path : Existing]
      BY <1>1, <2>1
    <2> QED
      BY <2>2, <2>3
  <1>3. q \notin Projects => FromGitLab(q) = Missing
    BY DEF FromGitLab
  <1>4. \A c \in Existing : c \in Paths
    BY RepoFacts, CollapseFacts DEF Existing
  <1>5. t \in Existing => q # Missing
    BY <1>4, UrlAssumption DEF Paths
  <1>6. FromUpstream(q) = IF q # Missing /\ t \in Existing THEN q ELSE Missing
    BY DEF FromUpstream
  <1> HIDE DEF q
  <1> QED
    BY <1>2, <1>3, <1>5, <1>6 DEF q

LEMMA AnswerFits ==
  ASSUME NameInv, NEW p \in Parties, Answer(p)
  PROVE  /\ ~DotGitFirst(Written(p)) => answer'[p] \in {Asked(p), Missing}
         /\ Supported(p) /\ ~Misread(Written(p)) => answer'[p] # Missing
  <1> DEFINE m == map[p]
             h == url[p].host
             given == IF m.project \in Projects THEN FromGitLab(Repository(ProjectBase(m)))
                      ELSE FromUpstream(Repository(RemoteBase(m)))
  <1>1. answer'[p] = given
    BY DEF Answer, NameInv
  <1>2. step[p] \in {"mapped", "mirrored"} /\ path[p] # << >> /\ IsMapped(p) /\ step[p] # "idle"
    BY DEF Answer, IsMapped
  <1>3. PICK r \in Repos :
          /\ h \in Hosts
          /\ Written(p) = r /\ Asked(p) = [host |-> h, path |-> Collapse(r)]
          /\ \E s \in Services : IsRequest(path[p], r, s)
    BY <1>2, Requested
  <1>4. PICK s \in Services : IsRequest(path[p], r, s)
    BY <1>3
  <1> DEFINE split == SplitRepoAndSuffix(path[p])
             k     == split.repo
             e     == split.suffix
  <1>5. m # Refused /\ m = MapGatewayPath(h, path[p])
    BY <1>2 DEF NameInv, Known, MapOf
  <1>6. HasOwner(k) /\ m = Mapping(h, k, e)
    BY <1>5 DEF MapGatewayPath
  <1>7. /\ m.host = h /\ m.repo = k /\ m.suffix = e
        /\ m.project = [host |-> h, path |-> Collapse(k)] /\ m.project.path = Collapse(k)
    BY <1>6, MappingFields
  <1>8. /\ Repository(ProjectBase(m)) = Ask(h, Collapse(k), e)
        /\ Repository(RemoteBase(m)) = Ask(h, k, e)
    BY <1>7 DEF ProjectBase, RemoteBase, Ask
  <1> HIDE DEF m, h, split
  <1>9. ASSUME ~DotGitFirst(r)
        PROVE  given \in {[host |-> h, path |-> Collapse(r)], Missing}
    <2>1. ASSUME NEW b \in {k, Collapse(k)}
          PROVE  LET q == Ask(h, b, e)
                 IN \A a \in {FromGitLab(q), FromUpstream(q)} :
                      a \in {[host |-> h, path |-> Collapse(r)], Missing}
      <3>0. \A a \in {k, Collapse(k)} : \A l :
              \E t \in Paths : /\ Ask(l, a, e) = [host |-> l, path |-> t]
                               /\ t = Collapse(r) \/ t \notin Existing
        BY <1>4, <1>6, <1>9, NothingElse DEF split
      <3> HIDE DEF k, e
      <3>1. PICK t \in Paths : /\ Ask(h, b, e) = [host |-> h, path |-> t]
                               /\ t = Collapse(r) \/ t \notin Existing
        BY <3>0
      <3>2. LET q == [host |-> h, path |-> t]
            IN \A a \in {FromGitLab(q), FromUpstream(q)} : a = Missing \/ (a = q /\ t \in Existing)
        BY <1>3, Given
      <3> QED
        BY <3>1, <3>2
    <2> QED
      BY <1>8, <2>1
  <1>10. ASSUME Supported(p), ~Misread(r)
         PROVE  given # Missing
    <2>1. k = r /\ e = s
      BY <1>4, <1>10, ClearCut DEF split
    <2> DEFINE q == [host |-> h, path |-> Collapse(r)]
    <2>2. Repository(ProjectBase(m)) = q /\ Repository(RemoteBase(m)) = q /\ m.project = q
      BY <1>7, <1>8, <2>1, WholeName
    <2>3. Collapse(r) \in Existing
      BY DEF Existing
    <2>4. FromUpstream(q) = q /\ q # Missing /\ (q \in Projects => FromGitLab(q) = q)
      BY <1>3, <2>3, Given
    <2> HIDE DEF q
    <2> QED
      BY <2>2, <2>4
  <1> HIDE DEF given
  <1> QED
    BY <1>1, <1>3, <1>9, <1>10

LEMMA NameInit == Init => NameInv
  <1> SUFFICES ASSUME Init PROVE NameInv
    OBVIOUS
  <1>1. MapInv
    BY MapInit
  <1>2. /\ step = [p \in Parties |-> "idle"] /\ path = [p \in Parties |-> << >>]
        /\ DOMAIN answer = Parties /\ mirrored = {}
    BY DEF Init
  <1> QED
    BY <1>1, <1>2 DEF NameInv, Known, Answered, Pushed, IsMapped

(* A party that takes no step knows what it knew.                           *)
LEMMA Untouched ==
  ASSUME NEW p \in Parties, Known(p), Answered(p),
         step'[p] = step[p], url'[p] = url[p], path'[p] = path[p], map'[p] = map[p],
         answer'[p] = answer[p]
  PROVE  Known(p)' /\ Answered(p)'
  BY DEF Known, Answered, MapOf, IsMapped, Written, Asked, Supported

LEMMA NameStep == NameInv /\ [Next]_vars => NameInv'
  <1> SUFFICES ASSUME NameInv, [Next]_vars PROVE NameInv'
    OBVIOUS
  <1>0. /\ MapInv' /\ DOMAIN step = Parties /\ DOMAIN url = Parties /\ DOMAIN path = Parties
        /\ DOMAIN map = Parties /\ DOMAIN answer = Parties
    BY MapStep DEF NameInv, MapInv
  <1>1. ASSUME NEW p \in Parties, SendRequest(p) PROVE NameInv'
    <2>1. PICK u, at :
            /\ u \in Urls /\ at \in RequestPaths(u)
            /\ url' = [url EXCEPT ![p] = u] /\ path' = [path EXCEPT ![p] = at]
      BY <1>1 DEF SendRequest
    <2>2. step' = [step EXCEPT ![p] = "sent"] /\ UNCHANGED <<map, answer, mirrored>>
      BY <1>1 DEF SendRequest
    <2>3. at # << >>
      <3>0. PICK r \in Repos : \E s \in Services : IsRequest(at, r, s)
        BY <2>1, UrlNames
      <3>1. PICK x \in {r, r \o <<".git">>}, s \in Services : at = x \o s
        BY <3>0 DEF IsRequest
      <3>2. x \in Paths /\ s \in Paths /\ Len(s) >= 1
        <4>1. r \in Paths
          BY RepoFacts
        <4>2. r \o <<".git">> \in Paths
          BY <4>1, WithDotGit
        <4>3. s \in Paths /\ Len(s) \in {2, 4}
          BY ServiceFacts
        <4>4. x = r \/ x = r \o <<".git">>
          OBVIOUS
        <4>5. x \in Paths
          BY <4>1, <4>2, <4>4
        <4>6. Len(s) >= 1
          BY <4>3
        <4> QED
          BY <4>3, <4>5, <4>6
      <3>3. Len(x \o s) = Len(x) + Len(s) /\ Len(x) \in Nat /\ Len(s) \in Nat
        BY <3>2, Joined, PathFacts
      <3> QED
        BY <3>1, <3>2, <3>3
    <2>4. Known(p)' /\ Answered(p)'
      BY <1>0, <2>1, <2>2, <2>3 DEF Known, Answered, IsMapped
    <2>5. ASSUME NEW q \in Parties, q # p PROVE Known(q)' /\ Answered(q)'
      BY <1>0, <2>1, <2>2, <2>5, Untouched DEF NameInv
    <2> QED
      BY <1>0, <2>2, <2>4, <2>5 DEF NameInv, Pushed
  <1>2. ASSUME NEW p \in Parties, MapRequest(p) PROVE NameInv'
    <2>1. PICK m : m = MapGatewayPath(url[p].host, path[p])
      OBVIOUS
    <2>2. /\ step[p] = "sent" /\ map' = [map EXCEPT ![p] = m]
          /\ UNCHANGED <<url, path, answer, mirrored>>
          /\ step' = [step EXCEPT ![p] = IF m = Refused THEN "refused" ELSE "mapped"]
      BY <1>2, <2>1 DEF MapRequest, Mapped
    <2>3. url[p] \in Urls /\ path[p] # << >> /\ path[p] \in RequestPaths(url[p])
      BY <2>2 DEF NameInv, Known
    <2>4. MapOf(p)' = m
      BY <2>1, <2>2, <2>3 DEF MapOf
    <2>5. Known(p)' /\ Answered(p)'
      BY <1>0, <2>2, <2>3, <2>4 DEF Known, Answered, IsMapped
    <2>6. ASSUME NEW q \in Parties, q # p PROVE Known(q)' /\ Answered(q)'
      BY <1>0, <2>2, <2>6, Untouched DEF NameInv
    <2> QED
      BY <1>0, <2>2, <2>5, <2>6 DEF NameInv, Pushed
  <1>3. ASSUME NEW p \in Parties, Command(p) PROVE NameInv'
    <2>1. PICK u \in Urls : url' = [url EXCEPT ![p] = u] /\ Mapped(p, MapRemoteUrl(u))
      BY <1>3 DEF Command
    <2>2. PICK m : m = MapRemoteUrl(u)
      OBVIOUS
    <2>3. /\ step[p] = "idle" /\ map' = [map EXCEPT ![p] = m]
          /\ UNCHANGED <<path, answer, mirrored>>
          /\ step' = [step EXCEPT ![p] = IF m = Refused THEN "refused" ELSE "mapped"]
      BY <1>3, <2>1, <2>2 DEF Command, Mapped
    <2>4. path[p] = << >>
      BY <2>3 DEF NameInv, MapInv
    <2>5. MapOf(p)' = m
      BY <1>0, <2>1, <2>2, <2>3, <2>4 DEF MapOf
    <2>6. Known(p)' /\ Answered(p)'
      BY <1>0, <2>1, <2>3, <2>4, <2>5 DEF Known, Answered, IsMapped
    <2>7. ASSUME NEW q \in Parties, q # p PROVE Known(q)' /\ Answered(q)'
      BY <1>0, <2>1, <2>3, <2>7, Untouched DEF NameInv
    <2> QED
      BY <1>0, <2>3, <2>6, <2>7 DEF NameInv, Pushed
  <1>4. ASSUME NEW p \in Parties, Mirror(p) PROVE NameInv'
    <2>1. /\ step[p] = "mapped" /\ step' = [step EXCEPT ![p] = "mirrored"]
          /\ UNCHANGED <<url, path, map, answer>>
      BY <1>4 DEF Mirror
    <2>2. MapOf(p)' = MapOf(p)
      BY <2>1 DEF MapOf
    <2>3. Known(p)' /\ Answered(p)'
      BY <1>0, <2>1, <2>2 DEF NameInv, Known, Answered, IsMapped
    <2>4. ASSUME NEW q \in Parties, q # p PROVE Known(q)' /\ Answered(q)'
      BY <1>0, <2>1, <2>4, Untouched DEF NameInv
    <2>5. Pushed'
      <3> DEFINE c == [host |-> map[p].host, path |-> Collapse(map[p].repo)]
                 n == [project |-> map[p].project, content |-> c]
      <3>1. IsMapping(map[p])
        BY <2>1 DEF NameInv, MapInv, IsMapped
      <3>2. map[p].project = c /\ map[p].host \in Hosts
        <4>1. PICK h, r, s : h = map[p].host /\ r = map[p].repo /\ s = map[p].suffix
          OBVIOUS
        <4>2. map[p] = Mapping(h, r, s) /\ h \in ProviderHosts
          BY <3>1, <4>1 DEF IsMapping
        <4> QED
          BY <4>1, <4>2, MappingFields, UrlAssumption
      <3>3. Collapse(map[p].repo) \in Existing /\ mirrored' = mirrored \cup {n}
        BY <1>4 DEF Mirror
      <3>4. n.project = n.content /\ n.content \in [host : Hosts, path : Existing]
        BY <3>2, <3>3
      <3> HIDE DEF n
      <3>5. \A m \in mirrored' :
              m.project = m.content /\ m.content \in [host : Hosts, path : Existing]
        BY <3>3, <3>4 DEF NameInv, Pushed
      <3> QED
        BY <3>5 DEF Pushed, Existing
    <2> QED
      BY <1>0, <2>1, <2>3, <2>4, <2>5 DEF NameInv
  <1>5. ASSUME NEW p \in Parties, Answer(p) PROVE NameInv'
    <2>1. /\ step[p] \in {"mapped", "mirrored"} /\ step' = [step EXCEPT ![p] = "answered"]
          /\ UNCHANGED <<url, path, map, mirrored>>
          /\ DOMAIN answer' = DOMAIN answer
          /\ \A q \in Parties : q # p => answer'[q] = answer[q]
      BY <1>0, <1>5 DEF Answer
    <2>2. MapOf(p)' = MapOf(p)
      BY <2>1 DEF MapOf
    <2>3. Known(p)'
      BY <1>0, <2>1, <2>2 DEF NameInv, Known, IsMapped
    <2>4. Answered(p)'
      <3>1. /\ ~DotGitFirst(Written(p)) => answer'[p] \in {Asked(p), Missing}
            /\ Supported(p) /\ ~Misread(Written(p)) => answer'[p] # Missing
        BY <1>5, AnswerFits
      <3>2. Written(p)' = Written(p) /\ Asked(p)' = Asked(p) /\ Supported(p)' = Supported(p)
        BY <2>1 DEF Written, Asked, Supported
      <3> QED
        BY <3>1, <3>2 DEF Answered
    <2>5. ASSUME NEW q \in Parties, q # p PROVE Known(q)' /\ Answered(q)'
      BY <1>0, <2>1, <2>5, Untouched DEF NameInv
    <2> QED
      BY <1>0, <2>1, <2>3, <2>4, <2>5 DEF NameInv, Pushed
  <1>6. CASE UNCHANGED vars
    <2>1. UNCHANGED <<step, url, path, map, answer, mirrored>>
      BY <1>6 DEF vars
    <2>2. ASSUME NEW q \in Parties PROVE Known(q)' /\ Answered(q)'
      BY <2>1, Untouched DEF NameInv
    <2> QED
      BY <1>0, <2>1, <2>2 DEF NameInv, Pushed
  <1> QED
    BY <1>1, <1>2, <1>3, <1>4, <1>5, <1>6 DEF Next

LEMMA Names == Spec => []NameInv
  BY NameInit, NameStep, PTL DEF Spec

(* A client never gets refs or objects of another repository than the one   *)
(* its URL names, unless a name in it begins with ".git".                   *)
THEOREM OnlyTheNamedOne == Spec => []NeverAnotherRepository
  <1>1. NameInv => NeverAnotherRepository
    BY DEF NameInv, Answered, NeverAnotherRepository
  <1> QED
    BY <1>1, Names, PTL

(* Without a ".git" or a service in its name, no repository of a supported  *)
(* provider is refused, and none is missed.                                 *)
THEOREM NoneLost == Spec => []LostOnlyByItsName
  <1>1. ASSUME NameInv, NEW p \in Parties, path[p] # << >>, Supported(p), ~Misread(Written(p))
        PROVE  step[p] # "refused" /\ ~(step[p] = "answered" /\ answer[p] = Missing)
    <2>1. ASSUME step[p] = "refused" PROVE FALSE
      <3> DEFINE h == url[p].host
      <3>1. PICK r \in Repos :
              /\ Written(p) = r /\ Asked(p) = [host |-> h, path |-> Collapse(r)]
              /\ \E s \in Services : IsRequest(path[p], r, s)
        BY <1>1, <2>1, Requested
      <3>2. PICK s \in Services : IsRequest(path[p], r, s)
        BY <3>1
      <3>3. MapGatewayPath(h, path[p]) = Refused
        BY <1>1, <2>1 DEF NameInv, Known, MapOf
      <3>4. SplitRepoAndSuffix(path[p]).repo = r /\ SplitRepoAndSuffix(path[p]).suffix = s
        BY <1>1, <3>1, <3>2, ClearCut
      <3>5. h \in ProviderHosts /\ HasOwner(Collapse(r))
        BY <1>1, <3>1 DEF Supported
      <3>6. r \in Paths /\ s \in Paths
        BY RepoFacts, ServiceFacts
      <3>7. HasOwner(r)
        BY <3>5, <3>6, OwnerBefore
      <3>8. MapGatewayPath(h, path[p]) = Mapping(h, r, s)
        BY <3>4, <3>5, <3>7 DEF MapGatewayPath
      <3> QED
        BY <3>3, <3>5, <3>6, <3>8, NeverRefused
    <2> QED
      BY <1>1, <2>1 DEF NameInv, Answered
  <1>2. NameInv => LostOnlyByItsName
    BY <1>1 DEF LostOnlyByItsName
  <1> QED
    BY <1>2, Names, PTL

(* All ways to a repository meet at one project and one directory, and at   *)
(* one lock if no slash is doubled.                                         *)
THEOREM OneNameOneLock == Spec => []OneRepositoryOneLock
  <1>1. ASSUME NameInv, NEW p \in Parties, IsMapped(p), ~Misread(Written(p))
        PROVE  \E r \in Repos, s \in Services \cup {<< >>} :
                 /\ url[p].path \in Spellings(r)
                 /\ Asked(p) = [host |-> url[p].host, path |-> Collapse(r)]
                 /\ map[p] = Mapping(url[p].host, r, s)
    <2> DEFINE h == url[p].host
    <2>1. step[p] # "idle" /\ map[p] # Refused /\ map[p] = MapOf(p)
      BY <1>1 DEF IsMapped, NameInv, Known
    <2>2. PICK r \in Repos :
            /\ url[p].path \in Spellings(r)
            /\ Written(p) = r /\ Asked(p) = [host |-> h, path |-> Collapse(r)]
            /\ MapRemoteUrl(url[p]) # Refused => MapRemoteUrl(url[p]) = Mapping(h, r, << >>)
            /\ path[p] # << >> => \E s \in Services : IsRequest(path[p], r, s)
      BY <1>1, <2>1, Requested
    <2>3. CASE path[p] = << >>
      <3>1. map[p] = Mapping(h, r, << >>)
        BY <2>1, <2>2, <2>3 DEF MapOf
      <3> QED
        BY <2>2, <3>1
    <2>4. CASE path[p] # << >>
      <3>1. PICK s \in Services : IsRequest(path[p], r, s)
        BY <2>2, <2>4
      <3>2. MapGatewayPath(h, path[p]) # Refused /\ map[p] = MapGatewayPath(h, path[p])
        BY <2>1, <2>4 DEF MapOf
      <3>3. SplitRepoAndSuffix(path[p]).repo = r /\ SplitRepoAndSuffix(path[p]).suffix = s
        BY <1>1, <2>2, <3>1, ClearCut
      <3>4. map[p] = Mapping(h, r, s)
        BY <3>2, <3>3 DEF MapGatewayPath
      <3> QED
        BY <2>2, <3>4
    <2> QED
      BY <2>3, <2>4
  <1>2. ASSUME NameInv, NEW p \in Parties, NEW q \in Parties,
               IsMapped(p), IsMapped(q), Asked(p) = Asked(q),
               ~Misread(Written(p)), ~Misread(Written(q))
        PROVE  /\ map[p].project = map[q].project
               /\ MirrorDir(map[p]) = MirrorDir(map[q])
               /\ \/ LockName(map[p]) = LockName(map[q])
                  \/ EmptySegment(url[p].path) \/ EmptySegment(url[q].path)
    <2>1. PICK r \in Repos, s \in Services \cup {<< >>} :
            /\ url[p].path \in Spellings(r)
            /\ Asked(p) = [host |-> url[p].host, path |-> Collapse(r)]
            /\ map[p] = Mapping(url[p].host, r, s)
      BY <1>1, <1>2
    <2>2. PICK k \in Repos, e \in Services \cup {<< >>} :
            /\ url[q].path \in Spellings(k)
            /\ Asked(q) = [host |-> url[q].host, path |-> Collapse(k)]
            /\ map[q] = Mapping(url[q].host, k, e)
      BY <1>1, <1>2
    <2>3. url[p].host = url[q].host /\ Collapse(r) = Collapse(k)
      <3>1. Asked(p).host = url[p].host /\ Asked(p).path = Collapse(r)
        BY <2>1
      <3>2. Asked(q).host = url[q].host /\ Asked(q).path = Collapse(k)
        BY <2>2
      <3> QED
        BY <1>2, <3>1, <3>2
    <2>4. /\ map[p].host = url[p].host /\ map[p].repo = r
          /\ map[p].project = [host |-> url[p].host, path |-> Collapse(r)]
          /\ map[q].host = url[q].host /\ map[q].repo = k
          /\ map[q].project = [host |-> url[q].host, path |-> Collapse(k)]
      BY <2>1, <2>2, MappingFields
    <2>5. /\ Collapse(r \o <<".git">>) = Collapse(r) \o <<".git">>
          /\ Collapse(k \o <<".git">>) = Collapse(k) \o <<".git">>
      BY RepoFacts, CollapseWithDotGit
    <2>6. MirrorDir(map[p]) = MirrorDir(map[q])
      BY <2>3, <2>4, <2>5 DEF MirrorDir
    <2>7. ASSUME ~EmptySegment(url[p].path), ~EmptySegment(url[q].path)
          PROVE  LockName(map[p]) = LockName(map[q])
      <3>1. r = k
        BY <2>1, <2>2, <2>3, <2>7, SingleSlashes
      <3> QED
        BY <2>3, <2>4, <3>1 DEF LockName
    <2> QED
      BY <2>3, <2>4, <2>6, <2>7
  <1>3. NameInv => OneRepositoryOneLock
    BY <1>2 DEF OneRepositoryOneLock
  <1> QED
    BY <1>3, Names, PTL

=============================================================================
