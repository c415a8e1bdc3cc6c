-------------------------- MODULE GitLabTree_proofs --------------------------
(***************************************************************************)
(* Proofs of what GitLabNamespace makes of the tree of groups, and of the  *)
(* walk that enforces one visibility in it, for any tree, any jobs and any *)
(* order in which GitLab lists what is in a group.                         *)
(***************************************************************************)
EXTENDS GitLabNamespace_proofs, FiniteSetTheorems, SequenceTheorems

-----------------------------------------------------------------------------
(* The tree. *)

(* The groups of a path are groups; there is at least one.                  *)
LEMMA Paths ==
  ASSUME NEW p \in Projects
  PROVE  /\ Path[p] \in Seq(Groups) /\ Len(Path[p]) \in Nat /\ Len(Path[p]) >= 1
         /\ \A i \in 1 .. Len(Path[p]) : Path[p][i] \in Groups
         /\ Path[p][1] = Root
  <1>1. Path[p] \in Seq(Groups) /\ Path[p] # << >> /\ Path[p][1] = Root
    BY NamespaceAssumption
  <1> QED
    BY <1>1, LenProperties, ElementOfSeq, EmptySeq

(* The same group is at the same place of every path it is on.              *)
LEMMA SamePlace ==
  ASSUME NEW p \in Projects, NEW q \in Projects,
         NEW i \in 1 .. Len(Path[p]), NEW k \in 1 .. Len(Path[q]), Path[p][i] = Path[q][k]
  PROVE  i = k /\ \A m \in 1 .. i : Path[p][m] = Path[q][m]
  BY NamespaceAssumption

LEMMA Parents ==
  ASSUME NEW g, NEW h
  PROVE  IsParent(g, h) <=> \E p \in Projects : \E i \in 1 .. Len(Path[p]) - 1 :
                              g = Path[p][i] /\ h = Path[p][i + 1]
  BY DEF IsParent, Nesting

(* What is above a place of a path is on that path.                         *)
LEMMA ParentOfPlace ==
  ASSUME NEW p \in Projects, NEW i \in 1 .. Len(Path[p]), NEW h, IsParent(h, Path[p][i])
  PROVE  i - 1 \in 1 .. Len(Path[p]) /\ h = Path[p][i - 1]
  <1>1. PICK q \in Projects, k \in Nat :
          k \in 1 .. Len(Path[q]) - 1 /\ h = Path[q][k] /\ Path[p][i] = Path[q][k + 1]
    BY Parents, Paths
  <1>2. k + 1 \in 1 .. Len(Path[q]) /\ Len(Path[p]) \in Nat /\ Len(Path[q]) \in Nat
    BY <1>1, Paths
  <1>3. i = k + 1 /\ \A m \in 1 .. i : Path[p][m] = Path[q][m]
    BY <1>1, <1>2, SamePlace
  <1> QED
    BY <1>1, <1>2, <1>3

LEMMA AboveOfPlace ==
  ASSUME NEW p \in Projects, NEW i \in 1 .. Len(Path[p]), NEW h, IsAbove(h, Path[p][i])
  PROVE  \E m \in 1 .. i - 1 : h = Path[p][m]
  <1>1. PICK q \in Projects, k \in Nat :
          /\ k \in 1 .. Len(Path[q]) /\ Path[q][k] = Path[p][i]
          /\ \E m \in 1 .. k - 1 : Path[q][m] = h
    BY Paths DEF IsAbove
  <1>2. i = k /\ \A m \in 1 .. i : Path[p][m] = Path[q][m]
    BY <1>1, SamePlace
  <1>3. Len(Path[p]) \in Nat
    BY Paths
  <1> QED
    BY <1>1, <1>2, <1>3

LEMMA PlaceAbove ==
  ASSUME NEW p \in Projects, NEW i \in 1 .. Len(Path[p]), NEW k \in 1 .. Len(Path[p]), i < k
  PROVE  IsAbove(Path[p][i], Path[p][k])
  <1>1. Len(Path[p]) \in Nat
    BY Paths
  <1> QED
    BY <1>1 DEF IsAbove

(* A parent is a group above; it is the nearest.                            *)
LEMMA ParentAbove ==
  ASSUME NEW g, NEW h, IsParent(g, h)
  PROVE  IsAbove(g, h) /\ g \in Groups /\ h \in Groups
  <1>1. PICK p \in Projects, i \in Nat :
          i \in 1 .. Len(Path[p]) - 1 /\ g = Path[p][i] /\ h = Path[p][i + 1]
    BY Parents, Paths
  <1>2. /\ i \in 1 .. Len(Path[p]) /\ i + 1 \in 1 .. Len(Path[p]) /\ i < i + 1
        /\ \A m \in 1 .. Len(Path[p]) : Path[p][m] \in Groups
    BY <1>1, Paths
  <1> QED
    BY <1>1, <1>2, PlaceAbove

LEMMA AboveByParent ==
  ASSUME NEW h, NEW a, IsAbove(a, h)
  PROVE  \E g \in Groups : IsParent(g, h) /\ (a = g \/ IsAbove(a, g))
  <1>1. PICK p \in Projects, k \in Nat, m \in Nat :
          k \in 1 .. Len(Path[p]) /\ m \in 1 .. k - 1 /\ Path[p][k] = h /\ Path[p][m] = a
    BY Paths DEF IsAbove
  <1>2. /\ Len(Path[p]) \in Nat /\ k - 1 \in 1 .. Len(Path[p]) - 1 /\ m \in 1 .. Len(Path[p])
        /\ k - 1 \in 1 .. Len(Path[p]) /\ Path[p][k - 1] \in Groups
    BY <1>1, Paths
  <1>3. IsParent(Path[p][k - 1], h)
    <2>1. h = Path[p][(k - 1) + 1]
      BY <1>1
    <2> QED
      BY <1>2, <2>1, Parents
  <1>4. a = Path[p][k - 1] \/ IsAbove(a, Path[p][k - 1])
    <2>1. m = k - 1 \/ m < k - 1
      BY <1>1
    <2> QED
      BY <1>1, <1>2, <2>1, PlaceAbove
  <1> QED
    BY <1>2, <1>3, <1>4

(* What is below a group is in it or below a group that is in it.           *)
LEMMA AboveByChild ==
  ASSUME NEW g, NEW x, IsAbove(g, x)
  PROVE  \E h \in Groups : IsParent(g, h) /\ (x = h \/ IsAbove(h, x))
  <1>1. PICK p \in Projects, k \in Nat, i \in Nat :
          k \in 1 .. Len(Path[p]) /\ i \in 1 .. k - 1 /\ Path[p][k] = x /\ Path[p][i] = g
    BY Paths DEF IsAbove
  <1>2. /\ Len(Path[p]) \in Nat /\ i \in 1 .. Len(Path[p]) - 1 /\ i + 1 \in 1 .. Len(Path[p])
        /\ Path[p][i + 1] \in Groups
    BY <1>1, Paths
  <1>3. IsParent(g, Path[p][i + 1])
    BY <1>1, <1>2, Parents
  <1>4. CASE k = i + 1
    BY <1>1, <1>2, <1>3, <1>4
  <1>5. CASE i + 1 < k
    BY <1>1, <1>2, <1>3, <1>5, PlaceAbove
  <1> QED
    BY <1>1, <1>2, <1>4, <1>5

(* A group is in one group, and the root group in none.                     *)
LEMMA OneParent ==
  ASSUME NEW a, NEW g, NEW h, IsParent(a, h), IsParent(g, h)
  PROVE  a = g
  <1>1. PICK p \in Projects, i \in Nat :
          i \in 1 .. Len(Path[p]) - 1 /\ g = Path[p][i] /\ h = Path[p][i + 1]
    BY Parents, Paths
  <1>2. i + 1 \in 1 .. Len(Path[p])
    BY <1>1, Paths
  <1>3. a = Path[p][(i + 1) - 1]
    BY <1>1, <1>2, ParentOfPlace
  <1> QED
    BY <1>1, <1>3

LEMMA RootIsTop ==
  ASSUME NEW h, IsParent(h, Root)
  PROVE  FALSE
  <1>1. PICK q \in Projects, k \in Nat :
          k \in 1 .. Len(Path[q]) - 1 /\ Root = Path[q][k + 1]
    BY Parents, Paths
  <1>2. /\ k + 1 \in 1 .. Len(Path[q]) /\ 1 \in 1 .. Len(Path[q])
        /\ Path[q][k + 1] = Path[q][1]
    BY <1>1, Paths
  <1>3. k + 1 = 1
    BY <1>2, SamePlace
  <1> QED
    BY <1>1, <1>3

(* What is in a group, or in a group below it.                              *)
Within(g, x) ==
  \/ IsAbove(g, x)
  \/ x \in Projects /\ \E i \in 1 .. Len(Path[x]) : Path[x][i] = g

LEMMA WithinByChild ==
  ASSUME NEW g, NEW x, Within(g, x)
  PROVE  \/ x \in Projects /\ Namespace(x) = g
         \/ \E h \in Groups : IsParent(g, h) /\ (x = h \/ Within(h, x))
  <1>1. CASE IsAbove(g, x)
    BY <1>1, AboveByChild DEF Within
  <1>2. ASSUME x \in Projects, NEW i \in 1 .. Len(Path[x]), Path[x][i] = g
        PROVE  \/ Namespace(x) = g
               \/ \E h \in Groups : IsParent(g, h) /\ Within(h, x)
    <2>1. Len(Path[x]) \in Nat
      BY <1>2, Paths
    <2>2. CASE i = Len(Path[x])
      BY <1>2, <2>2 DEF Namespace
    <2>3. CASE i < Len(Path[x])
      <3>1. i \in 1 .. Len(Path[x]) - 1 /\ i + 1 \in 1 .. Len(Path[x])
        BY <2>1, <2>3
      <3>2. IsParent(g, Path[x][i + 1]) /\ Path[x][i + 1] \in Groups
        BY <1>2, <3>1, Parents, Paths
      <3> QED
        BY <1>2, <3>1, <3>2 DEF Within
    <2> QED
      BY <2>1, <2>2, <2>3
  <1> QED
    BY <1>1, <1>2 DEF Within

(* Everything is within the root group.                                     *)
LEMMA WithinRoot ==
  ASSUME NEW x \in Groups \cup Projects, x # Root
  PROVE  Within(Root, x)
  <1>1. CASE x \in Projects
    <2>1. 1 \in 1 .. Len(Path[x]) /\ Path[x][1] = Root
      BY <1>1, Paths
    <2> QED
      BY <1>1, <2>1 DEF Within
  <1>2. CASE x \in Groups
    <2>1. PICK p \in Projects, i \in Nat : i \in 1 .. Len(Path[p]) /\ x = Path[p][i]
      BY <1>2, NamespaceAssumption, Paths
    <2>2. Len(Path[p]) \in Nat /\ Len(Path[p]) >= 1 /\ Path[p][1] = Root
      BY Paths
    <2>3. 1 \in 1 .. Len(Path[p]) /\ 1 < i
      BY <2>1, <2>2
    <2> QED
      BY <2>1, <2>2, <2>3, PlaceAbove DEF Within
  <1> QED
    BY <1>1, <1>2

-----------------------------------------------------------------------------
(* What steps make of the tree. *)

LevelsTyped ==
  /\ permitted \subseteq Levels
  /\ fallback \in Levels \cup {NoLevel}
  /\ own \in [Jobs -> Projects]
  /\ group \in [Groups -> Levels \cup {NoLevel}]
  /\ project \in [Projects -> Levels \cup {NoLevel}]

TreeOK == LevelsTyped /\ WellPlaced

(* GitLab carries out at most one call at a time: a group or project is     *)
(* created, or set to the configured level.                                 *)
GroupGrows ==
  \E g \in Groups, v \in Levels :
    /\ GroupAt(g, v)
    /\ v = Desired \/ group[g] = NoLevel
    /\ \A h \in Groups : IsParent(h, g) => group[h] # NoLevel /\ v <= group[h]
    /\ CoversContent(g, v)

ProjectGrows ==
  \E p \in Projects, v \in Levels :
    /\ ProjectAt(p, v)
    /\ v = Desired \/ project[p] = NoLevel
    /\ group[Namespace(p)] # NoLevel /\ v <= group[Namespace(p)]

Grows == GroupGrows \/ ProjectGrows \/ UNCHANGED <<group, project>>

(* Nothing is taken away, and nothing loses the configured level.           *)
Rises ==
  /\ \A g \in Groups : group[g] # NoLevel => group'[g] # NoLevel
  /\ \A g \in Groups : group[g] = Desired => group'[g] = Desired
  /\ \A p \in Projects : project[p] # NoLevel => project'[p] # NoLevel
  /\ \A p \in Projects : project[p] = Desired => project'[p] = Desired

LEMMA LevelNumbers ==
  /\ NoLevel \notin Nat
  /\ Desired \in Levels
  BY NamespaceAssumption

(* A group that grows stays below what it is in, and above its content.     *)
LEMMA GroupPlaced ==
  ASSUME TreeOK, NEW g \in Groups, NEW v \in Levels, GroupAt(g, v),
         \A h \in Groups : IsParent(h, g) => group[h] # NoLevel /\ v <= group[h],
         CoversContent(g, v)
  PROVE  WellPlaced'
  <1>1. /\ \A h \in Groups : group[h] \in Levels \cup {NoLevel}
        /\ \A p \in Projects : project[p] \in Levels \cup {NoLevel}
        /\ group' = [group EXCEPT ![g] = v] /\ project' = project /\ DOMAIN group = Groups
    BY DEF TreeOK, LevelsTyped, GroupAt
  <1>2. ASSUME NEW a \in Groups, NEW b \in Groups, IsAbove(a, b), group'[b] # NoLevel
        PROVE  group'[a] # NoLevel /\ group'[b] <= group'[a]
    <2>1. CASE b = g
      <3>1. PICK h \in Groups : IsParent(h, g) /\ (a = h \/ IsAbove(a, h))
        BY <1>2, <2>1, AboveByParent
      <3>2. group[h] # NoLevel /\ v <= group[h]
        BY <3>1
      <3>3. group[a] # NoLevel /\ v <= group[a]
        BY <3>1, <3>2, <1>1, LevelNumbers DEF Levels, TreeOK, WellPlaced
      <3> QED
        BY <2>1, <3>3, <1>1, LevelNumbers DEF Levels
    <2>2. CASE a = g /\ b # g
      <3>1. PICK c \in Groups : IsParent(g, c) /\ (b = c \/ IsAbove(c, b))
        BY <1>2, <2>2, AboveByChild
      <3>2. group[b] # NoLevel
        BY <1>1, <1>2, <2>2
      <3>3. group[b] \in Levels
        BY <1>1, <3>2
      <3>4. group[c] # NoLevel /\ group[b] <= group[c]
        <4>1. CASE b = c
          BY <3>3, <4>1, <3>2, LevelNumbers DEF Levels
        <4>2. CASE IsAbove(c, b)
          BY <3>1, <3>2, <4>2 DEF TreeOK, WellPlaced
        <4> QED
          BY <3>1, <4>1, <4>2
      <3>5. group[c] <= v /\ group[c] \in Levels
        BY <1>1, <3>1, <3>4 DEF CoversContent
      <3>6. group[b] <= v
        BY <3>3, <3>4, <3>5, LevelNumbers DEF Levels
      <3>7. group'[a] = v /\ group'[b] = group[b]
        BY <1>1, <2>2
      <3> QED
        BY <3>6, <3>7, LevelNumbers DEF Levels
    <2>3. CASE a # g /\ b # g
      BY <1>1, <1>2, <2>3 DEF TreeOK, WellPlaced
    <2> QED
      BY <2>1, <2>2, <2>3
  <1>3. ASSUME NEW p \in Projects, project'[p] # NoLevel, NEW i \in 1 .. Len(Path[p])
        PROVE  group'[Path[p][i]] # NoLevel /\ project'[p] <= group'[Path[p][i]]
    <2>1. /\ Path[p][i] \in Groups /\ Len(Path[p]) \in Nat
          /\ project[p] # NoLevel
          /\ group[Path[p][i]] # NoLevel /\ project[p] <= group[Path[p][i]]
      BY <1>1, <1>3, Paths DEF TreeOK, WellPlaced
    <2>2. CASE Path[p][i] # g
      BY <1>1, <2>1, <2>2
    <2>3. CASE Path[p][i] = g /\ i = Len(Path[p])
      <3>1. project[p] <= v
        BY <2>1, <2>3 DEF CoversContent, Namespace
      <3> QED
        BY <1>1, <2>3, <3>1, LevelNumbers DEF Levels
    <2>4. CASE Path[p][i] = g /\ i < Len(Path[p])
      <3>1. i \in 1 .. Len(Path[p]) - 1 /\ i + 1 \in 1 .. Len(Path[p])
        BY <2>1, <2>4
      <3>2. Path[p][i + 1] \in Groups /\ IsParent(g, Path[p][i + 1])
        BY <2>4, <3>1, Parents, Paths
      <3>3. group[Path[p][i + 1]] # NoLevel /\ project[p] <= group[Path[p][i + 1]]
        BY <2>1, <3>1 DEF TreeOK, WellPlaced
      <3>4. group[Path[p][i + 1]] <= v
        BY <3>2, <3>3 DEF CoversContent
      <3>5. project[p] \in Levels /\ group[Path[p][i + 1]] \in Levels
        BY <1>1, <2>1, <3>2, <3>3
      <3>6. project[p] <= v
        BY <3>3, <3>4, <3>5, LevelNumbers DEF Levels
      <3> QED
        BY <1>1, <2>4, <3>6, LevelNumbers DEF Levels
    <2> QED
      BY <2>1, <2>2, <2>3, <2>4
  <1> QED
    BY <1>2, <1>3 DEF WellPlaced

LEMMA ProjectPlaced ==
  ASSUME TreeOK, NEW p \in Projects, NEW v \in Levels, ProjectAt(p, v),
         group[Namespace(p)] # NoLevel, v <= group[Namespace(p)]
  PROVE  WellPlaced'
  <1>1. /\ \A h \in Groups : group[h] \in Levels \cup {NoLevel}
        /\ project' = [project EXCEPT ![p] = v] /\ group' = group /\ DOMAIN project = Projects
    BY DEF TreeOK, LevelsTyped, ProjectAt
  <1>2. ASSUME NEW i \in 1 .. Len(Path[p])
        PROVE  group[Path[p][i]] # NoLevel /\ v <= group[Path[p][i]]
    <2>1. /\ Len(Path[p]) \in Nat /\ Len(Path[p]) \in 1 .. Len(Path[p])
          /\ Path[p][i] \in Groups /\ Namespace(p) \in Groups
      BY Paths DEF Namespace
    <2>2. CASE i = Len(Path[p])
      BY <2>2 DEF Namespace
    <2>3. CASE i < Len(Path[p])
      <3>1. IsAbove(Path[p][i], Namespace(p))
        BY <2>1, <2>3, PlaceAbove DEF Namespace
      <3>2. group[Path[p][i]] # NoLevel /\ group[Namespace(p)] <= group[Path[p][i]]
        BY <2>1, <3>1 DEF TreeOK, WellPlaced
      <3> QED
        BY <1>1, <2>1, <3>2, LevelNumbers DEF Levels
    <2> QED
      BY <2>1, <2>2, <2>3
  <1> QED
    BY <1>1, <1>2 DEF TreeOK, WellPlaced

LEMMA GrowsKeeps ==
  ASSUME TreeOK, Grows, permitted' \subseteq Levels, UNCHANGED <<fallback, own>>
  PROVE  TreeOK' /\ Rises
  <1>1. CASE GroupGrows
    <2>1. PICK g \in Groups, v \in Levels :
            /\ GroupAt(g, v)
            /\ v = Desired \/ group[g] = NoLevel
            /\ \A h \in Groups : IsParent(h, g) => group[h] # NoLevel /\ v <= group[h]
            /\ CoversContent(g, v)
      BY <1>1 DEF GroupGrows
    <2>2. WellPlaced'
      BY <2>1, GroupPlaced
    <2>3. group' = [group EXCEPT ![g] = v] /\ project' = project
      BY <2>1 DEF GroupAt
    <2>4. LevelsTyped'
      BY <2>3 DEF TreeOK, LevelsTyped
    <2>5. Rises
      BY <2>1, <2>3, LevelNumbers DEF Levels, TreeOK, LevelsTyped, Rises
    <2> QED
      BY <2>2, <2>4, <2>5 DEF TreeOK
  <1>2. CASE ProjectGrows
    <2>1. PICK p \in Projects, v \in Levels :
            /\ ProjectAt(p, v)
            /\ v = Desired \/ project[p] = NoLevel
            /\ group[Namespace(p)] # NoLevel /\ v <= group[Namespace(p)]
      BY <1>2 DEF ProjectGrows
    <2>2. WellPlaced'
      BY <2>1, ProjectPlaced
    <2>3. project' = [project EXCEPT ![p] = v] /\ group' = group
      BY <2>1 DEF ProjectAt
    <2>4. LevelsTyped'
      BY <2>3 DEF TreeOK, LevelsTyped
    <2>5. Rises
      BY <2>1, <2>3, LevelNumbers DEF Levels, TreeOK, LevelsTyped, Rises
    <2> QED
      BY <2>2, <2>4, <2>5 DEF TreeOK
  <1>3. CASE UNCHANGED <<group, project>>
    BY <1>3 DEF TreeOK, LevelsTyped, WellPlaced, Rises
  <1> QED
    BY <1>1, <1>2, <1>3 DEF Grows

-----------------------------------------------------------------------------
(* Where the jobs and the enforcer are. *)

Places == {"idle", "group", "postgroup", "fallbackgroup", "setgroup", "create",
           "fallbackproject", "recheck", "setproject", "walk", "done", "failed"}

Made(j, n) == \A i \in 1 .. n : group[Way(j)[i]] # NoLevel

(* The groups a process has passed on its way exist, and what it sets.      *)
OnWay(j) ==
  /\ pc[j] \in Places
  /\ at[j] \in 1 .. Len(Way(j))
  /\ pc[j] \in {"create", "fallbackproject", "recheck", "setproject"} => j \in Jobs
  /\ pc[j] = "walk" => j = Enforcer /\ group[Root] # NoLevel
  /\ pc[j] = "idle" => at[j] = 1
  /\ pc[j] \in {"group", "postgroup", "fallbackgroup"} => Made(j, at[j] - 1)
  /\ pc[j] = "setgroup" => Made(j, at[j])
  /\ pc[j] \in {"create", "fallbackproject", "recheck"} => Made(j, Len(Way(j)))
  /\ pc[j] = "setproject" => project[Own(j)] # NoLevel

Placed ==
  /\ DOMAIN pc = Procs /\ DOMAIN at = Procs
  /\ \A j \in Procs : OnWay(j)

LEMMA Ways ==
  ASSUME own \in [Jobs -> Projects], NEW j \in Procs
  PROVE  /\ Len(Way(j)) \in Nat /\ Len(Way(j)) >= 1 /\ Way(j)[1] = Root
         /\ \A i \in 1 .. Len(Way(j)) : Way(j)[i] \in Groups
         /\ \A i \in 1 .. Len(Way(j)), h \in Groups :
              IsParent(h, Way(j)[i]) => i - 1 \in 1 .. Len(Way(j)) /\ h = Way(j)[i - 1]
         /\ j \in Jobs => Own(j) \in Projects /\ Namespace(Own(j)) = Way(j)[Len(Way(j))]
         /\ j = Enforcer => Len(Way(j)) = 1
  <1>1. CASE j = Enforcer
    <2>1. Way(j) = <<Root>> /\ j \notin Jobs /\ Root \in Groups
      BY <1>1, NamespaceAssumption DEF Way
    <2>2. Len(Way(j)) = 1 /\ Way(j)[1] = Root
      BY <2>1
    <2> QED
      BY <2>1, <2>2, RootIsTop
  <1>2. CASE j # Enforcer
    <2>1. j \in Jobs /\ Own(j) \in Projects /\ Way(j) = Path[Own(j)]
      BY <1>2 DEF Procs, Way, Own
    <2>2. \A i \in 1 .. Len(Way(j)), h \in Groups :
            IsParent(h, Way(j)[i]) => i - 1 \in 1 .. Len(Way(j)) /\ h = Way(j)[i - 1]
      BY <2>1, ParentOfPlace
    <2> QED
      BY <1>2, <2>1, <2>2, Paths DEF Namespace
  <1> QED
    BY <1>1, <1>2

(* What GitLab carries out for a job makes the tree grow.                   *)
LEMMA GroupMade ==
  ASSUME TreeOK, NEW g \in Groups, NEW v, v = Desired \/ v = fallback,
         MayMakeGroup(g, v), GroupAt(g, v),
         \A h \in Groups : IsParent(h, g) => group[h] # NoLevel
  PROVE  GroupGrows
  <1>1. v \in Levels
    <2>1. v \in permitted /\ permitted \subseteq Levels /\ fallback \in Levels \cup {NoLevel}
      BY DEF MayMakeGroup, GroupAllows, TreeOK, LevelsTyped
    <2> QED
      BY <2>1, LevelNumbers DEF Levels
  <1>2. CoversContent(g, v)
    <2>1. \A h \in Groups : IsParent(g, h) => group[h] = NoLevel
      BY ParentAbove DEF TreeOK, WellPlaced, MayMakeGroup
    <2>2. ASSUME NEW p \in Projects, Namespace(p) = g
          PROVE  project[p] = NoLevel
      <3>1. Len(Path[p]) \in 1 .. Len(Path[p])
        BY Paths
      <3> QED
        BY <2>2, <3>1 DEF TreeOK, WellPlaced, MayMakeGroup, Namespace
    <2> QED
      BY <2>1, <2>2 DEF CoversContent
  <1> QED
    BY <1>1, <1>2 DEF GroupGrows, MayMakeGroup, GroupAllows

LEMMA GroupPut ==
  ASSUME TreeOK, NEW g \in Groups, group[g] # NoLevel,
         MayPutGroup(g, Desired), GroupAt(g, Desired)
  PROVE  GroupGrows
  <1>1. \A h \in Groups : IsParent(h, g) => group[h] # NoLevel
    BY ParentAbove DEF TreeOK, WellPlaced
  <1> QED
    BY <1>1, LevelNumbers DEF GroupGrows, MayPutGroup, GroupAllows

LEMMA ProjectMade ==
  ASSUME TreeOK, NEW p \in Projects, NEW v, v = Desired \/ v = fallback,
         MayMakeProject(p, v), ProjectAt(p, v), group[Namespace(p)] # NoLevel
  PROVE  ProjectGrows
  <1>1. v \in Levels
    <2>1. v \in permitted /\ permitted \subseteq Levels /\ fallback \in Levels \cup {NoLevel}
      BY DEF MayMakeProject, ProjectAllows, TreeOK, LevelsTyped
    <2> QED
      BY <2>1, LevelNumbers DEF Levels
  <1> QED
    BY <1>1 DEF ProjectGrows, MayMakeProject, ProjectAllows

LEMMA ProjectPut ==
  ASSUME TreeOK, NEW p \in Projects, project[p] # NoLevel,
         ProjectAllows(p, Desired), ProjectAt(p, Desired)
  PROVE  ProjectGrows
  <1>1. Len(Path[p]) \in 1 .. Len(Path[p])
    BY Paths
  <1>2. group[Namespace(p)] # NoLevel
    BY <1>1 DEF TreeOK, WellPlaced, Namespace
  <1> QED
    BY <1>2, LevelNumbers DEF ProjectGrows, ProjectAllows

(* A step of one process leaves the others on their ways.                   *)
Moves(j) ==
  /\ DOMAIN pc' = Procs /\ DOMAIN at' = Procs
  /\ \A d \in Procs \ {j} : pc'[d] = pc[d] /\ at'[d] = at[d]
  /\ UNCHANGED <<fallback, own>> /\ permitted' \subseteq Levels

LEMMA ProcessStep ==
  ASSUME TreeOK, Placed, NEW j \in Procs, Moves(j), Grows, OnWay(j)'
  PROVE  TreeOK' /\ Rises /\ Placed'
  <1>1. TreeOK' /\ Rises
    BY GrowsKeeps DEF Moves
  <1>2. own \in [Jobs -> Projects] /\ Root \in Groups
    BY NamespaceAssumption DEF TreeOK, LevelsTyped
  <1>3. ASSUME NEW d \in Procs \ {j}
        PROVE  OnWay(d)'
    <2>1. pc'[d] = pc[d] /\ at'[d] = at[d] /\ Way(d)' = Way(d) /\ Own(d)' = Own(d)
      BY DEF Moves, Way, Own
    <2>2. OnWay(d)
      BY DEF Placed
    <2>3. \A i \in 1 .. Len(Way(d)) : group[Way(d)[i]] # NoLevel => group'[Way(d)[i]] # NoLevel
      BY <1>1, <1>2, Ways DEF Rises
    <2>4. \A n \in Int : n <= Len(Way(d)) /\ Made(d, n) => Made(d, n)'
      BY <1>2, <2>1, <2>3, Ways DEF Made
    <2>5. at[d] \in Int /\ at[d] <= Len(Way(d)) /\ at[d] - 1 <= Len(Way(d)) /\ Len(Way(d)) \in Int
      BY <1>2, <2>2, Ways DEF OnWay
    <2>6. d \in Jobs => (project[Own(d)] # NoLevel => project'[Own(d)] # NoLevel)
      BY <1>1, <1>2, Ways DEF Rises
    <2> QED
      BY <1>1, <1>2, <2>1, <2>2, <2>4, <2>5, <2>6 DEF OnWay, Rises
  <1> QED
    BY <1>1, <1>3 DEF Placed, Moves

(* On to the next group from one that exists.                               *)
LEMMA Descended ==
  ASSUME TreeOK, Placed, NEW j \in Procs, Descend(j), UNCHANGED own,
         \A i \in 1 .. at[j] : group'[Way(j)[i]] # NoLevel
  PROVE  OnWay(j)'
  <1>1. /\ Len(Way(j)) \in Nat /\ Len(Way(j)) >= 1 /\ Way(j)[1] = Root /\ Way(j)' = Way(j)
        /\ j = Enforcer => Len(Way(j)) = 1
        /\ at[j] \in 1 .. Len(Way(j)) /\ j \in Jobs \cup {Enforcer}
        /\ DOMAIN pc = Procs /\ DOMAIN at = Procs
    BY Ways DEF TreeOK, LevelsTyped, Placed, OnWay, Way, Own, Procs
  <1>2. CASE AtEnd(j) /\ j = Enforcer
    <2>1. pc'[j] = "walk" /\ at'[j] = 1 /\ group'[Root] # NoLevel
      BY <1>1, <1>2 DEF Descend, AtEnd, Goto
    <2> QED
      BY <1>1, <1>2, <2>1 DEF OnWay, Places
  <1>3. CASE AtEnd(j) /\ j # Enforcer
    <2>1. pc'[j] = "create" /\ at'[j] = 1 /\ at[j] = Len(Way(j))
      BY <1>1, <1>3 DEF Descend, AtEnd, Goto
    <2>2. Made(j, Len(Way(j)))'
      BY <1>1, <2>1 DEF Made
    <2> QED
      BY <1>1, <1>3, <2>1, <2>2 DEF OnWay, Places
  <1>4. CASE ~AtEnd(j)
    <2>1. pc'[j] = "group" /\ at'[j] = at[j] + 1 /\ at[j] < Len(Way(j))
      BY <1>1, <1>4 DEF Descend, AtEnd, Goto
    <2>2. Made(j, at[j] - 1)'
      BY <1>1, <2>1 DEF Made
    <2> QED
      BY <1>1, <2>1, <2>2 DEF OnWay, Places
  <1> QED
    BY <1>2, <1>3, <1>4

-----------------------------------------------------------------------------
(* The steps of jobs, and of the enforcer where it makes the root group.    *)

TreeKept == TreeOK' /\ Rises /\ Placed'

LEMMA OnHisWay ==
  ASSUME TreeOK, Placed, NEW j \in Procs
  PROVE  /\ OnWay(j) /\ DOMAIN pc = Procs /\ DOMAIN at = Procs
         /\ Len(Way(j)) \in Nat /\ Len(Way(j)) >= 1
         /\ at[j] \in 1 .. Len(Way(j)) /\ Here(j) \in Groups
         /\ j \in Jobs => Own(j) \in Projects /\ Namespace(Own(j)) = Way(j)[Len(Way(j))]
         /\ UNCHANGED own => Way(j)' = Way(j) /\ Own(j)' = Own(j)
  BY Ways DEF TreeOK, LevelsTyped, Placed, OnWay, Here, Way, Own

(* Where a process is to make a group, the one it is in exists.             *)
LEMMA InWhatExists ==
  ASSUME TreeOK, Placed, NEW j \in Procs, pc[j] \in {"postgroup", "fallbackgroup"}
  PROVE  \A h \in Groups : IsParent(h, Here(j)) => group[h] # NoLevel
  <1>1. Made(j, at[j] - 1) /\ at[j] \in 1 .. Len(Way(j)) /\ Len(Way(j)) \in Nat
    BY OnHisWay DEF OnWay
  <1>2. \A h \in Groups : IsParent(h, Way(j)[at[j]]) =>
           at[j] - 1 \in 1 .. Len(Way(j)) /\ h = Way(j)[at[j] - 1]
    BY <1>1, Ways DEF TreeOK, LevelsTyped
  <1> QED
    BY <1>1, <1>2 DEF Made, Here

LEMMA ItsNamespace ==
  ASSUME TreeOK, Placed, NEW j \in Jobs, pc[j] \in {"create", "fallbackproject"}
  PROVE  Own(j) \in Projects /\ group[Namespace(Own(j))] # NoLevel
  <1>1. j \in Procs
    BY DEF Procs
  <1> QED
    BY <1>1, OnHisWay DEF OnWay, Made

(* What a job finds decides where it goes.                                  *)
LEMMA StartTree ==
  ASSUME TreeOK, Placed, NEW j \in Jobs, Start(j)
  PROVE  TreeKept
  <1>1. /\ j \in Procs /\ OnWay(j) /\ DOMAIN pc = Procs /\ DOMAIN at = Procs
        /\ Len(Way(j)) \in Nat /\ Len(Way(j)) >= 1
        /\ at[j] \in 1 .. Len(Way(j)) /\ Here(j) \in Groups
        /\ permitted \subseteq Levels
    BY OnHisWay DEF TreeOK, LevelsTyped, Procs
  <1>2. Moves(j) /\ Way(j)' = Way(j) /\ Own(j)' = Own(j)
    BY <1>1 DEF Start, Moves, Goto, settings, Way, Own
  <1>3. Grows
    BY DEF Start, Grows
  <1>4. OnWay(j)'
    BY <1>1, <1>2 DEF Start, OnWay, Made, Goto, Places
  <1> QED
    BY <1>1, <1>2, <1>3, <1>4, ProcessStep DEF TreeKept

(* So does the group it looks at.                                           *)
LEMMA GetGroupTree ==
  ASSUME TreeOK, Placed, NEW j \in Procs, GetGroup(j)
  PROVE  TreeKept
  <1>1. /\ j \in Procs /\ OnWay(j) /\ DOMAIN pc = Procs /\ DOMAIN at = Procs
        /\ Len(Way(j)) \in Nat /\ Len(Way(j)) >= 1
        /\ at[j] \in 1 .. Len(Way(j)) /\ Here(j) \in Groups
        /\ permitted \subseteq Levels
    BY OnHisWay DEF TreeOK, LevelsTyped, Procs
  <1>2. Moves(j) /\ Way(j)' = Way(j) /\ Own(j)' = Own(j)
    BY <1>1 DEF GetGroup, Descend, Moves, Goto, settings, Way, Own
  <1>3. Grows
    BY DEF GetGroup, Grows
  <1>4. OnWay(j)'
    <2>1. CASE group[Here(j)] = Desired
      <3>1. \A i \in 1 .. at[j] : group'[Way(j)[i]] # NoLevel
        BY <1>1, <2>1, LevelNumbers DEF GetGroup, OnWay, Made, Here, Levels
      <3> QED
        BY <1>1, <1>2, <2>1, <3>1, Descended DEF GetGroup, Moves
    <2>2. CASE group[Here(j)] # Desired
      BY <1>1, <1>2, <2>2 DEF GetGroup, OnWay, Made, Goto, Here, Places
    <2> QED
      BY <2>1, <2>2
  <1> QED
    BY <1>1, <1>2, <1>3, <1>4, ProcessStep DEF TreeKept

(* A group that is made is in one that exists.                              *)
LEMMA PostGroupTree ==
  ASSUME TreeOK, Placed, NEW j \in Procs, PostGroup(j)
  PROVE  TreeKept
  <1>1. /\ j \in Procs /\ OnWay(j) /\ DOMAIN pc = Procs /\ DOMAIN at = Procs
        /\ Len(Way(j)) \in Nat /\ Len(Way(j)) >= 1
        /\ at[j] \in 1 .. Len(Way(j)) /\ Here(j) \in Groups
        /\ permitted \subseteq Levels
    BY OnHisWay DEF TreeOK, LevelsTyped, Procs
  <1>2. Moves(j) /\ Way(j)' = Way(j) /\ Own(j)' = Own(j)
    BY <1>1 DEF PostGroup, Descend, Moves, Goto, settings, Way, Own
  <1>3. Grows
    BY <1>1, InWhatExists, GroupMade DEF PostGroup, Grows
  <1>4. OnWay(j)'
    <2>1. group' = [group EXCEPT ![Here(j)] = Desired] /\ DOMAIN group = Groups
      BY DEF PostGroup, GroupAt, TreeOK, LevelsTyped
    <2>2. \A i \in 1 .. at[j] - 1 : group[Way(j)[i]] # NoLevel /\ Way(j)[i] \in Groups
      BY <1>1, Ways DEF PostGroup, OnWay, Made, TreeOK, LevelsTyped
    <2>3. \A i \in 1 .. at[j] : group'[Way(j)[i]] # NoLevel
      BY <1>1, <2>1, <2>2, LevelNumbers DEF Here, Levels
    <2> QED
      BY <1>1, <1>2, <2>3, Descended DEF PostGroup, Moves
  <1> QED
    BY <1>1, <1>2, <1>3, <1>4, ProcessStep DEF TreeKept

(* A refusal leads to the fallback.                                         *)
LEMMA PostGroupRefusedTree ==
  ASSUME TreeOK, Placed, NEW j \in Procs, PostGroupRefused(j)
  PROVE  TreeKept
  <1>1. /\ j \in Procs /\ OnWay(j) /\ DOMAIN pc = Procs /\ DOMAIN at = Procs
        /\ Len(Way(j)) \in Nat /\ Len(Way(j)) >= 1
        /\ at[j] \in 1 .. Len(Way(j)) /\ Here(j) \in Groups
        /\ permitted \subseteq Levels
    BY OnHisWay DEF TreeOK, LevelsTyped, Procs
  <1>2. Moves(j) /\ Way(j)' = Way(j) /\ Own(j)' = Own(j)
    BY <1>1 DEF PostGroupRefused, Moves, Goto, settings, Way, Own
  <1>3. Grows
    BY DEF PostGroupRefused, Grows
  <1>4. OnWay(j)'
    BY <1>1, <1>2 DEF PostGroupRefused, OnWay, Made, Goto, Places, settings
  <1> QED
    BY <1>1, <1>2, <1>3, <1>4, ProcessStep DEF TreeKept

(* A group that is made at the fallback is then set.                        *)
LEMMA PostFallbackGroupTree ==
  ASSUME TreeOK, Placed, NEW j \in Procs, PostFallbackGroup(j)
  PROVE  TreeKept
  <1>1. /\ j \in Procs /\ OnWay(j) /\ DOMAIN pc = Procs /\ DOMAIN at = Procs
        /\ Len(Way(j)) \in Nat /\ Len(Way(j)) >= 1
        /\ at[j] \in 1 .. Len(Way(j)) /\ Here(j) \in Groups
        /\ permitted \subseteq Levels
    BY OnHisWay DEF TreeOK, LevelsTyped, Procs
  <1>2. Moves(j) /\ Way(j)' = Way(j) /\ Own(j)' = Own(j)
    BY <1>1 DEF PostFallbackGroup, Moves, Goto, settings, Way, Own
  <1>3. Grows
    BY <1>1, InWhatExists, GroupMade DEF PostFallbackGroup, Grows
  <1>4. OnWay(j)'
    <2>1. group' = [group EXCEPT ![Here(j)] = fallback] /\ DOMAIN group = Groups
          /\ fallback # NoLevel /\ pc[j] = "fallbackgroup" /\ at'[j] = at[j]
          /\ pc'[j] = "setgroup"
      BY <1>1, LevelNumbers DEF PostFallbackGroup, GroupAt, TreeOK, LevelsTyped, MayMakeGroup,
                                GroupAllows, Levels, Goto
    <2>2. \A i \in 1 .. at[j] - 1 : group[Way(j)[i]] # NoLevel /\ Way(j)[i] \in Groups
      BY <1>1, <2>1, Ways DEF OnWay, Made, TreeOK, LevelsTyped
    <2>3. \A i \in 1 .. at[j] : group'[Way(j)[i]] # NoLevel
      BY <1>1, <2>1, <2>2 DEF Here
    <2> QED
      BY <1>1, <1>2, <2>1, <2>3 DEF OnWay, Made, Places
  <1> QED
    BY <1>1, <1>2, <1>3, <1>4, ProcessStep DEF TreeKept

(* Or the job fails.                                                        *)
LEMMA PostFallbackGroupRefusedTree ==
  ASSUME TreeOK, Placed, NEW j \in Procs, PostFallbackGroupRefused(j)
  PROVE  TreeKept
  <1>1. /\ j \in Procs /\ OnWay(j) /\ DOMAIN pc = Procs /\ DOMAIN at = Procs
        /\ Len(Way(j)) \in Nat /\ Len(Way(j)) >= 1
        /\ at[j] \in 1 .. Len(Way(j)) /\ Here(j) \in Groups
        /\ permitted \subseteq Levels
    BY OnHisWay DEF TreeOK, LevelsTyped, Procs
  <1>2. Moves(j) /\ Way(j)' = Way(j) /\ Own(j)' = Own(j)
    BY <1>1 DEF PostFallbackGroupRefused, Moves, Goto, settings, Way, Own
  <1>3. Grows
    BY DEF PostFallbackGroupRefused, Grows
  <1>4. OnWay(j)'
    BY <1>1, <1>2 DEF PostFallbackGroupRefused, OnWay, Made, Goto, Places
  <1> QED
    BY <1>1, <1>2, <1>3, <1>4, ProcessStep DEF TreeKept

(* A group that is set exists.                                              *)
LEMMA SetGroupTree ==
  ASSUME TreeOK, Placed, NEW j \in Procs, SetGroup(j)
  PROVE  TreeKept
  <1>1. /\ j \in Procs /\ OnWay(j) /\ DOMAIN pc = Procs /\ DOMAIN at = Procs
        /\ Len(Way(j)) \in Nat /\ Len(Way(j)) >= 1
        /\ at[j] \in 1 .. Len(Way(j)) /\ Here(j) \in Groups
        /\ permitted \subseteq Levels
    BY OnHisWay DEF TreeOK, LevelsTyped, Procs
  <1>2. Moves(j) /\ Way(j)' = Way(j) /\ Own(j)' = Own(j)
    BY <1>1 DEF SetGroup, Descend, Moves, Goto, settings, Way, Own
  <1>3. Grows
    <2>1. group[Here(j)] # NoLevel
      BY <1>1 DEF SetGroup, OnWay, Made, Here
    <2> QED
      BY <1>1, <2>1, GroupPut DEF SetGroup, Grows
  <1>4. OnWay(j)'
    <2>1. group' = [group EXCEPT ![Here(j)] = Desired] /\ DOMAIN group = Groups
      BY DEF SetGroup, GroupAt, TreeOK, LevelsTyped
    <2>2. \A i \in 1 .. at[j] : group[Way(j)[i]] # NoLevel /\ Way(j)[i] \in Groups
      BY <1>1, Ways DEF SetGroup, OnWay, Made, TreeOK, LevelsTyped
    <2>3. \A i \in 1 .. at[j] : group'[Way(j)[i]] # NoLevel
      BY <1>1, <2>1, <2>2, LevelNumbers DEF Here, Levels
    <2> QED
      BY <1>1, <1>2, <2>3, Descended DEF SetGroup, Moves
  <1> QED
    BY <1>1, <1>2, <1>3, <1>4, ProcessStep DEF TreeKept

(* It exists also where that is refused.                                    *)
LEMMA SetGroupRefusedTree ==
  ASSUME TreeOK, Placed, NEW j \in Procs, SetGroupRefused(j)
  PROVE  TreeKept
  <1>1. /\ j \in Procs /\ OnWay(j) /\ DOMAIN pc = Procs /\ DOMAIN at = Procs
        /\ Len(Way(j)) \in Nat /\ Len(Way(j)) >= 1
        /\ at[j] \in 1 .. Len(Way(j)) /\ Here(j) \in Groups
        /\ permitted \subseteq Levels
    BY OnHisWay DEF TreeOK, LevelsTyped, Procs
  <1>2. Moves(j) /\ Way(j)' = Way(j) /\ Own(j)' = Own(j)
    BY <1>1 DEF SetGroupRefused, Descend, Moves, Goto, settings, Way, Own
  <1>3. Grows
    BY DEF SetGroupRefused, Grows
  <1>4. OnWay(j)'
    <2>1. CASE strict
      BY <1>1, <1>2, <2>1 DEF SetGroupRefused, OnWay, Goto, Places
    <2>2. CASE ~strict
      <3>1. \A i \in 1 .. at[j] : group'[Way(j)[i]] # NoLevel
        BY <1>1 DEF SetGroupRefused, OnWay, Made
      <3> QED
        BY <1>1, <1>2, <2>2, <3>1, Descended DEF SetGroupRefused, Moves
    <2> QED
      BY <2>1, <2>2
  <1> QED
    BY <1>1, <1>2, <1>3, <1>4, ProcessStep DEF TreeKept

(* A project that is made is in a group that exists.                        *)
LEMMA PostProjectTree ==
  ASSUME TreeOK, Placed, NEW j \in Jobs, PostProject(j)
  PROVE  TreeKept
  <1>1. /\ j \in Procs /\ OnWay(j) /\ DOMAIN pc = Procs /\ DOMAIN at = Procs
        /\ Len(Way(j)) \in Nat /\ Len(Way(j)) >= 1
        /\ at[j] \in 1 .. Len(Way(j)) /\ Here(j) \in Groups
        /\ permitted \subseteq Levels
    BY OnHisWay DEF TreeOK, LevelsTyped, Procs
  <1>2. Moves(j) /\ Way(j)' = Way(j) /\ Own(j)' = Own(j)
    BY <1>1 DEF PostProject, Moves, Goto, settings, Way, Own
  <1>3. Grows
    BY <1>1, ItsNamespace, ProjectMade DEF PostProject, Grows
  <1>4. OnWay(j)'
    BY <1>1, <1>2 DEF PostProject, OnWay, Goto, Places
  <1> QED
    BY <1>1, <1>2, <1>3, <1>4, ProcessStep DEF TreeKept

(* A refusal leads to the fallback, or to the second look.                  *)
LEMMA PostProjectRefusedTree ==
  ASSUME TreeOK, Placed, NEW j \in Jobs, PostProjectRefused(j)
  PROVE  TreeKept
  <1>1. /\ j \in Procs /\ OnWay(j) /\ DOMAIN pc = Procs /\ DOMAIN at = Procs
        /\ Len(Way(j)) \in Nat /\ Len(Way(j)) >= 1
        /\ at[j] \in 1 .. Len(Way(j)) /\ Here(j) \in Groups
        /\ permitted \subseteq Levels
    BY OnHisWay DEF TreeOK, LevelsTyped, Procs
  <1>2. Moves(j) /\ Way(j)' = Way(j) /\ Own(j)' = Own(j)
    BY <1>1 DEF PostProjectRefused, Moves, Goto, settings, Way, Own
  <1>3. Grows
    BY DEF PostProjectRefused, Grows
  <1>4. OnWay(j)'
    BY <1>1, <1>2 DEF PostProjectRefused, OnWay, Made, Goto, Places
  <1> QED
    BY <1>1, <1>2, <1>3, <1>4, ProcessStep DEF TreeKept

(* A project that is made at the fallback is then set.                      *)
LEMMA PostFallbackProjectTree ==
  ASSUME TreeOK, Placed, NEW j \in Jobs, PostFallbackProject(j)
  PROVE  TreeKept
  <1>1. /\ j \in Procs /\ OnWay(j) /\ DOMAIN pc = Procs /\ DOMAIN at = Procs
        /\ Len(Way(j)) \in Nat /\ Len(Way(j)) >= 1
        /\ at[j] \in 1 .. Len(Way(j)) /\ Here(j) \in Groups
        /\ permitted \subseteq Levels
    BY OnHisWay DEF TreeOK, LevelsTyped, Procs
  <1>2. Moves(j) /\ Way(j)' = Way(j) /\ Own(j)' = Own(j)
    BY <1>1 DEF PostFallbackProject, AfterFallback, Moves, Goto, settings, Way, Own
  <1>3. Grows
    BY <1>1, ItsNamespace, ProjectMade DEF PostFallbackProject, Grows
  <1>4. OnWay(j)'
    <2>1. fallback # NoLevel
      BY <1>1, LevelNumbers DEF PostFallbackProject, MayMakeProject, ProjectAllows, Levels
    <2>2. project'[Own(j)] # NoLevel
      BY <1>1, <2>1, ItsNamespace DEF PostFallbackProject, ProjectAt, TreeOK, LevelsTyped
    <2> QED
      BY <1>1, <1>2, <2>2 DEF PostFallbackProject, AfterFallback, OnWay, Goto, Places
  <1> QED
    BY <1>1, <1>2, <1>3, <1>4, ProcessStep DEF TreeKept

(* Or to the second look.                                                   *)
LEMMA PostFallbackProjectRefusedTree ==
  ASSUME TreeOK, Placed, NEW j \in Jobs, PostFallbackProjectRefused(j)
  PROVE  TreeKept
  <1>1. /\ j \in Procs /\ OnWay(j) /\ DOMAIN pc = Procs /\ DOMAIN at = Procs
        /\ Len(Way(j)) \in Nat /\ Len(Way(j)) >= 1
        /\ at[j] \in 1 .. Len(Way(j)) /\ Here(j) \in Groups
        /\ permitted \subseteq Levels
    BY OnHisWay DEF TreeOK, LevelsTyped, Procs
  <1>2. Moves(j) /\ Way(j)' = Way(j) /\ Own(j)' = Own(j)
    BY <1>1 DEF PostFallbackProjectRefused, Moves, Goto, settings, Way, Own
  <1>3. Grows
    BY DEF PostFallbackProjectRefused, Grows
  <1>4. OnWay(j)'
    BY <1>1, <1>2 DEF PostFallbackProjectRefused, OnWay, Made, Goto, Places
  <1> QED
    BY <1>1, <1>2, <1>3, <1>4, ProcessStep DEF TreeKept

(* Which finds the project or fails.                                        *)
LEMMA RecheckTree ==
  ASSUME TreeOK, Placed, NEW j \in Jobs, Recheck(j)
  PROVE  TreeKept
  <1>1. /\ j \in Procs /\ OnWay(j) /\ DOMAIN pc = Procs /\ DOMAIN at = Procs
        /\ Len(Way(j)) \in Nat /\ Len(Way(j)) >= 1
        /\ at[j] \in 1 .. Len(Way(j)) /\ Here(j) \in Groups
        /\ permitted \subseteq Levels
    BY OnHisWay DEF TreeOK, LevelsTyped, Procs
  <1>2. Moves(j) /\ Way(j)' = Way(j) /\ Own(j)' = Own(j)
    BY <1>1 DEF Recheck, Moves, Goto, settings, Way, Own
  <1>3. Grows
    BY DEF Recheck, Grows
  <1>4. OnWay(j)'
    BY <1>1, <1>2 DEF Recheck, OnWay, Made, Goto, Places, IfCreated
  <1> QED
    BY <1>1, <1>2, <1>3, <1>4, ProcessStep DEF TreeKept

(* A project that is set exists.                                            *)
LEMMA SetProjectTree ==
  ASSUME TreeOK, Placed, NEW j \in Jobs, SetProject(j)
  PROVE  TreeKept
  <1>1. /\ j \in Procs /\ OnWay(j) /\ DOMAIN pc = Procs /\ DOMAIN at = Procs
        /\ Len(Way(j)) \in Nat /\ Len(Way(j)) >= 1
        /\ at[j] \in 1 .. Len(Way(j)) /\ Here(j) \in Groups
        /\ permitted \subseteq Levels
    BY OnHisWay DEF TreeOK, LevelsTyped, Procs
  <1>2. Moves(j) /\ Way(j)' = Way(j) /\ Own(j)' = Own(j)
    BY <1>1 DEF SetProject, Moves, Goto, settings, Way, Own
  <1>3. Grows
    <2>1. Own(j) \in Projects /\ project[Own(j)] # NoLevel
      BY <1>1, OnHisWay DEF SetProject, OnWay
    <2> QED
      BY <1>1, <2>1, ProjectPut DEF SetProject, Grows
  <1>4. OnWay(j)'
    BY <1>1, <1>2 DEF SetProject, OnWay, Goto, Places
  <1> QED
    BY <1>1, <1>2, <1>3, <1>4, ProcessStep DEF TreeKept

(* A refusal ends the job.                                                  *)
LEMMA SetProjectRefusedTree ==
  ASSUME TreeOK, Placed, NEW j \in Jobs, SetProjectRefused(j)
  PROVE  TreeKept
  <1>1. /\ j \in Procs /\ OnWay(j) /\ DOMAIN pc = Procs /\ DOMAIN at = Procs
        /\ Len(Way(j)) \in Nat /\ Len(Way(j)) >= 1
        /\ at[j] \in 1 .. Len(Way(j)) /\ Here(j) \in Groups
        /\ permitted \subseteq Levels
    BY OnHisWay DEF TreeOK, LevelsTyped, Procs
  <1>2. Moves(j) /\ Way(j)' = Way(j) /\ Own(j)' = Own(j)
    BY <1>1 DEF SetProjectRefused, Moves, Goto, settings, Way, Own
  <1>3. Grows
    BY DEF SetProjectRefused, Grows
  <1>4. OnWay(j)'
    BY <1>1, <1>2 DEF SetProjectRefused, OnWay, Made, Goto, Places, IfRefused
  <1> QED
    BY <1>1, <1>2, <1>3, <1>4, ProcessStep DEF TreeKept

(* A job returns to where it began.                                         *)
LEMMA ReturnTree ==
  ASSUME TreeOK, Placed, NEW j \in Procs, Return(j)
  PROVE  TreeKept
  <1>1. /\ j \in Procs /\ OnWay(j) /\ DOMAIN pc = Procs /\ DOMAIN at = Procs
        /\ Len(Way(j)) \in Nat /\ Len(Way(j)) >= 1
        /\ at[j] \in 1 .. Len(Way(j)) /\ Here(j) \in Groups
        /\ permitted \subseteq Levels
    BY OnHisWay DEF TreeOK, LevelsTyped, Procs
  <1>2. Moves(j) /\ Way(j)' = Way(j) /\ Own(j)' = Own(j)
    BY <1>1 DEF Return, Moves, Goto, settings, Way, Own
  <1>3. Grows
    BY DEF Return, Grows
  <1>4. OnWay(j)'
    BY <1>1, <1>2 DEF Return, OnWay, Made, Goto, Places
  <1> QED
    BY <1>1, <1>2, <1>3, <1>4, ProcessStep DEF TreeKept

(* A call that breaks down is carried out or not.                           *)
LEMMA BreakdownTree ==
  ASSUME TreeOK, Placed, NEW j \in Procs, Breakdown(j)
  PROVE  TreeKept
  <1>1. /\ j \in Procs /\ OnWay(j) /\ DOMAIN pc = Procs /\ DOMAIN at = Procs
        /\ Len(Way(j)) \in Nat /\ Len(Way(j)) >= 1
        /\ at[j] \in 1 .. Len(Way(j)) /\ Here(j) \in Groups
        /\ permitted \subseteq Levels
    BY OnHisWay DEF TreeOK, LevelsTyped, Procs
  <1>2. Moves(j) /\ Way(j)' = Way(j) /\ Own(j)' = Own(j)
    BY <1>1 DEF Breakdown, Descend, Moves, Goto, settings, Way, Own
  <1>3. Grows
    <2>1. CASE UNCHANGED <<group, project>>
      BY <2>1 DEF Grows
    <2>2. CASE CarriedOut(j)
      <3>1. CASE pc[j] = "postgroup" /\ MayMakeGroup(Here(j), Desired) /\ GroupAt(Here(j), Desired)
        BY <1>1, <3>1, InWhatExists, GroupMade DEF Grows
      <3>2. CASE pc[j] = "fallbackgroup" /\ MayMakeGroup(Here(j), fallback) /\ GroupAt(Here(j), fallback)
        BY <1>1, <3>2, InWhatExists, GroupMade DEF Grows
      <3>3. CASE pc[j] = "setgroup" /\ MayPutGroup(Here(j), Desired) /\ GroupAt(Here(j), Desired)
        <4>1. group[Here(j)] # NoLevel
          BY <1>1, <3>3 DEF OnWay, Made, Here
        <4> QED
          BY <1>1, <3>3, <4>1, GroupPut DEF Grows
      <3>4. CASE pc[j] = "create" /\ MayMakeProject(Own(j), Desired) /\ ProjectAt(Own(j), Desired)
        BY <1>1, <3>4, ItsNamespace, ProjectMade DEF Grows, OnWay
      <3>5. CASE pc[j] = "fallbackproject" /\ MayMakeProject(Own(j), fallback) /\ ProjectAt(Own(j), fallback)
        BY <1>1, <3>5, ItsNamespace, ProjectMade DEF Grows, OnWay
      <3>6. CASE pc[j] = "setproject" /\ ProjectAllows(Own(j), Desired) /\ ProjectAt(Own(j), Desired)
        <4>1. j \in Jobs /\ Own(j) \in Projects /\ project[Own(j)] # NoLevel
          BY <1>1, <3>6, OnHisWay DEF OnWay
        <4> QED
          BY <3>6, <4>1, ProjectPut DEF Grows
      <3> QED
        BY <2>2, <3>1, <3>2, <3>3, <3>4, <3>5, <3>6 DEF CarriedOut
    <2> QED
      BY <2>1, <2>2 DEF Breakdown
  <1>4. OnWay(j)'
    <2>1. Rises
      BY <1>2, <1>3, GrowsKeeps DEF Moves
    <2>2. \A i \in 1 .. Len(Way(j)) : Way(j)[i] \in Groups
      BY <1>1, Ways DEF TreeOK, LevelsTyped
    <2>3. CASE Goto(j, "failed") /\ UNCHANGED at
      BY <1>1, <1>2, <2>3 DEF OnWay, Goto, Places
    <2>4. CASE pc[j] \in {"create", "fallbackproject"} /\ Goto(j, "recheck") /\ UNCHANGED at
      <3>1. Made(j, Len(Way(j)))'
        BY <1>1, <1>2, <2>1, <2>2, <2>4 DEF OnWay, Made, Rises
      <3> QED
        BY <1>1, <1>2, <2>4, <3>1 DEF OnWay, Goto, Places
    <2>5. CASE pc[j] = "setgroup" /\ Descend(j)
      <3>1. \A i \in 1 .. at[j] : group'[Way(j)[i]] # NoLevel
        BY <1>1, <2>1, <2>2, <2>5 DEF OnWay, Made, Rises
      <3> QED
        BY <1>1, <1>2, <2>5, <3>1, Descended DEF Moves
    <2>6. CASE pc[j] = "setproject" /\ Goto(j, "done") /\ UNCHANGED at
      BY <1>1, <1>2, <2>6 DEF OnWay, Goto, Places
    <2> QED
      BY <2>3, <2>4, <2>5, <2>6 DEF Breakdown
  <1> QED
    BY <1>1, <1>2, <1>3, <1>4, ProcessStep DEF TreeKept

(* The instance permits more, or nothing happens.                           *)
LEMMA PolicyTree ==
  ASSUME TreeOK, Placed, PolicyRelaxed \/ UNCHANGED vars
  PROVE  TreeKept
  <1>1. /\ UNCHANGED <<fallback, own, group, project, pc, at>>
        /\ permitted' \subseteq Levels
    BY DEF PolicyRelaxed, vars, settings, TreeOK, LevelsTyped
  <1>2. TreeOK' /\ Rises
    BY <1>1, GrowsKeeps DEF Grows
  <1>3. \A j \in Procs : OnWay(j) => OnWay(j)'
    BY <1>1 DEF OnWay, Made, Way, Own
  <1> QED
    BY <1>1, <1>2, <1>3 DEF Placed, TreeKept

-----------------------------------------------------------------------------
(* What the enforcer has left to do. *)

Tasks == {"walk", "projects", "subgroups", "setgroup", "setproject"} \X (Groups \cup Projects)

TaskOK(t) ==
  /\ t[1] # "setproject" => t[2] \in Groups
  /\ t[1] = "walk" => t[2] = Root
  /\ t[1] = "setgroup" => group[t[2]] # NoLevel
  /\ t[1] = "setproject" => t[2] \in Projects /\ project[t[2]] # NoLevel

(* What a call, and those that follow from it, bring to the level.          *)
Covers(t, x) ==
  \/ t[1] \in {"walk", "setgroup"} /\ (x = t[2] \/ Within(t[2], x))
  \/ t[1] = "projects" /\ Within(t[2], x)
  \/ t[1] = "subgroups" /\ \E h \in Groups : IsParent(t[2], h) /\ (x = h \/ Within(h, x))
  \/ t[1] = "setproject" /\ x = t[2]

(* Calls are made from the top down: what contains the target has the level.*)
TopDown(t) ==
  /\ t[1] = "setgroup" => \A h \in Groups : IsParent(h, t[2]) => group[h] = Desired
  /\ t[1] \in {"projects", "subgroups"} => group[t[2]] = Desired
  /\ t[1] = "setproject" => group[Namespace(t[2])] = Desired

There(x)   == IF x \in Groups THEN group[x] # NoLevel ELSE project[x] # NoLevel
AtLevel(x) == IF x \in Groups THEN group[x] = Desired ELSE project[x] = Desired

AgendaTyped ==
  /\ skipped \in BOOLEAN /\ lowering \in BOOLEAN
  /\ known \subseteq Groups \cup Projects
  /\ agenda \in Seq(Tasks)
  /\ \A t \in Range(agenda) : TaskOK(t)

(* What was there when the walk began has the level or will be reached.     *)
Covered ==
  pc[Enforcer] # "failed" =>
    \A x \in known : There(x) /\ (AtLevel(x) \/ \E t \in Range(agenda) : Covers(t, x))

Orderly ==
  ~skipped => \A t \in Range(agenda) : TopDown(t)

AgendaOK ==
  /\ AgendaTyped /\ Covered /\ Orderly
  /\ pc[Enforcer] = "done" => agenda = << >>

LEMMA TaskTypes ==
  /\ \A g \in Groups : <<"walk", g>> \in Tasks /\ <<"projects", g>> \in Tasks
                       /\ <<"subgroups", g>> \in Tasks /\ <<"setgroup", g>> \in Tasks
  /\ \A p \in Projects : <<"setproject", p>> \in Tasks
  BY DEF Tasks

(* A sequence of one, and what a sequence begins with.                      *)
LEMMA OneTask ==
  ASSUME NEW T, NEW t \in T
  PROVE  <<t>> \in Seq(T) /\ Range(<<t>>) = {t}
  <1>1. <<t>> \in Seq(T) /\ Len(<<t>>) = 1 /\ <<t>>[1] = t
    OBVIOUS
  <1>2. Range(<<t>>) = {<<t>>[i] : i \in 1 .. Len(<<t>>)}
    BY <1>1, RangeEquality
  <1> QED
    BY <1>1, <1>2

LEMMA NoTask ==
  ASSUME NEW T
  PROVE  << >> \in Seq(T) /\ Range(<< >>) = {}
  <1>1. << >> \in Seq(T)
    OBVIOUS
  <1> QED
    BY <1>1 DEF Range

LEMMA FirstTask ==
  ASSUME NEW T, NEW s \in Seq(T), s # << >>
  PROVE  /\ s[1] \in T /\ Tail(s) \in Seq(T)
         /\ Range(s) = {s[1]} \cup Range(Tail(s))
  <1>1. /\ s[1] \in T /\ Tail(s) \in Seq(T) /\ Len(Tail(s)) = Len(s) - 1
        /\ \A i \in 1 .. Len(Tail(s)) : Tail(s)[i] = s[i + 1]
        /\ Len(s) \in Nat /\ Len(s) >= 1
    BY HeadTailProperties, LenProperties, EmptySeq
  <1>2. Range(s) = {s[i] : i \in 1 .. Len(s)}
    BY RangeEquality
  <1>3. Range(Tail(s)) = {Tail(s)[i] : i \in 1 .. Len(Tail(s))}
    BY <1>1, RangeEquality
  <1>4. \A i \in 1 .. Len(s) : i = 1 \/ (i - 1 \in 1 .. Len(Tail(s)) /\ s[i] = Tail(s)[i - 1])
    BY <1>1
  <1>5. \A i \in 1 .. Len(Tail(s)) : i + 1 \in 1 .. Len(s) /\ Tail(s)[i] = s[i + 1]
    BY <1>1
  <1>6. 1 \in 1 .. Len(s)
    BY <1>1
  <1>7. ASSUME NEW x \in Range(s)
        PROVE  x = s[1] \/ x \in Range(Tail(s))
    <2>1. PICK i \in 1 .. Len(s) : x = s[i]
      BY <1>2, <1>7
    <2> QED
      BY <1>3, <1>4, <2>1
  <1>8. s[1] \in Range(s)
    BY <1>2, <1>6
  <1>9. ASSUME NEW x \in Range(Tail(s))
        PROVE  x \in Range(s)
    <2>1. PICK i \in 1 .. Len(Tail(s)) : x = Tail(s)[i]
      BY <1>3, <1>9
    <2> QED
      BY <1>2, <1>5, <2>1
  <1> QED
    BY <1>1, <1>7, <1>8, <1>9

(* A list in any order holds what there is.                                 *)
LEMMA Listing ==
  ASSUME NEW S, IsFiniteSet(S), NEW s \in SetToSeqs(S)
  PROVE  /\ DOMAIN s = 1 .. Cardinality(S) /\ Cardinality(S) \in Nat
         /\ \A i \in DOMAIN s : s[i] \in S
         /\ \A x \in S : \E i \in DOMAIN s : s[i] = x
  <1> DEFINE D == 1 .. Cardinality(S)
  <1>1. s \in [D -> S] /\ \A i, j \in D : i # j => s[i] # s[j]
    BY DEF SetToSeqs
  <1>2. Cardinality(S) \in Nat /\ IsFiniteSet(D) /\ Cardinality(D) = Cardinality(S)
    BY FS_CardinalityType, FS_Interval
  <1>3. s \in Injection(D, S)
    BY <1>1 DEF Injection, IsInjective
  <1>4. s \in Surjection(D, S)
    BY <1>2, <1>3, FS_Injection
  <1> QED
    BY <1>1, <1>2, <1>4 DEF Surjection

(* The calls made of a list.                                                *)
LEMMA Calls ==
  ASSUME NEW T, NEW n \in Nat, NEW c, DOMAIN c = 1 .. n, c = [i \in DOMAIN c |-> c[i]],
         \A i \in 1 .. n : c[i] \in T
  PROVE  c \in Seq(T) /\ Range(c) = {c[i] : i \in 1 .. n}
  <1>1. c \in [1 .. n -> T]
    OBVIOUS
  <1>2. c \in Seq(T)
    BY <1>1, IsASeq
  <1>3. Len(c) = n
    BY <1>1, <1>2, LenProperties
  <1> QED
    BY <1>2, <1>3, RangeEquality

-----------------------------------------------------------------------------
(* The walk's steps make the tree grow. *)

(* The next call can be made of what it is about.                           *)
LEMMA NextTask ==
  ASSUME AgendaTyped, agenda # << >>
  PROVE  /\ Task \in Tasks /\ TaskOK(Task)
         /\ Task[1] \in {"walk", "projects", "subgroups", "setgroup", "setproject"}
         /\ Task[2] \in Groups \cup Projects /\ Task = <<Task[1], Task[2]>>
         /\ Tail(agenda) \in Seq(Tasks)
         /\ Range(agenda) = {Task} \cup Range(Tail(agenda))
  <1>1. Task \in Tasks /\ Tail(agenda) \in Seq(Tasks)
        /\ Range(agenda) = {Task} \cup Range(Tail(agenda))
    BY FirstTask DEF AgendaTyped, Task
  <1>2. TaskOK(Task)
    BY <1>1 DEF AgendaTyped
  <1> QED
    BY <1>1, <1>2 DEF Tasks

LEMMA SetGrows ==
  ASSUME TreeOK, AgendaTyped, agenda # << >>, Task[1] \in {"setgroup", "setproject"},
         MaySet, Set
  PROVE  Grows
  <1>1. CASE Task[1] = "setgroup"
    <2>1. Task[2] \in Groups /\ group[Task[2]] # NoLevel
      BY <1>1, NextTask DEF TaskOK
    <2>2. MayPutGroup(Task[2], Desired) /\ GroupAt(Task[2], Desired)
      BY <1>1 DEF MaySet, Set
    <2> QED
      BY <2>1, <2>2, GroupPut DEF Grows
  <1>2. CASE Task[1] = "setproject"
    <2>1. Task[2] \in Projects /\ project[Task[2]] # NoLevel
      BY <1>2, NextTask DEF TaskOK
    <2>2. ProjectAllows(Task[2], Desired) /\ ProjectAt(Task[2], Desired)
      BY <1>2 DEF MaySet, Set
    <2> QED
      BY <2>1, <2>2, ProjectPut DEF Grows
  <1> QED
    BY <1>1, <1>2

(* The enforcer goes from the root group to the walk, and ends it.          *)
LEMMA EnforcerStep ==
  ASSUME TreeOK, Placed, Grows, UNCHANGED <<fallback, permitted, own, at>>,
         UNCHANGED pc \/ (\E to \in {"group", "walk", "done", "failed"} : Goto(Enforcer, to)),
         pc[Enforcer] = "idle" \/ pc[Enforcer] = "walk",
         pc'[Enforcer] = "walk" => group[Root] # NoLevel,
         pc'[Enforcer] = "group" => pc[Enforcer] = "idle"
  PROVE  TreeKept
  <1>1. /\ Enforcer \in Procs /\ OnWay(Enforcer) /\ DOMAIN pc = Procs /\ DOMAIN at = Procs
        /\ at[Enforcer] \in 1 .. Len(Way(Enforcer)) /\ Way(Enforcer)' = Way(Enforcer)
    BY OnHisWay DEF Procs
  <1>2. Moves(Enforcer)
    BY <1>1 DEF Moves, Goto, TreeOK, LevelsTyped
  <1>3. CASE UNCHANGED pc
    <2>1. pc[Enforcer] = "walk" => group'[Root] # NoLevel
      BY <1>2, <1>3, GrowsKeeps, NamespaceAssumption DEF Moves, Rises
    <2>2. OnWay(Enforcer)'
      BY <1>1, <1>3, <2>1 DEF OnWay
    <2> QED
      BY <1>1, <1>2, <2>2, ProcessStep DEF TreeKept
  <1>4. ASSUME NEW to \in {"group", "walk", "done", "failed"}, Goto(Enforcer, to)
        PROVE  TreeKept
    <2>1. pc'[Enforcer] = to
      BY <1>1, <1>4 DEF Goto
    <2>2. to = "walk" => group'[Root] # NoLevel
      BY <1>2, <2>1, GrowsKeeps, NamespaceAssumption DEF Moves, Rises
    <2>3. to = "group" => Made(Enforcer, at[Enforcer] - 1)'
      BY <1>1, <2>1 DEF OnWay, Made
    <2>4. OnWay(Enforcer)'
      BY <1>1, <1>4, <2>1, <2>2, <2>3 DEF OnWay, Places
    <2> QED
      BY <1>1, <1>2, <2>4, ProcessStep DEF TreeKept
  <1> QED
    BY <1>3, <1>4

LEMMA EnforcerTree ==
  ASSUME TreeOK, Placed, AgendaTyped,
         EnforceStart \/ List \/ EnforceSet \/ EnforceRefused \/ EnforceBreakdown \/ EnforceEnd
  PROVE  TreeKept
  <1>1. Enforcer \in Procs /\ DOMAIN pc = Procs /\ OnWay(Enforcer)
    BY DEF Procs, Placed
  <1>2. pc[Enforcer] = "walk" => group[Root] # NoLevel
    BY <1>1 DEF OnWay
  <1>3. CASE EnforceStart
    <2>1. Grows
      BY <1>3 DEF EnforceStart, Grows
    <2> QED
      BY <1>1, <1>3, <2>1, EnforcerStep DEF EnforceStart, Goto, settings
  <1>4. CASE List
    <2>1. Grows
      BY <1>4 DEF List, Grows
    <2>2. pc[Enforcer] = "walk"
      BY <1>4 DEF List, Doing
    <2> QED
      BY <1>2, <1>4, <2>1, <2>2, EnforcerStep DEF List, settings
  <1>5. CASE EnforceSet
    <2>1. Grows /\ pc[Enforcer] = "walk"
      BY <1>5, SetGrows DEF EnforceSet, Doing
    <2> QED
      BY <1>2, <1>5, <2>1, EnforcerStep DEF EnforceSet, settings
  <1>6. CASE EnforceRefused
    <2>1. Grows /\ pc[Enforcer] = "walk"
      BY <1>6 DEF EnforceRefused, Grows, Doing
    <2> QED
      BY <1>1, <1>2, <1>6, <2>1, EnforcerStep
      DEF EnforceRefused, CountOrRaise, Raise, Goto, settings
  <1>7. CASE EnforceBreakdown
    <2>1. Grows /\ pc[Enforcer] = "walk"
      BY <1>7, SetGrows DEF EnforceBreakdown, Grows
    <2> QED
      BY <1>1, <1>2, <1>7, <2>1, EnforcerStep
      DEF EnforceBreakdown, CountOrRaise, Raise, Goto, settings
  <1>8. CASE EnforceEnd
    <2>1. Grows /\ pc[Enforcer] = "walk"
      BY <1>8 DEF EnforceEnd, Grows
    <2> QED
      BY <1>1, <1>2, <1>8, <2>1, EnforcerStep DEF EnforceEnd, Goto, settings
  <1> QED
    BY <1>3, <1>4, <1>5, <1>6, <1>7, <1>8

-----------------------------------------------------------------------------
(* The walk reaches what was there when it began. *)

(* What walk() does of a group reaches the group and all that is in it.     *)
LEMMA WalkReaches ==
  ASSUME NEW g \in Groups, group[g] # NoLevel
  PROVE  /\ Walk(g) \in Tasks /\ TaskOK(Walk(g))
         /\ \A x : Within(g, x) => Covers(Walk(g), x)
         /\ group[g] = Desired \/ Covers(Walk(g), g)
         /\ (\A h \in Groups : IsParent(h, g) => group[h] = Desired) => TopDown(Walk(g))
  <1>1. CASE group[g] = Desired
    <2>1. Walk(g) = <<"projects", g>>
      BY <1>1 DEF Walk
    <2>2. Walk(g)[1] = "projects" /\ Walk(g)[2] = g /\ Walk(g) \in Tasks
      <3>1. <<"projects", g>> \in Tasks
        BY TaskTypes
      <3>2. <<"projects", g>>[1] = "projects" /\ <<"projects", g>>[2] = g
        OBVIOUS
      <3> QED
        BY <2>1, <3>1, <3>2
    <2>3. TaskOK(Walk(g)) /\ TopDown(Walk(g))
      BY <1>1, <2>2 DEF TaskOK, TopDown
    <2>4. \A x : Within(g, x) => Covers(Walk(g), x)
      BY <2>2 DEF Covers
    <2> QED
      BY <1>1, <2>2, <2>3, <2>4
  <1>2. CASE group[g] # Desired
    <2>1. Walk(g) = <<"setgroup", g>>
      BY <1>2 DEF Walk
    <2>2. Walk(g)[1] = "setgroup" /\ Walk(g)[2] = g /\ Walk(g) \in Tasks
      <3>1. <<"setgroup", g>> \in Tasks
        BY TaskTypes
      <3>2. <<"setgroup", g>>[1] = "setgroup" /\ <<"setgroup", g>>[2] = g
        OBVIOUS
      <3> QED
        BY <2>1, <3>1, <3>2
    <2>3. TaskOK(Walk(g))
      BY <2>2 DEF TaskOK
    <2>4. /\ Covers(Walk(g), g)
          /\ \A x : Within(g, x) => Covers(Walk(g), x)
      BY <2>2 DEF Covers
    <2>5. (\A h \in Groups : IsParent(h, g) => group[h] = Desired) => TopDown(Walk(g))
      BY <2>2 DEF TopDown
    <2> QED
      BY <2>2, <2>3, <2>4, <2>5
  <1> QED
    BY <1>1, <1>2

(* What is there stays there, and a call that can be made still can.        *)
LEMMA TaskKept ==
  ASSUME Rises, NEW t \in Tasks, TaskOK(t)
  PROVE  TaskOK(t)' /\ (TopDown(t) => TopDown(t)')
  <1>1. ASSUME t[1] = "setproject"
        PROVE  Namespace(t[2]) \in Groups
    <2>1. Len(Path[t[2]]) \in 1 .. Len(Path[t[2]])
      BY <1>1, Paths DEF TaskOK
    <2> QED
      BY <1>1, <2>1, Paths DEF TaskOK, Namespace
  <1> QED
    BY <1>1 DEF TaskOK, TopDown, Rises

LEMMA KnownKept ==
  ASSUME Rises, NEW x \in Groups \cup Projects
  PROVE  (There(x) => There(x)') /\ (AtLevel(x) => AtLevel(x)')
  BY DEF There, AtLevel, Rises

(* What the step of a job, or of the enforcer before its walk, leaves.      *)
LEMMA AgendaKept ==
  ASSUME AgendaOK, Rises, UNCHANGED enforcement,
         \/ pc'[Enforcer] = pc[Enforcer]
         \/ pc[Enforcer] \notin {"idle", "failed"} /\ pc'[Enforcer] \notin {"idle", "done"}
  PROVE  AgendaOK'
  <1>1. UNCHANGED <<agenda, skipped, known, lowering>> /\ AgendaTyped
    BY DEF enforcement, AgendaOK
  <1>2. \A t \in Range(agenda) : TaskOK(t)' /\ (TopDown(t) => TopDown(t)')
    BY <1>1, TaskKept, RangeEquality, ElementOfSeq DEF AgendaTyped
  <1>3. AgendaTyped'
    BY <1>1, <1>2 DEF AgendaTyped
  <1>4. Covered'
    BY <1>1, KnownKept DEF AgendaTyped, AgendaOK, Covered
  <1>5. Orderly'
    BY <1>1, <1>2 DEF AgendaOK, Orderly, Rises
  <1> QED
    BY <1>1, <1>3, <1>4, <1>5 DEF AgendaOK

(* A call is replaced by what follows from it.                              *)
LEMMA Replaced ==
  ASSUME AgendaOK, Rises, pc[Enforcer] = "walk", agenda # << >>,
         UNCHANGED <<pc, skipped, known, lowering>>,
         NEW new \in Seq(Tasks), agenda' = new \o Tail(agenda),
         \A t \in Range(new) : TaskOK(t)' /\ (TopDown(Task) => TopDown(t)'),
         \A x \in known : There(x) /\ Covers(Task, x) =>
           AtLevel(x)' \/ \E t \in Range(new) : Covers(t, x)
  PROVE  AgendaOK'
  <1>1. /\ AgendaTyped /\ Task \in Range(agenda)
        /\ Tail(agenda) \in Seq(Tasks) /\ Range(agenda) = {Task} \cup Range(Tail(agenda))
    BY NextTask DEF AgendaOK
  <1>2. agenda' \in Seq(Tasks) /\ Range(agenda') = Range(new) \cup Range(Tail(agenda))
    <2>1. new \o Tail(agenda) \in Seq(Tasks)
      BY <1>1, ConcatProperties
    <2>2. Range(new \o Tail(agenda)) = Range(new) \cup Range(Tail(agenda))
      <3>1. new \in Seq(Tasks) /\ Tail(agenda) \in Seq(Tasks)
        BY <1>1
      <3> QED
        BY ONLY <3>1, RangeConcatenation
    <2> QED
      BY <2>1, <2>2
  <1>3. \A t \in Range(Tail(agenda)) :
          t \in Range(agenda) /\ TaskOK(t)' /\ (TopDown(t) => TopDown(t)')
    BY <1>1, TaskKept, RangeEquality, ElementOfSeq DEF AgendaTyped
  <1>4. AgendaTyped'
    BY <1>1, <1>2, <1>3 DEF AgendaTyped
  <1>5. Covered'
    <2>1. ASSUME NEW x \in known
          PROVE  There(x)' /\ (AtLevel(x)' \/ \E t \in Range(agenda') : Covers(t, x))
      <3>1. /\ There(x) /\ (AtLevel(x) \/ \E t \in Range(agenda) : Covers(t, x))
            /\ There(x)' /\ (AtLevel(x) => AtLevel(x)')
        BY <1>1, KnownKept DEF AgendaOK, AgendaTyped, Covered
      <3>2. CASE \E t \in Range(Tail(agenda)) : Covers(t, x)
        BY <1>2, <3>1, <3>2
      <3>3. CASE Covers(Task, x)
        BY <1>2, <3>1, <3>3
      <3> QED
        BY <1>1, <3>1, <3>2, <3>3
    <2> QED
      BY <2>1 DEF Covered
  <1>6. Orderly'
    <2>1. ~skipped => \A t \in Range(agenda') : TopDown(t)'
      BY <1>1, <1>2, <1>3 DEF AgendaOK, Orderly
    <2> QED
      BY <2>1 DEF AgendaOK, Orderly, Rises
  <1> QED
    BY <1>4, <1>5, <1>6 DEF AgendaOK

(* What is in a group is there only if the group is.                        *)
LEMMA ThereAbove ==
  ASSUME TreeOK, NEW g \in Groups, NEW x \in Groups \cup Projects, There(x), Within(g, x)
  PROVE  group[g] # NoLevel
  <1>1. CASE IsAbove(g, x)
    <2>1. x \in Groups
      BY <1>1, Paths DEF IsAbove
    <2> QED
      BY <1>1, <2>1 DEF TreeOK, WellPlaced, There
  <1>2. CASE x \in Projects /\ \E i \in 1 .. Len(Path[x]) : Path[x][i] = g
    <2>1. x \notin Groups
      BY <1>2, NamespaceAssumption
    <2> QED
      BY <1>2, <2>1 DEF TreeOK, WellPlaced, There
  <1> QED
    BY <1>1, <1>2 DEF Within

(* The walk begins with the root group, whose content is all there is.      *)
LEMMA RootReaches ==
  ASSUME group[Root] # NoLevel
  PROVE  /\ Walk(Root) \in Tasks /\ TaskOK(Walk(Root)) /\ TopDown(Walk(Root))
         /\ \A x \in Groups \cup Projects : There(x) => AtLevel(x) \/ Covers(Walk(Root), x)
  <1>1. Root \in Groups
    BY NamespaceAssumption
  <1>2. TopDown(Walk(Root))
    BY <1>1, WalkReaches, RootIsTop
  <1>3. \A x \in Groups \cup Projects : x = Root \/ Covers(Walk(Root), x)
    BY <1>1, WalkReaches, WithinRoot
  <1>4. AtLevel(Root) \/ Covers(Walk(Root), Root)
    BY <1>1, WalkReaches DEF AtLevel
  <1> QED
    BY <1>1, <1>2, <1>3, <1>4, WalkReaches

LEMMA StartAgenda ==
  ASSUME TreeOK, AgendaOK, EnforceStart, DOMAIN pc = Procs
  PROVE  AgendaOK'
  <1>1. UNCHANGED <<group, project, skipped>> /\ skipped \in BOOLEAN
    BY DEF EnforceStart, AgendaOK, AgendaTyped
  <1>2. pc'[Enforcer] \in {"group", "walk"}
    BY DEF EnforceStart, Goto, Procs
  <1>3. known' \subseteq Groups \cup Projects /\ \A x \in known' : There(x) /\ There(x)'
    BY <1>1, NamespaceAssumption DEF EnforceStart, There
  <1>4. lowering' \in BOOLEAN
    BY DEF EnforceStart
  <1>5. PICK t : agenda' = <<t>> /\ t = IF group[Root] = NoLevel THEN <<"walk", Root>> ELSE Walk(Root)
    BY DEF EnforceStart
  <1>6. /\ t \in Tasks /\ TaskOK(t) /\ TopDown(t)
        /\ \A x \in known' : AtLevel(x) \/ Covers(t, x)
    <2>1. CASE group[Root] = NoLevel
      <3>1. t = <<"walk", Root>> /\ t[1] = "walk" /\ t[2] = Root /\ Root \in Groups
        BY <1>5, <2>1, NamespaceAssumption
      <3>2. t \in Tasks /\ TaskOK(t) /\ TopDown(t)
        BY <3>1, TaskTypes DEF TaskOK, TopDown
      <3>3. \A x \in known' : Covers(t, x)
        BY <1>3, <3>1, WithinRoot DEF Covers
      <3> QED
        BY <3>2, <3>3
    <2>2. CASE group[Root] # NoLevel
      <3>1. t = Walk(Root)
        BY <1>5, <2>2
      <3> QED
        BY <1>3, <2>2, <3>1, RootReaches
    <2> QED
      BY <2>1, <2>2
  <1>7. agenda' \in Seq(Tasks) /\ Range(agenda') = {t}
    BY <1>5, <1>6, OneTask
  <1>8. TaskOK(t)' /\ TopDown(t)' /\ \A x \in known' : AtLevel(x)' \/ Covers(t, x)
    BY <1>1, <1>6 DEF TaskOK, TopDown, AtLevel
  <1>9. AgendaTyped'
    BY <1>1, <1>3, <1>4, <1>7, <1>8 DEF AgendaTyped
  <1>10. Covered'
    BY <1>3, <1>7, <1>8 DEF Covered
  <1>11. Orderly'
    BY <1>7, <1>8 DEF Orderly
  <1> QED
    BY <1>2, <1>9, <1>10, <1>11 DEF AgendaOK

(* A list is taken apart into calls of all it holds.                        *)
LEMMA ListAgenda ==
  ASSUME TreeOK, Placed, AgendaOK, List
  PROVE  AgendaOK'
  <1>1. /\ pc[Enforcer] = "walk" /\ agenda # << >> /\ AgendaTyped
        /\ UNCHANGED <<group, project, pc, skipped, known, lowering>>
    BY DEF List, Doing, AgendaOK
  <1>2. /\ Task \in Tasks /\ TaskOK(Task) /\ Task = <<Task[1], Task[2]>>
        /\ Tail(agenda) \in Seq(Tasks) /\ Range(agenda) = {Task} \cup Range(Tail(agenda))
    BY <1>1, NextTask
  <1>3. Rises
    BY <1>1 DEF Rises
  <1>4. \A t : (TaskOK(t) => TaskOK(t)') /\ (TopDown(t) => TopDown(t)')
    BY <1>1 DEF TaskOK, TopDown
  <1>5. \A x : AtLevel(x) => AtLevel(x)'
    BY <1>1 DEF AtLevel
  <1>6. CASE Doing("walk") /\ agenda' = <<Walk(Root)>>
    <2>1. group[Root] # NoLevel
      BY <1>1 DEF Placed, OnWay, Procs
    <2>2. PICK t : t = Walk(Root)
      OBVIOUS
    <2>3. /\ t \in Tasks /\ TaskOK(t)' /\ TopDown(t)'
          /\ \A x \in known : There(x) => AtLevel(x)' \/ Covers(t, x)
      BY <1>1, <1>4, <1>5, <2>1, <2>2, RootReaches DEF AgendaTyped
    <2>4. agenda' \in Seq(Tasks) /\ Range(agenda') = {t}
      BY <1>6, <2>2, <2>3, OneTask
    <2>5. AgendaTyped'
      BY <1>1, <2>3, <2>4 DEF AgendaTyped
    <2>6. Covered'
      <3>1. \A x \in known : There(x) /\ There(x)'
        BY <1>1 DEF AgendaOK, Covered, There
      <3> QED
        BY <1>1, <2>3, <2>4, <3>1 DEF Covered
    <2>7. Orderly'
      BY <1>1, <1>3, <2>3, <2>4 DEF AgendaOK, Orderly, Rises
    <2> QED
      BY <1>1, <2>5, <2>6, <2>7 DEF AgendaOK
  <1>7. ASSUME Doing("projects"), NEW s \in SetToSeqs(Differing(Task[2])),
               agenda' = [i \in DOMAIN s |-> <<"setproject", s[i]>>]
                         \o <<<<"subgroups", Task[2]>>>> \o Tail(agenda)
        PROVE  AgendaOK'
    <2>1. PICK g, calls, last :
            /\ g = Task[2] /\ calls = [i \in DOMAIN s |-> <<"setproject", s[i]>>]
            /\ last = <<"subgroups", g>>
      OBVIOUS
    <2>2. Task[1] = "projects" /\ g \in Groups /\ s \in SetToSeqs(Differing(g))
      BY <1>2, <1>7, <2>1 DEF Doing, TaskOK
    <2>3. Differing(g) \subseteq Projects /\ IsFiniteSet(Differing(g))
      BY FS_Subset, NamespaceAssumption DEF Differing
    <2>4. PICK n \in Nat :
            /\ DOMAIN s = 1 .. n /\ \A i \in 1 .. n : s[i] \in Differing(g)
            /\ \A p \in Differing(g) : \E i \in 1 .. n : s[i] = p
      BY <2>2, <2>3, Listing
    <2>5. DOMAIN calls = 1 .. n /\ \A i \in 1 .. n : calls[i] = <<"setproject", s[i]>>
      BY <2>1, <2>4
    <2>6. \A i \in 1 .. n : calls[i] \in Tasks
      BY <2>3, <2>4, <2>5, TaskTypes
    <2>7. calls \in Seq(Tasks) /\ Range(calls) = {calls[i] : i \in 1 .. n}
      <3>1. calls = [i \in DOMAIN calls |-> calls[i]]
        BY <2>1
      <3> QED
        BY <2>5, <2>6, <3>1, Calls
    <2>8. last \in Tasks /\ last[1] = "subgroups" /\ last[2] = g
      BY <2>1, <2>2, TaskTypes
    <2>9. PICK new : new = calls \o <<last>>
      OBVIOUS
    <2>10. new \in Seq(Tasks) /\ Range(new) = Range(calls) \cup {last}
      <3>1. <<last>> \in Seq(Tasks) /\ Range(<<last>>) = {last}
        BY <2>8, OneTask
      <3>2. calls \o <<last>> \in Seq(Tasks)
        BY <2>7, <3>1, ConcatProperties
      <3>3. Range(calls \o <<last>>) = Range(calls) \cup Range(<<last>>)
        <4>1. calls \in Seq(Tasks) /\ <<last>> \in Seq(Tasks)
          BY <2>7, <3>1
        <4> QED
          BY ONLY <4>1, RangeConcatenation
      <3> QED
        BY <2>9, <3>1, <3>2, <3>3
    <2>11. agenda' = new \o Tail(agenda)
      BY <1>7, <2>1, <2>9
    <2>12. ASSUME NEW i \in 1 .. n
           PROVE  TaskOK(calls[i])' /\ (TopDown(Task) => TopDown(calls[i])')
      <3>1. calls[i][1] = "setproject" /\ calls[i][2] = s[i] /\ s[i] \in Projects
            /\ Namespace(s[i]) = g /\ project[s[i]] # NoLevel
        BY <2>4, <2>5 DEF Differing
      <3> QED
        BY <1>1, <2>1, <2>2, <3>1 DEF TaskOK, TopDown
    <2>13. TaskOK(last)' /\ (TopDown(Task) => TopDown(last)')
      BY <1>1, <2>1, <2>2, <2>8 DEF TaskOK, TopDown
    <2>14. \A t \in Range(new) : TaskOK(t)' /\ (TopDown(Task) => TopDown(t)')
      BY <2>7, <2>10, <2>12, <2>13
    <2>15. ASSUME NEW x \in known, There(x), Covers(Task, x)
           PROVE  AtLevel(x)' \/ \E t \in Range(new) : Covers(t, x)
      <3>1. Within(g, x)
        BY <2>1, <2>2, <2>15 DEF Covers
      <3>2. ASSUME x \in Projects, Namespace(x) = g
            PROVE  AtLevel(x) \/ \E t \in Range(new) : Covers(t, x)
        <4>1. x \notin Groups /\ project[x] # NoLevel
          BY <2>15, <3>2, NamespaceAssumption DEF There
        <4>2. CASE project[x] = Desired
          BY <4>1, <4>2 DEF AtLevel
        <4>3. CASE project[x] # Desired
          <5>1. x \in Differing(g)
            BY <3>2, <4>1, <4>3 DEF Differing
          <5>2. PICK i \in 1 .. n : s[i] = x
            BY <2>4, <5>1
          <5>3. calls[i] \in Range(new) /\ calls[i][1] = "setproject" /\ calls[i][2] = x
            BY <2>5, <2>7, <2>10, <5>2
          <5> QED
            BY <5>3 DEF Covers
        <4> QED
          BY <4>2, <4>3
      <3>3. ASSUME NEW h \in Groups, IsParent(g, h), x = h \/ Within(h, x)
            PROVE  Covers(last, x)
        BY <2>8, <3>3 DEF Covers
      <3> QED
        BY <1>5, <2>10, <3>1, <3>2, <3>3, WithinByChild
    <2> QED
      BY <1>1, <1>3, <2>10, <2>11, <2>14, <2>15, Replaced
  <1>8. ASSUME Doing("subgroups"), NEW s \in SetToSeqs(Subgroups(Task[2])),
               agenda' = [i \in DOMAIN s |-> Walk(s[i])] \o Tail(agenda)
        PROVE  AgendaOK'
    <2>1. PICK g, new : g = Task[2] /\ new = [i \in DOMAIN s |-> Walk(s[i])]
      OBVIOUS
    <2>2. Task[1] = "subgroups" /\ g \in Groups /\ s \in SetToSeqs(Subgroups(g))
      BY <1>2, <1>8, <2>1 DEF Doing, TaskOK
    <2>3. Subgroups(g) \subseteq Groups /\ IsFiniteSet(Subgroups(g))
      BY FS_Subset, NamespaceAssumption DEF Subgroups
    <2>4. PICK n \in Nat :
            /\ DOMAIN s = 1 .. n /\ \A i \in 1 .. n : s[i] \in Subgroups(g)
            /\ \A h \in Subgroups(g) : \E i \in 1 .. n : s[i] = h
      BY <2>2, <2>3, Listing
    <2>5. DOMAIN new = 1 .. n /\ \A i \in 1 .. n : new[i] = Walk(s[i])
      BY <2>1, <2>4
    <2>6. \A i \in 1 .. n : s[i] \in Groups /\ group[s[i]] # NoLevel /\ IsParent(g, s[i])
      BY <2>4 DEF Subgroups
    <2>7. \A i \in 1 .. n : new[i] \in Tasks /\ TaskOK(new[i])
      BY <2>5, <2>6, WalkReaches
    <2>8. new \in Seq(Tasks) /\ Range(new) = {new[i] : i \in 1 .. n}
      BY <2>1, <2>5, <2>7, Calls
    <2>9. agenda' = new \o Tail(agenda)
      BY <1>8, <2>1
    <2>10. ASSUME TopDown(Task), NEW i \in 1 .. n
           PROVE  TopDown(new[i])
      <3>1. group[g] = Desired
        BY <2>1, <2>2, <2>10 DEF TopDown
      <3>2. \A h \in Groups : IsParent(h, s[i]) => group[h] = Desired
        BY <2>6, <3>1, OneParent
      <3> QED
        BY <2>5, <2>6, <3>2, WalkReaches
    <2>11. \A t \in Range(new) : TaskOK(t)' /\ (TopDown(Task) => TopDown(t)')
      BY <1>4, <2>7, <2>8, <2>10
    <2>12. ASSUME NEW x \in known, There(x), Covers(Task, x)
           PROVE  AtLevel(x)' \/ \E t \in Range(new) : Covers(t, x)
      <3>1. PICK h \in Groups : IsParent(g, h) /\ (x = h \/ Within(h, x))
        BY <2>1, <2>2, <2>12 DEF Covers
      <3>2. group[h] # NoLevel
        BY <1>1, <2>12, <3>1, ThereAbove DEF AgendaTyped, There
      <3>3. PICK i \in 1 .. n : s[i] = h
        BY <2>4, <3>1, <3>2 DEF Subgroups
      <3>4. new[i] = Walk(h) /\ new[i] \in Range(new)
        BY <2>5, <2>8, <3>3
      <3>5. AtLevel(x) \/ Covers(new[i], x)
        BY <3>1, <3>2, <3>4, WalkReaches DEF AtLevel
      <3> QED
        BY <1>5, <3>4, <3>5
    <2> QED
      BY <1>1, <1>3, <2>8, <2>9, <2>11, <2>12, Replaced
  <1> QED
    BY <1>6, <1>7, <1>8 DEF List

(* A call that GitLab carries out brings its target to the level.           *)
LEMMA SetAgenda ==
  ASSUME TreeOK, AgendaOK, Rises, EnforceSet
  PROVE  AgendaOK'
  <1>1. /\ pc[Enforcer] = "walk" /\ agenda # << >> /\ AgendaTyped
        /\ Task[1] \in {"setgroup", "setproject"} /\ agenda' = Onward
        /\ UNCHANGED <<pc, skipped, known, lowering>>
    BY DEF EnforceSet, Doing, AgendaOK
  <1>2. TaskOK(Task) /\ Tail(agenda) \in Seq(Tasks)
    BY <1>1, NextTask
  <1>3. CASE Task[1] = "setgroup"
    <2>1. PICK g, t : g = Task[2] /\ t = <<"projects", g>>
      OBVIOUS
    <2>2. g \in Groups /\ group' = [group EXCEPT ![g] = Desired] /\ DOMAIN group = Groups
      BY <1>2, <1>3, <2>1 DEF EnforceSet, Set, GroupAt, TaskOK, TreeOK, LevelsTyped
    <2>3. group'[g] = Desired
      BY <2>2
    <2>4. t \in Tasks /\ t[1] = "projects" /\ t[2] = g
      BY <2>1, <2>2, TaskTypes
    <2>5. <<t>> \in Seq(Tasks) /\ Range(<<t>>) = {t}
      BY <2>4, OneTask
    <2>6. agenda' = <<t>> \o Tail(agenda)
      BY <1>1, <1>3, <2>1 DEF Onward
    <2>7. TaskOK(t)' /\ TopDown(t)'
      BY <2>2, <2>3, <2>4 DEF TaskOK, TopDown
    <2>8. \A x : Covers(Task, x) => AtLevel(x)' \/ Covers(t, x)
      BY <1>3, <2>1, <2>2, <2>3, <2>4 DEF Covers, AtLevel
    <2> QED
      BY <1>1, <2>5, <2>6, <2>7, <2>8, Replaced
  <1>4. CASE Task[1] = "setproject"
    <2>1. Task[2] \in Projects /\ Task[2] \notin Groups
      BY <1>2, <1>4, NamespaceAssumption DEF TaskOK
    <2>2. project' = [project EXCEPT ![Task[2]] = Desired] /\ DOMAIN project = Projects
      BY <1>4 DEF EnforceSet, Set, ProjectAt, TreeOK, LevelsTyped
    <2>3. \A x : Covers(Task, x) => AtLevel(x)'
      BY <1>4, <2>1, <2>2 DEF Covers, AtLevel
    <2>4. << >> \in Seq(Tasks) /\ Range(<< >>) = {}
      BY NoTask
    <2>5. agenda' = << >> \o Tail(agenda)
      BY <1>1, <1>4 DEF Onward
    <2> QED
      BY <1>1, <2>3, <2>4, <2>5, Replaced
  <1> QED
    BY <1>1, <1>3, <1>4

(* A walk that has had an error answer promises nothing any more.           *)
LEMMA CountedAgenda ==
  ASSUME AgendaTyped, Rises, DOMAIN pc = Procs, pc[Enforcer] = "walk", agenda # << >>,
         Task[1] \in {"setgroup", "setproject"}, CountOrRaise
  PROVE  AgendaOK'
  <1>1. skipped' = TRUE /\ known' = {} /\ lowering' = FALSE
    BY DEF CountOrRaise
  <1>2. Covered' /\ Orderly'
    BY <1>1 DEF Covered, Orderly
  <1>3. CASE Raise
    <2>1. agenda' = << >>
      BY <1>3 DEF Raise
    <2>2. AgendaTyped'
      BY <1>1, <2>1, NoTask DEF AgendaTyped
    <2> QED
      BY <1>2, <2>1, <2>2 DEF AgendaOK
  <1>4. CASE agenda' = Onward /\ UNCHANGED pc
    <2>1. /\ TaskOK(Task) /\ Tail(agenda) \in Seq(Tasks)
          /\ Range(agenda) = {Task} \cup Range(Tail(agenda))
      BY NextTask
    <2>2. \A t \in Range(Tail(agenda)) : TaskOK(t)'
      BY <2>1, TaskKept, RangeEquality, ElementOfSeq DEF AgendaTyped
    <2>3. PICK new :
            new = IF Task[1] = "setgroup" THEN <<<<"projects", Task[2]>>>> ELSE << >>
      OBVIOUS
    <2>4. new \in Seq(Tasks) /\ \A t \in Range(new) : TaskOK(t)'
      <3>1. CASE Task[1] = "setgroup"
        <4>1. PICK t : t = <<"projects", Task[2]>>
          OBVIOUS
        <4>2. t \in Tasks /\ t[1] = "projects" /\ t[2] \in Groups
          BY <2>1, <3>1, <4>1, TaskTypes DEF TaskOK
        <4>3. TaskOK(t)'
          BY <4>2 DEF TaskOK
        <4>4. new = <<t>>
          BY <2>3, <3>1, <4>1
        <4> QED
          BY <4>2, <4>3, <4>4, OneTask
      <3>2. CASE Task[1] = "setproject"
        <4>1. new = << >>
          BY <2>3, <3>2
        <4> QED
          BY <4>1, NoTask
      <3> QED
        BY <3>1, <3>2
    <2>5. agenda' = new \o Tail(agenda)
      BY <1>4, <2>3 DEF Onward
    <2>6. new \in Seq(Tasks) /\ Tail(agenda) \in Seq(Tasks)
      BY <2>1, <2>4
    <2>7. new \o Tail(agenda) \in Seq(Tasks)
          /\ Range(new \o Tail(agenda)) = Range(new) \cup Range(Tail(agenda))
      <3>1. new \o Tail(agenda) \in Seq(Tasks)
        BY <2>6, ConcatProperties
      <3>2. Range(new \o Tail(agenda)) = Range(new) \cup Range(Tail(agenda))
        <4>1. \A a, b \in Seq(Tasks) : Range(a \o b) = Range(a) \cup Range(b)
          BY RangeConcatenation
        <4> QED
          BY <2>6, <4>1
      <3> QED
        BY <3>1, <3>2
    <2>8. AgendaTyped'
      BY <1>1, <2>2, <2>4, <2>5, <2>7 DEF AgendaTyped
    <2> QED
      BY <1>2, <1>4, <2>8 DEF AgendaOK
  <1> QED
    BY <1>3, <1>4 DEF CountOrRaise

LEMMA BreakdownAgenda ==
  ASSUME AgendaOK, Rises, DOMAIN pc = Procs, EnforceBreakdown
  PROVE  AgendaOK'
  <1>1. AgendaTyped /\ pc[Enforcer] = "walk" /\ agenda # << >>
    BY DEF EnforceBreakdown, AgendaOK
  <1>2. CASE Raise /\ UNCHANGED <<skipped, known, lowering>>
    <2>1. agenda' = << >> /\ pc'[Enforcer] = "failed"
      BY <1>2 DEF Raise, Goto, Procs
    <2>2. AgendaTyped'
      BY <1>1, <1>2, <2>1, NoTask DEF AgendaTyped
    <2>3. Covered' /\ Orderly'
      BY <1>1, <1>2, <2>1, NoTask DEF AgendaOK, Covered, Orderly, Rises
    <2> QED
      BY <2>1, <2>2, <2>3 DEF AgendaOK
  <1>3. CASE Task[1] \in {"setgroup", "setproject"} /\ CountOrRaise
    BY <1>1, <1>3, CountedAgenda
  <1> QED
    BY <1>2, <1>3 DEF EnforceBreakdown

LEMMA EndAgenda ==
  ASSUME AgendaOK, DOMAIN pc = Procs, EnforceEnd
  PROVE  AgendaOK'
  <1>1. /\ pc[Enforcer] = "walk" /\ pc'[Enforcer] = "done" /\ agenda = << >>
        /\ UNCHANGED <<group, project, agenda, skipped, known, lowering>>
    BY DEF EnforceEnd, Goto, Procs, enforcement
  <1>2. AgendaTyped'
    BY <1>1 DEF AgendaOK, AgendaTyped, TaskOK
  <1>3. Covered'
    BY <1>1 DEF AgendaOK, Covered, There, AtLevel
  <1>4. Orderly'
    BY <1>1 DEF AgendaOK, Orderly, TopDown
  <1> QED
    BY <1>1, <1>2, <1>3, <1>4 DEF AgendaOK

LEMMA ReturnAgenda ==
  ASSUME AgendaOK, Rises, DOMAIN pc = Procs, NEW j \in Procs, Return(j)
  PROVE  AgendaOK'
  <1>1. CASE j = Enforcer
    <2>1. /\ agenda' = << >> /\ skipped' = FALSE /\ known' = {} /\ lowering' = FALSE
          /\ pc'[Enforcer] = "idle"
      BY <1>1 DEF Return, Goto
    <2>2. AgendaTyped' /\ Covered' /\ Orderly'
      BY <2>1, NoTask DEF AgendaTyped, Covered, Orderly
    <2> QED
      BY <2>1, <2>2 DEF AgendaOK
  <1>2. CASE j # Enforcer
    <2>1. pc'[Enforcer] = pc[Enforcer] /\ UNCHANGED enforcement
      BY <1>2 DEF Return, Goto
    <2> QED
      BY <2>1, AgendaKept
  <1> QED
    BY <1>1, <1>2

-----------------------------------------------------------------------------
(* The tree, the ways and the agenda are as they should be in every state.  *)
TreeInv == TreeOK /\ Placed /\ AgendaOK

LEMMA TreeInit == Init => TreeInv
  <1> SUFFICES ASSUME Init PROVE TreeInv
    OBVIOUS
  <1>1. /\ permitted \subseteq Levels /\ own \in [Jobs -> Projects] /\ fallback \in Levels \cup {NoLevel}
        /\ group \in [Groups -> Levels \cup {NoLevel}]
        /\ project \in [Projects -> Levels \cup {NoLevel}]
    BY DEF Init, Levels
  <1>2. TreeOK
    BY <1>1 DEF Init, TreeOK, LevelsTyped
  <1>3. \A j \in Procs : Len(Way(j)) \in Nat /\ Len(Way(j)) >= 1
    BY <1>1, Ways
  <1>4. ASSUME NEW j \in Procs
        PROVE  OnWay(j)
    <2>1. pc[j] = "idle" /\ at[j] = 1 /\ 1 \in 1 .. Len(Way(j))
      BY <1>3 DEF Init
    <2> QED
      BY <2>1 DEF OnWay, Places
  <1>5. Placed
    BY <1>4 DEF Init, Placed
  <1>6. /\ agenda = << >> /\ skipped = FALSE /\ known = {} /\ lowering = FALSE
        /\ pc[Enforcer] = "idle"
    BY DEF Init, Procs
  <1>7. AgendaTyped /\ Covered /\ Orderly
    BY <1>6, NoTask DEF AgendaTyped, Covered, Orderly
  <1>8. AgendaOK
    BY <1>6, <1>7 DEF AgendaOK
  <1> QED
    BY <1>2, <1>5, <1>8 DEF TreeInv

LEMMA TreeStep == TreeInv /\ [Next]_vars => TreeInv'
  <1> SUFFICES ASSUME TreeInv, [Next]_vars PROVE TreeInv'
    OBVIOUS
  <1>a. TreeOK /\ Placed /\ AgendaOK /\ AgendaTyped /\ DOMAIN pc = Procs
    BY DEF TreeInv, AgendaOK, Placed
  <1>b. Enforcer \in Procs /\ Jobs \subseteq Procs /\ Enforcer \notin Jobs
    BY NamespaceAssumption DEF Procs
  <1>c. TreeKept /\ AgendaOK' => TreeInv'
    BY DEF TreeKept, TreeInv
  <1>1. ASSUME NEW j \in Jobs, Start(j) PROVE TreeInv'
    <2>1. TreeKept
      BY <1>a, <1>b, <1>1, StartTree
    <2>2. UNCHANGED enforcement /\ pc'[Enforcer] = pc[Enforcer]
      BY <1>a, <1>b, <1>1 DEF Start, Goto
    <2> QED
      BY <1>a, <1>c, <2>1, <2>2, AgendaKept DEF TreeKept
  <1>2. ASSUME NEW j \in Jobs, PostProject(j) PROVE TreeInv'
    <2>1. TreeKept
      BY <1>a, <1>b, <1>2, PostProjectTree
    <2>2. UNCHANGED enforcement /\ pc'[Enforcer] = pc[Enforcer]
      BY <1>a, <1>b, <1>2 DEF PostProject, Goto
    <2> QED
      BY <1>a, <1>c, <2>1, <2>2, AgendaKept DEF TreeKept
  <1>3. ASSUME NEW j \in Jobs, PostProjectRefused(j) PROVE TreeInv'
    <2>1. TreeKept
      BY <1>a, <1>b, <1>3, PostProjectRefusedTree
    <2>2. UNCHANGED enforcement /\ pc'[Enforcer] = pc[Enforcer]
      BY <1>a, <1>b, <1>3 DEF PostProjectRefused, Goto
    <2> QED
      BY <1>a, <1>c, <2>1, <2>2, AgendaKept DEF TreeKept
  <1>4. ASSUME NEW j \in Jobs, PostFallbackProject(j) PROVE TreeInv'
    <2>1. TreeKept
      BY <1>a, <1>b, <1>4, PostFallbackProjectTree
    <2>2. UNCHANGED enforcement /\ pc'[Enforcer] = pc[Enforcer]
      BY <1>a, <1>b, <1>4 DEF PostFallbackProject, Goto
    <2> QED
      BY <1>a, <1>c, <2>1, <2>2, AgendaKept DEF TreeKept
  <1>5. ASSUME NEW j \in Jobs, PostFallbackProjectRefused(j) PROVE TreeInv'
    <2>1. TreeKept
      BY <1>a, <1>b, <1>5, PostFallbackProjectRefusedTree
    <2>2. UNCHANGED enforcement /\ pc'[Enforcer] = pc[Enforcer]
      BY <1>a, <1>b, <1>5 DEF PostFallbackProjectRefused, Goto
    <2> QED
      BY <1>a, <1>c, <2>1, <2>2, AgendaKept DEF TreeKept
  <1>6. ASSUME NEW j \in Jobs, Recheck(j) PROVE TreeInv'
    <2>1. TreeKept
      BY <1>a, <1>b, <1>6, RecheckTree
    <2>2. UNCHANGED enforcement /\ pc'[Enforcer] = pc[Enforcer]
      BY <1>a, <1>b, <1>6 DEF Recheck, Goto
    <2> QED
      BY <1>a, <1>c, <2>1, <2>2, AgendaKept DEF TreeKept
  <1>7. ASSUME NEW j \in Jobs, SetProject(j) PROVE TreeInv'
    <2>1. TreeKept
      BY <1>a, <1>b, <1>7, SetProjectTree
    <2>2. UNCHANGED enforcement /\ pc'[Enforcer] = pc[Enforcer]
      BY <1>a, <1>b, <1>7 DEF SetProject, Goto
    <2> QED
      BY <1>a, <1>c, <2>1, <2>2, AgendaKept DEF TreeKept
  <1>8. ASSUME NEW j \in Jobs, SetProjectRefused(j) PROVE TreeInv'
    <2>1. TreeKept
      BY <1>a, <1>b, <1>8, SetProjectRefusedTree
    <2>2. UNCHANGED enforcement /\ pc'[Enforcer] = pc[Enforcer]
      BY <1>a, <1>b, <1>8 DEF SetProjectRefused, Goto
    <2> QED
      BY <1>a, <1>c, <2>1, <2>2, AgendaKept DEF TreeKept
  <1>9. ASSUME NEW j \in Procs, GetGroup(j) PROVE TreeInv'
    <2>1. TreeKept
      BY <1>a, <1>9, GetGroupTree
    <2>2. /\ UNCHANGED enforcement
          /\ \/ pc'[Enforcer] = pc[Enforcer]
             \/ pc[Enforcer] \notin {"idle", "failed"} /\ pc'[Enforcer] \notin {"idle", "done"}
      BY <1>a, <1>b, <1>9 DEF GetGroup, Goto, Descend
    <2> QED
      BY <1>a, <1>c, <2>1, <2>2, AgendaKept DEF TreeKept
  <1>10. ASSUME NEW j \in Procs, PostGroup(j) PROVE TreeInv'
    <2>1. TreeKept
      BY <1>a, <1>10, PostGroupTree
    <2>2. /\ UNCHANGED enforcement
          /\ \/ pc'[Enforcer] = pc[Enforcer]
             \/ pc[Enforcer] \notin {"idle", "failed"} /\ pc'[Enforcer] \notin {"idle", "done"}
      BY <1>a, <1>b, <1>10 DEF PostGroup, Goto, Descend
    <2> QED
      BY <1>a, <1>c, <2>1, <2>2, AgendaKept DEF TreeKept
  <1>11. ASSUME NEW j \in Procs, PostGroupRefused(j) PROVE TreeInv'
    <2>1. TreeKept
      BY <1>a, <1>11, PostGroupRefusedTree
    <2>2. /\ UNCHANGED enforcement
          /\ \/ pc'[Enforcer] = pc[Enforcer]
             \/ pc[Enforcer] \notin {"idle", "failed"} /\ pc'[Enforcer] \notin {"idle", "done"}
      BY <1>a, <1>b, <1>11 DEF PostGroupRefused, Goto
    <2> QED
      BY <1>a, <1>c, <2>1, <2>2, AgendaKept DEF TreeKept
  <1>12. ASSUME NEW j \in Procs, PostFallbackGroup(j) PROVE TreeInv'
    <2>1. TreeKept
      BY <1>a, <1>12, PostFallbackGroupTree
    <2>2. /\ UNCHANGED enforcement
          /\ \/ pc'[Enforcer] = pc[Enforcer]
             \/ pc[Enforcer] \notin {"idle", "failed"} /\ pc'[Enforcer] \notin {"idle", "done"}
      BY <1>a, <1>b, <1>12 DEF PostFallbackGroup, Goto
    <2> QED
      BY <1>a, <1>c, <2>1, <2>2, AgendaKept DEF TreeKept
  <1>13. ASSUME NEW j \in Procs, PostFallbackGroupRefused(j) PROVE TreeInv'
    <2>1. TreeKept
      BY <1>a, <1>13, PostFallbackGroupRefusedTree
    <2>2. /\ UNCHANGED enforcement
          /\ \/ pc'[Enforcer] = pc[Enforcer]
             \/ pc[Enforcer] \notin {"idle", "failed"} /\ pc'[Enforcer] \notin {"idle", "done"}
      BY <1>a, <1>b, <1>13 DEF PostFallbackGroupRefused, Goto
    <2> QED
      BY <1>a, <1>c, <2>1, <2>2, AgendaKept DEF TreeKept
  <1>14. ASSUME NEW j \in Procs, SetGroup(j) PROVE TreeInv'
    <2>1. TreeKept
      BY <1>a, <1>14, SetGroupTree
    <2>2. /\ UNCHANGED enforcement
          /\ \/ pc'[Enforcer] = pc[Enforcer]
             \/ pc[Enforcer] \notin {"idle", "failed"} /\ pc'[Enforcer] \notin {"idle", "done"}
      BY <1>a, <1>b, <1>14 DEF SetGroup, Goto, Descend
    <2> QED
      BY <1>a, <1>c, <2>1, <2>2, AgendaKept DEF TreeKept
  <1>15. ASSUME NEW j \in Procs, SetGroupRefused(j) PROVE TreeInv'
    <2>1. TreeKept
      BY <1>a, <1>15, SetGroupRefusedTree
    <2>2. /\ UNCHANGED enforcement
          /\ \/ pc'[Enforcer] = pc[Enforcer]
             \/ pc[Enforcer] \notin {"idle", "failed"} /\ pc'[Enforcer] \notin {"idle", "done"}
      BY <1>a, <1>b, <1>15 DEF SetGroupRefused, Goto, Descend
    <2> QED
      BY <1>a, <1>c, <2>1, <2>2, AgendaKept DEF TreeKept
  <1>16. ASSUME NEW j \in Procs, Breakdown(j) PROVE TreeInv'
    <2>1. TreeKept
      BY <1>a, <1>16, BreakdownTree
    <2>2. /\ UNCHANGED enforcement
          /\ \/ pc'[Enforcer] = pc[Enforcer]
             \/ pc[Enforcer] \notin {"idle", "failed"} /\ pc'[Enforcer] \notin {"idle", "done"}
      BY <1>a, <1>b, <1>16 DEF Breakdown, Goto, Descend, OnWay, Placed
    <2> QED
      BY <1>a, <1>c, <2>1, <2>2, AgendaKept DEF TreeKept
  <1>17. ASSUME NEW j \in Procs, Return(j) PROVE TreeInv'
    BY <1>a, <1>c, <1>17, ReturnTree, ReturnAgenda DEF TreeKept
  <1>18. CASE EnforceStart
    BY <1>a, <1>c, <1>18, EnforcerTree, StartAgenda DEF TreeKept
  <1>19. CASE List
    BY <1>a, <1>c, <1>19, EnforcerTree, ListAgenda DEF TreeKept
  <1>20. CASE EnforceSet
    BY <1>a, <1>c, <1>20, EnforcerTree, SetAgenda DEF TreeKept
  <1>21. CASE EnforceRefused
    <2>1. TreeKept
      BY <1>a, <1>21, EnforcerTree
    <2>2. /\ pc[Enforcer] = "walk" /\ agenda # << >> /\ Task[1] \in {"setgroup", "setproject"}
          /\ CountOrRaise
      BY <1>21 DEF EnforceRefused, Doing
    <2> QED
      BY <1>a, <1>c, <2>1, <2>2, CountedAgenda DEF TreeKept
  <1>22. CASE EnforceBreakdown
    BY <1>a, <1>c, <1>22, EnforcerTree, BreakdownAgenda DEF TreeKept
  <1>23. CASE EnforceEnd
    BY <1>a, <1>c, <1>23, EnforcerTree, EndAgenda DEF TreeKept
  <1>24. CASE PolicyRelaxed \/ UNCHANGED vars
    <2>1. TreeKept
      BY <1>a, <1>24, PolicyTree
    <2>2. UNCHANGED enforcement /\ pc' = pc
      BY <1>24 DEF PolicyRelaxed, vars
    <2> QED
      BY <1>a, <1>c, <2>1, <2>2, AgendaKept DEF TreeKept
  <1> QED
    BY <1>1, <1>2, <1>3, <1>4, <1>5, <1>6, <1>7, <1>8, <1>9, <1>10, <1>11, <1>12, <1>13,
       <1>14, <1>15, <1>16, <1>17, <1>18, <1>19, <1>20, <1>21, <1>22, <1>23, <1>24
       DEF Next

LEMMA TreeInvariant == Spec => []TreeInv
  BY TreeInit, TreeStep, PTL DEF Spec

(* A step moves one process, or none.                                       *)
Functional == pc = [j \in DOMAIN pc |-> pc[j]]

LEMMA GotoOnly == Next => UNCHANGED pc \/ \E j \in Procs : \E to : Goto(j, to)
  BY DEF Next, Procs, Start, GetGroup, PostGroup, PostGroupRefused, PostFallbackGroup,
         PostFallbackGroupRefused, SetGroup, SetGroupRefused, PostProject,
         PostProjectRefused, PostFallbackProject, PostFallbackProjectRefused, Recheck,
         SetProject, SetProjectRefused, Breakdown, Return, EnforceStart, List, EnforceSet,
         EnforceRefused, CountOrRaise, Raise, EnforceBreakdown, EnforceEnd, PolicyRelaxed,
         Descend

LEMMA FunctionInvariant == Spec => []Functional
  <1>1. Init => Functional
    BY DEF Init, Functional
  <1>2. Functional /\ [Next]_vars => Functional'
    <2>1. CASE UNCHANGED pc
      BY <2>1 DEF Functional
    <2>2. ASSUME NEW j, NEW to, Goto(j, to)
          PROVE  Functional'
      BY <2>2 DEF Goto, Functional
    <2> QED
      BY <2>1, <2>2, GotoOnly DEF vars
  <1> QED
    BY <1>1, <1>2, PTL DEF Spec

(* The values the namespaces and the jobs can hold; nothing on GitLab is    *)
(* more visible than a group it is in, at any depth, whatever jobs and the  *)
(* enforcer do at once.                                                     *)
THEOREM TypeCorrect == Spec => []TypeOK
  <1>1. TreeInv /\ Inv /\ Functional => TypeOK
    <2> SUFFICES ASSUME TreeInv, Inv, Functional PROVE TypeOK
      OBVIOUS
    <2>1. TreeOK /\ Placed /\ AgendaTyped /\ Shape
      BY DEF TreeInv, Inv, AgendaOK
    <2>2. strict \in BOOLEAN /\ fallback \in Levels \cup {NoLevel} /\ WellPlaced
      BY <2>1 DEF Shape, TreeOK, LevelsTyped, Levels
    <2>3. /\ permitted \subseteq Levels /\ own \in [Jobs -> Projects]
          /\ group \in [Groups -> Levels \cup {NoLevel}]
          /\ project \in [Projects -> Levels \cup {NoLevel}]
      BY <2>1 DEF TreeOK, LevelsTyped
    <2>4. pc \in [Procs -> Places] /\ \A j \in Procs : at[j] \in 1 .. Len(Way(j))
      <3>1. DOMAIN pc = Procs /\ \A j \in Procs : pc[j] \in Places
        BY <2>1 DEF Placed, OnWay
      <3>2. \A j \in Procs : at[j] \in 1 .. Len(Way(j))
        BY <2>1 DEF Placed, OnWay
      <3>3. pc = [j \in Procs |-> pc[j]]
        BY <2>1 DEF Shape, Functional
      <3> QED
        BY <3>1, <3>2, <3>3
    <2>5. /\ excused \in [Procs -> BOOLEAN] /\ refused \in [Procs -> BOOLEAN]
          /\ raced \in [Procs -> BOOLEAN]
      BY <2>1 DEF Shape
    <2>6. /\ skipped \in BOOLEAN /\ known \subseteq Groups \cup Projects /\ lowering \in BOOLEAN
          /\ agenda \in Seq(Tasks)
      BY <2>1 DEF AgendaTyped
    <2> QED
      BY <2>2, <2>3, <2>4, <2>5, <2>6 DEF TypeOK, Places, Tasks
  <1> QED
    BY <1>1, TreeInvariant, Invariant, FunctionInvariant, PTL

(* A walk that ends without a failure counted has brought all that was      *)
(* there when it began to the configured level.                             *)
THEOREM WalkIsComplete == Spec => []EnforcedMeansDesired
  <1>1. TreeInv => EnforcedMeansDesired
    <2> SUFFICES ASSUME TreeInv, pc[Enforcer] = "done"
                 PROVE  EnforcedMeansDesired
      BY DEF EnforcedMeansDesired
    <2>1. agenda = << >> /\ known \subseteq Groups \cup Projects
      BY DEF TreeInv, AgendaOK, AgendaTyped
    <2>2. \A x \in known : AtLevel(x)
      BY <2>1, NoTask DEF TreeInv, AgendaOK, Covered
    <2>3. \A p \in Projects : p \notin Groups
      BY NamespaceAssumption
    <2> QED
      BY <2>2, <2>3 DEF EnforcedMeansDesired, AtLevel
  <1> QED
    BY <1>1, TreeInvariant, PTL

-----------------------------------------------------------------------------
(* Where nothing was above the level that is set. *)

(* Jobs can make groups and projects above the configured level if the      *)
(* fallback is; but then the group that is to hold them is above it too, so *)
(* that it can be the root group only, made so by a job that found none.    *)
Below ==
  /\ \A g \in Groups \ {Root} : group[g] # NoLevel => group[g] <= Desired
  /\ \A p \in Projects : project[p] # NoLevel => project[p] <= Desired

HighRoot == group[Root] # NoLevel /\ group[Root] > Desired

(* Directly below it no fallback makes anything any more: whoever is about  *)
(* to try was refused because the path is taken.                            *)
Spent(j) ==
  /\ pc[j] = "fallbackgroup" =>
       Here(j) = Root \/ group[Here(j)] # NoLevel \/ ~IsParent(Root, Here(j))
  /\ pc[j] = "fallbackproject" => project[Own(j)] # NoLevel \/ Namespace(Own(j)) # Root

BelowInv ==
  /\ Below
  /\ HighRoot => Desired \in permitted /\ \A j \in Procs : Spent(j)

Policies == permitted \in {{0}, Levels}

(* What a step makes of the levels.                                         *)
FallbackGroup(j) ==
  /\ pc[j] = "fallbackgroup"
  /\ MayMakeGroup(Here(j), fallback) /\ GroupAt(Here(j), fallback)

FallbackProject(j) ==
  /\ pc[j] = "fallbackproject"
  /\ MayMakeProject(Own(j), fallback) /\ ProjectAt(Own(j), fallback)

LEMMA Effects ==
  ASSUME TreeInv, Next
  PROVE  \/ UNCHANGED <<group, project>>
         \/ \E g \in Groups : GroupAt(g, Desired)
         \/ \E p \in Projects : ProjectAt(p, Desired)
         \/ \E j \in Procs : FallbackGroup(j)
         \/ \E j \in Jobs : FallbackProject(j)
  <1>1. \A j \in Procs : Here(j) \in Groups /\ (j \in Jobs => Own(j) \in Projects)
    BY OnHisWay DEF TreeInv
  <1>2. \A j \in Procs : pc[j] \in {"create", "fallbackproject", "setproject"} => j \in Jobs
    BY DEF TreeInv, Placed, OnWay
  <1>3. Jobs \subseteq Procs
    BY DEF Procs
  <1>4. ASSUME Doing("setgroup") \/ Doing("setproject"), Set
        PROVE  (\E g \in Groups : GroupAt(g, Desired)) \/ \E p \in Projects : ProjectAt(p, Desired)
    <2>1. TaskOK(Task)
      BY <1>4, NextTask DEF Doing, TreeInv, AgendaOK
    <2> QED
      BY <1>4, <2>1 DEF Set, TaskOK, Doing
  <1>5. ASSUME NEW j \in Procs, PostGroup(j) \/ SetGroup(j)
        PROVE  \E g \in Groups : GroupAt(g, Desired)
    BY <1>1, <1>5 DEF PostGroup, SetGroup
  <1>6. ASSUME NEW j \in Jobs, PostProject(j) \/ SetProject(j)
        PROVE  \E p \in Projects : ProjectAt(p, Desired)
    BY <1>1, <1>3, <1>6 DEF PostProject, SetProject
  <1>7. ASSUME NEW j \in Procs, PostFallbackGroup(j)
        PROVE  FallbackGroup(j)
    BY <1>7 DEF PostFallbackGroup, FallbackGroup
  <1>8. ASSUME NEW j \in Jobs, PostFallbackProject(j)
        PROVE  FallbackProject(j)
    BY <1>8 DEF PostFallbackProject, FallbackProject
  <1>9. ASSUME NEW j \in Procs, Breakdown(j)
        PROVE  \/ UNCHANGED <<group, project>>
               \/ \E g \in Groups : GroupAt(g, Desired)
               \/ \E p \in Projects : ProjectAt(p, Desired)
               \/ FallbackGroup(j)
               \/ j \in Jobs /\ FallbackProject(j)
    BY <1>1, <1>2, <1>9 DEF Breakdown, CarriedOut, FallbackGroup, FallbackProject
  <1>10. ASSUME EnforceSet \/ EnforceBreakdown
         PROVE  \/ UNCHANGED <<group, project>>
                \/ \E g \in Groups : GroupAt(g, Desired)
                \/ \E p \in Projects : ProjectAt(p, Desired)
    BY <1>4, <1>10 DEF EnforceSet, EnforceBreakdown, Doing
  <1> QED
    BY <1>5, <1>6, <1>7, <1>8, <1>9, <1>10
       DEF Next, Start, GetGroup, PostGroupRefused, PostFallbackGroupRefused, SetGroupRefused,
           PostProjectRefused, PostFallbackProjectRefused, Recheck, SetProjectRefused, Return,
           EnforceStart, List, EnforceRefused, EnforceEnd, PolicyRelaxed

(* Who comes to try the fallback comes there from a refusal.                *)
Tries == {"fallbackgroup", "fallbackproject"}

Comes(d) ==
  \/ pc'[d] = pc[d] /\ at'[d] = at[d]
  \/ pc'[d] \notin Tries
  \/ PostGroupRefused(d)
  \/ d \in Jobs /\ PostProjectRefused(d)

LEMMA Waits ==
  ASSUME TreeInv, Next
  PROVE  \A d \in Procs : Comes(d)
  <1>1. DOMAIN pc = Procs /\ DOMAIN at = Procs /\ Jobs \subseteq Procs /\ Enforcer \in Procs
    BY DEF TreeInv, Placed, Procs
  <1>2. ASSUME NEW j \in Procs, NEW d \in Procs,
               GetGroup(j) \/ PostGroup(j) \/ PostGroupRefused(j) \/ PostFallbackGroup(j)
               \/ PostFallbackGroupRefused(j) \/ SetGroup(j) \/ SetGroupRefused(j)
        PROVE  Comes(d)
    BY <1>1, <1>2 DEF Comes, Tries, GetGroup, PostGroup, PostGroupRefused, PostFallbackGroup,
                      PostFallbackGroupRefused, SetGroup, SetGroupRefused, Descend, Goto
  <1>3. ASSUME NEW j \in Jobs, NEW d \in Procs,
               Start(j) \/ PostProject(j) \/ PostProjectRefused(j) \/ PostFallbackProject(j)
               \/ PostFallbackProjectRefused(j) \/ Recheck(j) \/ SetProject(j)
               \/ SetProjectRefused(j)
        PROVE  Comes(d)
    BY <1>1, <1>3 DEF Comes, Tries, Start, PostProject, PostProjectRefused,
                      PostFallbackProject, PostFallbackProjectRefused, Recheck, SetProject,
                      SetProjectRefused, Goto, AfterFallback, IfCreated, IfRefused
  <1>4. ASSUME NEW j \in Procs, NEW d \in Procs, Breakdown(j) \/ Return(j)
        PROVE  Comes(d)
    BY <1>1, <1>4 DEF Comes, Tries, Breakdown, Return, Descend, Goto
  <1>5. ASSUME NEW d \in Procs, EnforceStart \/ List \/ EnforceSet \/ EnforceRefused
                                \/ EnforceBreakdown \/ EnforceEnd \/ PolicyRelaxed
        PROVE  Comes(d)
    BY <1>1, <1>5 DEF Comes, Tries, EnforceStart, List, EnforceSet, EnforceRefused,
                      EnforceBreakdown, EnforceEnd, PolicyRelaxed, CountOrRaise, Raise, Goto
  <1> QED
    BY <1>2, <1>3, <1>4, <1>5 DEF Next

LEMMA Settings ==
  ASSUME Next, Policies
  PROVE  UNCHANGED own /\ permitted \subseteq permitted' /\ Policies'
  <1>1. UNCHANGED <<permitted, own>> \/ PolicyRelaxed
    BY DEF Next, Start, GetGroup, PostGroup, PostGroupRefused, PostFallbackGroup,
           PostFallbackGroupRefused, SetGroup, SetGroupRefused, PostProject,
           PostProjectRefused, PostFallbackProject, PostFallbackProjectRefused, Recheck,
           SetProject, SetProjectRefused, Breakdown, Return, EnforceStart, List, EnforceSet,
           EnforceRefused, EnforceBreakdown, EnforceEnd, settings
  <1>2. CASE UNCHANGED <<permitted, own>>
    BY <1>2 DEF Policies
  <1>3. CASE PolicyRelaxed
    <2>1. permitted' = Levels /\ own' = own
      BY <1>3 DEF PolicyRelaxed
    <2>2. {0} \subseteq Levels
      BY DEF Levels
    <2> QED
      BY <2>1, <2>2 DEF Policies
  <1> QED
    BY <1>1, <1>2, <1>3

(* Every group on a way but the root group is in one that was passed.       *)
LEMMA PassedParent ==
  ASSUME TreeInv, NEW j \in Procs, pc[j] \in {"postgroup", "fallbackgroup"}, Here(j) # Root
  PROVE  /\ group[Root] # NoLevel
         /\ \E h \in Groups : IsParent(h, Here(j)) /\ group[h] # NoLevel
  <1>1. /\ at[j] \in 1 .. Len(Way(j)) /\ Len(Way(j)) \in Nat /\ Way(j)[1] = Root
        /\ Made(j, at[j] - 1) /\ own \in [Jobs -> Projects]
        /\ \A i \in 1 .. Len(Way(j)) : Way(j)[i] \in Groups
        /\ j = Enforcer => Len(Way(j)) = 1
    BY OnHisWay, Ways DEF TreeInv, TreeOK, LevelsTyped, OnWay
  <1>2. at[j] # 1
    BY <1>1 DEF Here
  <1>3. j \in Jobs /\ Way(j) = Path[Own(j)] /\ Own(j) \in Projects
    BY <1>1, <1>2, NamespaceAssumption DEF Procs, Way, Own
  <1>4. at[j] - 1 \in 1 .. Len(Way(j)) - 1 /\ 1 \in 1 .. at[j] - 1 /\ (at[j] - 1) + 1 = at[j]
    BY <1>1, <1>2
  <1>5. IsParent(Way(j)[at[j] - 1], Way(j)[at[j]])
    BY <1>3, <1>4, Parents
  <1>6. at[j] - 1 \in 1 .. at[j] - 1 /\ at[j] - 1 \in 1 .. Len(Way(j))
    BY <1>1, <1>4
  <1>7. group[Way(j)[1]] # NoLevel /\ group[Way(j)[at[j] - 1]] # NoLevel
    BY <1>1, <1>4, <1>6 DEF Made
  <1> QED
    BY <1>1, <1>5, <1>6, <1>7 DEF Here

(* Before there is a root group nobody tries anything below it.             *)
LEMMA NobodyBelow ==
  ASSUME TreeInv, group[Root] = NoLevel
  PROVE  \A j \in Procs : Spent(j)
  <1>1. ASSUME NEW j \in Procs, pc[j] = "fallbackgroup"
        PROVE  Here(j) = Root
    BY <1>1, PassedParent
  <1>2. ASSUME NEW j \in Procs, pc[j] = "fallbackproject"
        PROVE  Namespace(Own(j)) # Root
    BY <1>2, ItsNamespace DEF TreeInv, Placed, OnWay
  <1> QED
    BY <1>1, <1>2 DEF Spent

(* A fallback that makes something above the level makes the root group.    *)
LEMMA FallbackGroupBelow ==
  ASSUME TreeInv, BelowInv, Policies, NEW j \in Procs, FallbackGroup(j)
  PROVE  /\ Below'
         /\ HighRoot' => HighRoot \/ group[Root] = NoLevel
         /\ HighRoot' => Desired \in permitted
  <1>1. /\ Here(j) \in Groups /\ pc[j] = "fallbackgroup" /\ fallback \in permitted
        /\ group[Here(j)] = NoLevel
        /\ \A h \in Groups : IsParent(h, Here(j)) => fallback <= group[h]
        /\ group' = [group EXCEPT ![Here(j)] = fallback] /\ project' = project
        /\ DOMAIN group = Groups /\ Root \in Groups
    BY OnHisWay, NamespaceAssumption DEF FallbackGroup, MayMakeGroup, GroupAllows, GroupAt,
                                         TreeInv, TreeOK, LevelsTyped
  <1>2. fallback \in Levels /\ Desired \in Levels
    BY <1>1, LevelNumbers DEF TreeInv, TreeOK, LevelsTyped
  <1>3. CASE fallback <= Desired
    <2>1. ~(fallback > Desired)
      BY <1>2, <1>3 DEF Levels
    <2>2. HighRoot' => HighRoot
      BY <1>1, <2>1 DEF HighRoot
    <2>3. Below'
      BY <1>1, <1>3 DEF BelowInv, Below
    <2> QED
      BY <2>2, <2>3 DEF BelowInv
  <1>4. CASE fallback > Desired
    <2>1. ASSUME Here(j) # Root PROVE FALSE
      <3>1. PICK h \in Groups : IsParent(h, Here(j)) /\ group[h] # NoLevel
        BY <1>1, <2>1, PassedParent
      <3>2. group[h] \in Levels /\ fallback <= group[h]
        BY <1>1, <3>1 DEF TreeInv, TreeOK, LevelsTyped
      <3>3. group[h] > Desired /\ ~(group[h] <= Desired)
        BY <1>2, <1>4, <3>2 DEF Levels
      <3>4. h = Root
        BY <3>1, <3>3 DEF BelowInv, Below
      <3>5. Spent(j)
        BY <3>1, <3>3, <3>4 DEF BelowInv, HighRoot
      <3> QED
        BY <1>1, <2>1, <3>1, <3>4, <3>5 DEF Spent
    <2>2. Below'
      BY <1>1, <2>1 DEF BelowInv, Below
    <2>3. Desired \in permitted
      <3>1. fallback # 0
        BY <1>2, <1>4 DEF Levels
      <3> QED
        BY <1>1, <1>2, <3>1 DEF Policies
    <2> QED
      BY <1>1, <2>1, <2>2, <2>3
  <1> QED
    BY <1>2, <1>3, <1>4 DEF Levels

LEMMA FallbackProjectBelow ==
  ASSUME TreeInv, BelowInv, NEW j \in Jobs, FallbackProject(j)
  PROVE  Below' /\ group' = group
  <1>1. /\ Own(j) \in Projects /\ group[Namespace(Own(j))] # NoLevel /\ j \in Procs
        /\ pc[j] = "fallbackproject" /\ fallback \in permitted
        /\ project[Own(j)] = NoLevel /\ fallback <= group[Namespace(Own(j))]
        /\ project' = [project EXCEPT ![Own(j)] = fallback] /\ group' = group
        /\ DOMAIN project = Projects
    BY ItsNamespace DEF FallbackProject, MayMakeProject, ProjectAllows, ProjectAt, TreeInv,
                        TreeOK, LevelsTyped, Procs
  <1>2. Namespace(Own(j)) \in Groups
    BY <1>1, OnHisWay, Ways DEF TreeInv, TreeOK, LevelsTyped
  <1>3. /\ fallback \in Levels /\ Desired \in Levels
        /\ group[Namespace(Own(j))] \in Levels
    BY <1>1, <1>2, LevelNumbers DEF TreeInv, TreeOK, LevelsTyped
  <1>4. fallback <= Desired
    <2> SUFFICES ASSUME fallback > Desired PROVE FALSE
      BY <1>3 DEF Levels
    <2>1. group[Namespace(Own(j))] > Desired /\ ~(group[Namespace(Own(j))] <= Desired)
      BY <1>1, <1>3 DEF Levels
    <2>2. Namespace(Own(j)) = Root
      BY <1>1, <1>2, <2>1 DEF BelowInv, Below
    <2>3. Spent(j)
      BY <1>1, <2>1, <2>2 DEF BelowInv, HighRoot
    <2> QED
      BY <1>1, <2>2, <2>3 DEF Spent
  <1> QED
    BY <1>1, <1>4 DEF BelowInv, Below

(* Nothing is made above the level but a root group.                        *)
LEMMA StepBelow ==
  ASSUME TreeInv, BelowInv, Policies, Next
  PROVE  /\ Below'
         /\ HighRoot' => HighRoot \/ group[Root] = NoLevel
         /\ HighRoot' => Desired \in permitted
         /\ \A g \in Groups : group[g] # NoLevel => group'[g] # NoLevel
         /\ \A p \in Projects : project[p] # NoLevel => project'[p] # NoLevel
  <1>1. Desired \in Levels /\ NoLevel \notin Nat /\ Desired <= Desired /\ ~(Desired > Desired)
        /\ Desired # NoLevel /\ DOMAIN group = Groups /\ DOMAIN project = Projects
        /\ permitted \subseteq Levels /\ NoLevel \notin Levels
    BY LevelNumbers DEF Levels, TreeInv, TreeOK, LevelsTyped
  <1>2. CASE UNCHANGED <<group, project>>
    BY <1>2 DEF BelowInv, Below, HighRoot
  <1>3. ASSUME NEW g \in Groups, GroupAt(g, Desired)
        PROVE  /\ Below' /\ (HighRoot' => HighRoot) /\ project' = project
               /\ \A h \in Groups : group[h] # NoLevel => group'[h] # NoLevel
    BY <1>1, <1>3 DEF BelowInv, Below, HighRoot, GroupAt
  <1>4. ASSUME NEW p \in Projects, ProjectAt(p, Desired)
        PROVE  /\ Below' /\ (HighRoot' => HighRoot) /\ group' = group
               /\ \A q \in Projects : project[q] # NoLevel => project'[q] # NoLevel
    BY <1>1, <1>4 DEF BelowInv, Below, HighRoot, ProjectAt
  <1>5. ASSUME NEW j \in Procs, FallbackGroup(j)
        PROVE  project' = project /\ \A h \in Groups : group[h] # NoLevel => group'[h] # NoLevel
    BY <1>1, <1>5 DEF FallbackGroup, GroupAt, MayMakeGroup
  <1>6. ASSUME NEW j \in Jobs, FallbackProject(j)
        PROVE  \A q \in Projects : project[q] # NoLevel => project'[q] # NoLevel
    BY <1>1, <1>6 DEF FallbackProject, ProjectAt, MayMakeProject
  <1>7. ASSUME NEW j \in Jobs, FallbackProject(j)
        PROVE  HighRoot' => HighRoot
    BY <1>7, FallbackProjectBelow DEF HighRoot
  <1> QED
    BY <1>2, <1>3, <1>4, <1>5, <1>6, <1>7, Effects, FallbackGroupBelow, FallbackProjectBelow
       DEF BelowInv

(* Who is refused below a root group above the level finds the path taken.  *)
LEMMA RefusedBelow ==
  ASSUME TreeInv, HighRoot, Desired \in permitted, NEW d \in Procs,
         PostGroupRefused(d) \/ (d \in Jobs /\ PostProjectRefused(d))
  PROVE  /\ pc[d] = "postgroup" /\ pc'[d] # "fallbackproject"
              /\ (Here(d) = Root \/ group[Here(d)] # NoLevel \/ ~IsParent(Root, Here(d)))
         \/ /\ pc[d] = "create" /\ pc'[d] # "fallbackgroup"
              /\ (project[Own(d)] # NoLevel \/ Namespace(Own(d)) # Root)
  <1>1. DOMAIN pc = Procs /\ Root \in Groups /\ group[Root] \in Levels /\ Desired \in Levels
    BY NamespaceAssumption, LevelNumbers DEF TreeInv, Placed, TreeOK, LevelsTyped, HighRoot
  <1>2. Desired <= group[Root]
    BY <1>1 DEF HighRoot, Levels
  <1>3. CASE PostGroupRefused(d)
    <2>1. pc[d] = "postgroup" /\ pc'[d] # "fallbackproject" /\ ~MayMakeGroup(Here(d), Desired)
      BY <1>1, <1>3 DEF PostGroupRefused, Goto
    <2>2. group[Here(d)] = NoLevel =>
            \E h \in Groups : IsParent(h, Here(d)) /\ ~(Desired <= group[h])
      BY <2>1 DEF MayMakeGroup, GroupAllows
    <2>3. group[Here(d)] # NoLevel \/ ~IsParent(Root, Here(d))
      BY <1>2, <2>2, OneParent
    <2> QED
      BY <2>1, <2>3
  <1>4. CASE d \in Jobs /\ PostProjectRefused(d)
    <2>1. pc[d] = "create" /\ pc'[d] # "fallbackgroup" /\ ~MayMakeProject(Own(d), Desired)
      BY <1>1, <1>4 DEF PostProjectRefused, Goto
    <2> QED
      BY <1>2, <2>1 DEF MayMakeProject, ProjectAllows
  <1> QED
    BY <1>3, <1>4

LEMMA BelowStep ==
  ASSUME TreeInv, BelowInv, Policies, Next
  PROVE  BelowInv'
  <1>1. Below' /\ (HighRoot' => Desired \in permitted')
    BY StepBelow, Settings
  <1>2. ASSUME HighRoot', NEW d \in Procs
        PROVE  Spent(d)'
    <2>1. /\ Here(d) \in Groups /\ (d \in Jobs => Own(d) \in Projects)
          /\ UNCHANGED own /\ Own(d)' = Own(d) /\ Way(d)' = Way(d)
          /\ pc[d] = "fallbackproject" => d \in Jobs
          /\ DOMAIN pc = Procs /\ DOMAIN at = Procs
      BY Settings, OnHisWay DEF TreeInv, Placed, OnWay
    <2>2. Spent(d) /\ Desired \in permitted
      BY <1>2, StepBelow, NobodyBelow DEF BelowInv
    <2>3. CASE pc'[d] = pc[d] /\ at'[d] = at[d]
      <3>1. Here(d)' = Here(d)
        BY <2>1, <2>3 DEF Here
      <3> QED
        BY <2>1, <2>2, <2>3, <3>1, StepBelow DEF Spent
    <2>4. CASE pc'[d] \notin Tries
      BY <2>4 DEF Spent, Tries
    <2>5. CASE PostGroupRefused(d) \/ (d \in Jobs /\ PostProjectRefused(d))
      <3>1. UNCHANGED <<group, project, at>>
        BY <2>5 DEF PostGroupRefused, PostProjectRefused
      <3>2. HighRoot /\ Here(d)' = Here(d)
        BY <1>2, <2>1, <3>1 DEF HighRoot, Here
      <3> QED
        BY <2>1, <2>2, <2>5, <3>1, <3>2, RefusedBelow DEF Spent
    <2> QED
      BY <2>3, <2>4, <2>5, Waits DEF Comes
  <1> QED
    BY <1>1, <1>2 DEF BelowInv

(* So it is from the start of a walk that finds nothing above the level up  *)
(* to its first error answer.                                               *)
Raising == ~skipped /\ ~lowering /\ pc[Enforcer] # "idle"

LEMMA RaisingBegins ==
  ASSUME TreeInv, Next, Raising'
  PROVE  Raising \/ EnforceStart
  <1>1. DOMAIN pc = Procs /\ Enforcer \in Procs /\ Enforcer \notin Jobs /\ Jobs \subseteq Procs
    BY NamespaceAssumption DEF TreeInv, Placed, Procs
  <1>2. ASSUME NEW j \in Procs,
               \/ GetGroup(j) \/ PostGroup(j) \/ PostGroupRefused(j) \/ PostFallbackGroup(j)
               \/ PostFallbackGroupRefused(j) \/ SetGroup(j) \/ SetGroupRefused(j)
               \/ Breakdown(j)
        PROVE  UNCHANGED enforcement /\ (pc[Enforcer] = "idle" => pc'[Enforcer] = "idle")
    BY <1>1, <1>2 DEF GetGroup, PostGroup, PostGroupRefused, PostFallbackGroup,
                      PostFallbackGroupRefused, SetGroup, SetGroupRefused, Breakdown,
                      Descend, Goto
  <1>3. ASSUME NEW j \in Jobs,
               \/ Start(j) \/ PostProject(j) \/ PostProjectRefused(j) \/ PostFallbackProject(j)
               \/ PostFallbackProjectRefused(j) \/ Recheck(j) \/ SetProject(j)
               \/ SetProjectRefused(j)
        PROVE  UNCHANGED enforcement /\ pc'[Enforcer] = pc[Enforcer]
    BY <1>1, <1>3 DEF Start, PostProject, PostProjectRefused, PostFallbackProject,
                      PostFallbackProjectRefused, Recheck, SetProject, SetProjectRefused, Goto
  <1>4. ASSUME NEW j \in Procs, Return(j)
        PROVE  \/ pc'[Enforcer] = "idle"
               \/ UNCHANGED enforcement /\ pc'[Enforcer] = pc[Enforcer]
    BY <1>1, <1>4 DEF Return, Goto
  <1>5. ASSUME List \/ EnforceSet \/ EnforceRefused \/ EnforceBreakdown \/ EnforceEnd
        PROVE  pc[Enforcer] = "walk" /\ (skipped' \/ UNCHANGED <<skipped, lowering>>)
    BY <1>5 DEF List, EnforceSet, EnforceRefused, EnforceBreakdown, EnforceEnd, CountOrRaise,
                Doing, enforcement
  <1>6. ASSUME PolicyRelaxed
        PROVE  UNCHANGED enforcement /\ pc' = pc
    BY <1>6 DEF PolicyRelaxed
  <1> QED
    BY <1>2, <1>3, <1>4, <1>5, <1>6 DEF Next, Raising, enforcement

LEMMA StartBelow ==
  ASSUME TreeInv, EnforceStart, ~lowering'
  PROVE  BelowInv'
  <1>1. UNCHANGED <<group, project>> /\ Root \in Groups
    BY NamespaceAssumption DEF EnforceStart
  <1>2. /\ \A g \in Groups : group[g] # NoLevel => ~(group[g] > Desired)
        /\ \A p \in Projects : project[p] # NoLevel => ~(project[p] > Desired)
    BY DEF EnforceStart
  <1>3. \A v \in Levels : v > Desired \/ v <= Desired
    BY LevelNumbers DEF Levels
  <1>4. Below /\ ~HighRoot
    BY <1>1, <1>2, <1>3 DEF Below, HighRoot, TreeInv, TreeOK, LevelsTyped
  <1> QED
    BY <1>1, <1>4 DEF BelowInv, Below, HighRoot

LowInv == Policies /\ (Raising => BelowInv)

LEMMA LowInvariant == Spec => []LowInv
  <1>1. Init => LowInv
    BY NamespaceAssumption DEF Init, LowInv, Policies, Raising, Procs
  <1>2. TreeInv /\ LowInv /\ [Next]_vars => LowInv'
    <2> SUFFICES ASSUME TreeInv, LowInv, [Next]_vars PROVE LowInv'
      OBVIOUS
    <2>1. CASE UNCHANGED vars
      BY <2>1 DEF LowInv, Policies, Raising, BelowInv, Below, HighRoot, Spent, Here, Way, Own,
                  vars, settings, enforcement
    <2>2. CASE Next
      <3>1. Policies'
        BY <2>2, Settings DEF LowInv
      <3>2. ASSUME Raising' PROVE BelowInv'
        <4>1. CASE Raising
          BY <2>2, <4>1, BelowStep DEF LowInv
        <4>2. CASE EnforceStart
          BY <3>2, <4>2, StartBelow DEF Raising
        <4> QED
          BY <2>2, <3>2, <4>1, <4>2, RaisingBegins
      <3> QED
        BY <3>1, <3>2 DEF LowInv
    <2> QED
      BY <2>1, <2>2
  <1> QED
    BY <1>1, <1>2, TreeInvariant, PTL DEF Spec

(* From the top down a walk can raise whatever the instance lets it raise.  *)
LEMMA RaisingMaySet ==
  ASSUME TreeOK, AgendaOK, Below, ~skipped, Desired \in permitted,
         Doing("setgroup") \/ Doing("setproject")
  PROVE  MaySet
  <1>1. /\ pc[Enforcer] = "walk" /\ agenda # << >>
        /\ Task[1] \in {"setgroup", "setproject"} /\ AgendaTyped
    BY DEF Doing, AgendaOK
  <1>2. Task \in Range(agenda) /\ TaskOK(Task)
    BY <1>1, NextTask
  <1>3. TopDown(Task)
    BY <1>1, <1>2 DEF AgendaOK, Orderly
  <1>4. CASE Task[1] = "setgroup"
    <2>1. GroupAllows(Task[2], Desired)
      BY <1>3, <1>4, LevelNumbers DEF TopDown, GroupAllows, Levels
    <2>2. CoversContent(Task[2], Desired)
      <3>1. \A h \in Groups : IsParent(Task[2], h) => h # Root
        BY RootIsTop
      <3> QED
        BY <3>1 DEF Below, CoversContent
    <2> QED
      BY <1>4, <2>1, <2>2 DEF MaySet, MayPutGroup
  <1>5. CASE Task[1] = "setproject"
    <2>1. ProjectAllows(Task[2], Desired)
      BY <1>3, <1>5, LevelNumbers DEF TopDown, ProjectAllows, Levels
    <2> QED
      BY <1>5, <2>1 DEF MaySet
  <1> QED
    BY <1>1, <1>4, <1>5

(* A walk that raises levels skips nothing unless a call breaks down.       *)
THEOREM RaisingSkipsNothing == Spec => RaisingIsNeverSkipped
  <1>1. TreeInv /\ Inv /\ LowInv /\ [Next]_vars =>
          [~skipped /\ skipped' =>
             excused'[Enforcer] \/ Desired \notin permitted \/ lowering]_vars
    <2> SUFFICES ASSUME TreeInv, Inv, LowInv, Next, ~skipped, skipped'
                 PROVE  excused'[Enforcer] \/ Desired \notin permitted \/ lowering
      BY DEF vars, enforcement
    <2>1. EnforceRefused \/ EnforceBreakdown
      BY DEF Next, Start, GetGroup, PostGroup, PostGroupRefused, PostFallbackGroup,
             PostFallbackGroupRefused, SetGroup, SetGroupRefused, PostProject,
             PostProjectRefused, PostFallbackProject, PostFallbackProjectRefused, Recheck,
             SetProject, SetProjectRefused, Breakdown, Return, EnforceStart, List,
             EnforceSet, EnforceEnd, PolicyRelaxed, enforcement
    <2>2. CASE EnforceRefused
      <3> SUFFICES ASSUME Desired \in permitted, ~lowering PROVE FALSE
        OBVIOUS
      <3>1. /\ ~MaySet
            /\ Doing("setgroup") \/ Doing("setproject")
            /\ pc[Enforcer] = "walk"
        BY <2>2 DEF EnforceRefused, Doing
      <3>2. Below
        BY <3>1 DEF LowInv, Raising, BelowInv
      <3> QED
        BY <3>1, <3>2, RaisingMaySet DEF TreeInv
    <2>3. CASE EnforceBreakdown
      <3>1. excused' = [excused EXCEPT ![Enforcer] = TRUE] /\ Enforcer \in DOMAIN excused
        BY <2>3 DEF EnforceBreakdown, Inv, Shape, Procs
      <3> QED
        BY <3>1
    <2> QED
      BY <2>1, <2>2, <2>3
  <1> QED
    BY <1>1, TreeInvariant, LowInvariant, Invariant, PTL DEF Spec, RaisingIsNeverSkipped

(* A job whose calls are answered settles for another level only where      *)
(* GitLab would refuse the configured one right then.                       *)
THEOREM SettlesOnlyWhereRefused == Spec => FallbackOnlyWhereRefused
  <1>1. Inv /\ [Next]_vars =>
          [\A j \in Jobs :
             /\ pc[j] # "done" /\ pc'[j] = "done" /\ ~excused'[j]
             /\ project'[Own(j)] # Desired
             => ~ProjectAllows(Own(j), Desired)]_vars
    <2> SUFFICES ASSUME Inv, Next, NEW j \in Jobs, pc[j] # "done", pc'[j] = "done",
                        ~excused'[j], project'[Own(j)] # Desired
                 PROVE  ~ProjectAllows(Own(j), Desired)
      BY DEF vars
    <2>1. /\ DOMAIN pc = Procs /\ DOMAIN excused = Procs /\ DOMAIN project = Projects
          /\ j \in Procs /\ Own(j) \in Projects /\ j # Enforcer /\ Enforcer \in Procs
      BY NamespaceAssumption DEF Inv, Shape, Own, Procs
    <2>2. Start(j) \/ PostProject(j) \/ Recheck(j) \/ SetProject(j) \/ SetProjectRefused(j)
      <3> DEFINE Goal == Start(j) \/ PostProject(j) \/ Recheck(j) \/ SetProject(j)
                         \/ SetProjectRefused(j)
      <3>0. Jobs \subseteq Procs
        BY DEF Procs
      <3>1. ASSUME NEW k \in Procs,
                   \/ Start(k) \/ GetGroup(k) \/ PostGroup(k) \/ PostGroupRefused(k)
                   \/ PostFallbackGroup(k) \/ PostFallbackGroupRefused(k)
                   \/ SetGroup(k) \/ SetGroupRefused(k)
            PROVE  Goal
        BY <2>1, <3>1
        DEF Start, GetGroup, PostGroup, PostGroupRefused, PostFallbackGroup,
            PostFallbackGroupRefused, SetGroup, SetGroupRefused, AfterFallback, Raise,
            Descend, Goto
      <3>2. ASSUME NEW k \in Jobs,
                   \/ PostProject(k) \/ PostProjectRefused(k) \/ PostFallbackProject(k)
                   \/ PostFallbackProjectRefused(k) \/ Recheck(k) \/ SetProject(k)
                   \/ SetProjectRefused(k)
            PROVE  Goal
        BY <2>1, <3>2
        DEF PostProject, PostProjectRefused, PostFallbackProject, AfterFallback, Raise,
            PostFallbackProjectRefused, Recheck, SetProject, SetProjectRefused, Goto
      <3>3. ASSUME NEW k \in Procs, Breakdown(k)
            PROVE  FALSE
        <4>1. k # j
          BY <2>1, <3>3 DEF Breakdown
        <4> QED
          BY <2>1, <3>3, <4>1 DEF Breakdown, Descend, Goto
      <3>4. ASSUME NEW k \in Procs, Return(k)
            PROVE  FALSE
        BY <2>1, <3>4 DEF Return, Goto
      <3>5. ASSUME EnforceStart \/ List \/ EnforceSet \/ EnforceEnd \/ PolicyRelaxed
            PROVE  FALSE
        BY <2>1, <3>5 DEF EnforceStart, List, EnforceSet, EnforceEnd, PolicyRelaxed, Goto
      <3>6. ASSUME EnforceRefused \/ EnforceBreakdown
            PROVE  FALSE
        BY <2>1, <3>6 DEF EnforceRefused, EnforceBreakdown, CountOrRaise, Raise, Goto
      <3> HIDE DEF Goal
      <3>7. Goal
        BY <3>0, <3>1, <3>2, <3>3, <3>4, <3>5, <3>6 DEF Next
      <3> QED
        BY <3>7 DEF Goal
    <2>3. CASE Start(j)
      BY <2>1, <2>3 DEF Start, Goto
    <2>4. CASE PostProject(j)
      BY <2>1, <2>4 DEF PostProject, ProjectAt
    <2>5. CASE Recheck(j)
      BY <2>1, <2>5 DEF Recheck, IfCreated, Goto
    <2>6. CASE SetProject(j)
      BY <2>1, <2>6 DEF SetProject, ProjectAt
    <2>7. CASE SetProjectRefused(j)
      BY <2>7 DEF SetProjectRefused
    <2> QED
      BY <2>2, <2>3, <2>4, <2>5, <2>6, <2>7
  <1> QED
    BY <1>1, Invariant, PTL DEF Spec, FallbackOnlyWhereRefused

=============================================================================
