----------------------- MODULE GitLabNamespace_proofs -----------------------
(***************************************************************************)
(* Proofs of what jobs of GitLabNamespace report, for any set of jobs,     *)
(* projects and groups and any way the groups are nested.                  *)
(***************************************************************************)
EXTENDS GitLabNamespace, TLAPS

-----------------------------------------------------------------------------
(* The part of the types that the argument needs, and what levels may be.   *)
Shape ==
  /\ strict \in BOOLEAN
  /\ own \in [Jobs -> Projects]
  /\ DOMAIN project = Projects
  /\ permitted \subseteq Levels
  /\ strict => fallback = NoLevel
  /\ DOMAIN pc = Procs
  /\ excused \in [Procs -> BOOLEAN]
  /\ refused \in [Procs -> BOOLEAN]
  /\ raced \in [Procs -> BOOLEAN]

(* A job without a reason to fail goes the way that leads to its project.   *)
Reason(j) == excused[j] \/ refused[j] \/ raced[j]

Reasons ==
  /\ \A j \in Procs : pc[j] \in {"fallbackgroup", "failed"} => Reason(j)
  /\ \A j \in Jobs : pc[j] \in {"fallbackproject", "recheck"} =>
       Reason(j) \/ project[own[j]] # NoLevel

Inv == Shape /\ Reasons /\ StrictMeansDesired

(* A project is never taken away, nor moved from the configured level: it   *)
(* is created where there is none, and set to that level only.              *)
Upward ==
  \A p \in Projects :
    /\ project[p] # NoLevel => project'[p] # NoLevel
    /\ project[p] = Desired => project'[p] = Desired

LEMMA InitInv == Init => Inv
  <1> SUFFICES ASSUME Init PROVE Inv
    OBVIOUS
  <1>1. strict => fallback = NoLevel
    BY DEF Init
  <1>2. Shape
    BY <1>1 DEF Init, Shape, Levels
  <1>3. Reasons /\ StrictMeansDesired
    BY DEF Init, Reasons, StrictMeansDesired, Procs
  <1> QED
    BY <1>2, <1>3 DEF Inv

LEMMA ProjectAtUpward ==
  ASSUME Shape, NEW p, NEW v \in Nat, v = Desired \/ project[p] = NoLevel, ProjectAt(p, v)
  PROVE  Upward /\ DOMAIN project' = Projects
  BY NamespaceAssumption DEF Shape, ProjectAt, Upward, Levels

(* Every step keeps it.                                                     *)
LEMMA StepInv == Inv /\ [Next]_vars => Inv'
  <1> SUFFICES ASSUME Inv, [Next]_vars PROVE Inv'
    OBVIOUS
  <1> USE NamespaceAssumption DEF Goto, settings, enforcement, history, Procs, Own, Levels
  <1>a. Shape /\ Reasons /\ StrictMeansDesired
    BY DEF Inv
  <1>b. ASSUME Upward, Shape', Reasons',
               \A j \in Jobs : strict' /\ pc'[j] = "done" =>
                 \/ strict /\ pc[j] = "done" /\ own'[j] = own[j]
                 \/ project'[own'[j]] = Desired
        PROVE  Inv'
    BY <1>a, <1>b DEF Inv, Shape, StrictMeansDesired, Upward, Own
  <1>1. ASSUME NEW j \in Jobs, Start(j) PROVE Inv'
    <2>1. Upward /\ Shape'
      BY <1>a, <1>1 DEF Shape, Start, Upward
    <2>2. Reasons'
      BY <1>a, <1>1, <2>1 DEF Shape, Upward, Reasons, Reason, Start
    <2>3. \A i \in Jobs : strict' /\ pc'[i] = "done" =>
             \/ strict /\ pc[i] = "done" /\ own'[i] = own[i]
             \/ project'[own'[i]] = Desired
      BY <1>a, <1>1 DEF Shape, Start
    <2> QED
      BY <1>b, <2>1, <2>2, <2>3
  <1>2. ASSUME NEW j \in Jobs, PostProject(j) PROVE Inv'
    <2>1. Upward /\ Shape'
      BY <1>a, <1>2, ProjectAtUpward DEF Shape, PostProject, MayMakeProject
    <2>2. Reasons'
      BY <1>a, <1>2, <2>1 DEF Shape, Upward, Reasons, Reason, PostProject, MayMakeProject
    <2>3. \A i \in Jobs : strict' /\ pc'[i] = "done" =>
             \/ strict /\ pc[i] = "done" /\ own'[i] = own[i]
             \/ project'[own'[i]] = Desired
      BY <1>a, <1>2 DEF Shape, PostProject, MayMakeProject, ProjectAt
    <2> QED
      BY <1>b, <2>1, <2>2, <2>3
  <1>3. ASSUME NEW j \in Jobs, PostProjectRefused(j) PROVE Inv'
    <2>1. Upward /\ Shape'
      BY <1>a, <1>3 DEF Shape, PostProjectRefused, MayMakeProject, ProjectAllows, Upward
    <2>2. Reasons'
      BY <1>a, <1>3, <2>1
         DEF Shape, Upward, Reasons, Reason, PostProjectRefused, MayMakeProject,
             ProjectAllows
    <2>3. \A i \in Jobs : strict' /\ pc'[i] = "done" =>
             \/ strict /\ pc[i] = "done" /\ own'[i] = own[i]
             \/ project'[own'[i]] = Desired
      BY <1>a, <1>3 DEF Shape, PostProjectRefused, MayMakeProject, ProjectAllows
    <2> QED
      BY <1>b, <2>1, <2>2, <2>3
  <1>4. ASSUME NEW j \in Jobs, PostFallbackProject(j) PROVE Inv'
    <2>1. Upward /\ Shape'
      <3>1. fallback \in Nat /\ project[own[j]] = NoLevel /\ ProjectAt(own[j], fallback)
        BY <1>a, <1>4
           DEF Shape, Levels, PostFallbackProject, MayMakeProject, ProjectAllows, Own
      <3> QED
        BY <1>a, <1>4, <3>1, ProjectAtUpward
           DEF Shape, PostFallbackProject, Goto, settings, history
    <2>2. Reasons'
      BY <1>a, <1>4, <2>1
         DEF Shape, Upward, Reasons, Reason, PostFallbackProject, AfterFallback,
             MayMakeProject, ProjectAllows
    <2>3. \A i \in Jobs : strict' /\ pc'[i] = "done" =>
             \/ strict /\ pc[i] = "done" /\ own'[i] = own[i]
             \/ project'[own'[i]] = Desired
      BY <1>a, <1>4
         DEF Shape, PostFallbackProject, AfterFallback, MayMakeProject, ProjectAllows,
             ProjectAt
    <2> QED
      BY <1>b, <2>1, <2>2, <2>3
  <1>5. ASSUME NEW j \in Jobs, PostFallbackProjectRefused(j) PROVE Inv'
    <2>1. Upward /\ Shape'
      BY <1>a, <1>5 DEF Shape, PostFallbackProjectRefused, MayMakeProject, Upward
    <2>2. Reasons'
      BY <1>a, <1>5, <2>1
         DEF Shape, Upward, Reasons, Reason, PostFallbackProjectRefused, MayMakeProject
    <2>3. \A i \in Jobs : strict' /\ pc'[i] = "done" =>
             \/ strict /\ pc[i] = "done" /\ own'[i] = own[i]
             \/ project'[own'[i]] = Desired
      BY <1>a, <1>5 DEF Shape, PostFallbackProjectRefused, MayMakeProject
    <2> QED
      BY <1>b, <2>1, <2>2, <2>3
  <1>6. ASSUME NEW j \in Jobs, Recheck(j) PROVE Inv'
    <2>1. Upward /\ Shape'
      BY <1>a, <1>6 DEF Shape, Recheck, IfCreated, Upward
    <2>2. Reasons'
      BY <1>a, <1>6, <2>1 DEF Shape, Upward, Reasons, Reason, Recheck, IfCreated
    <2>3. \A i \in Jobs : strict' /\ pc'[i] = "done" =>
             \/ strict /\ pc[i] = "done" /\ own'[i] = own[i]
             \/ project'[own'[i]] = Desired
      BY <1>a, <1>6 DEF Shape, Recheck, IfCreated
    <2> QED
      BY <1>b, <2>1, <2>2, <2>3
  <1>7. ASSUME NEW j \in Jobs, SetProject(j) PROVE Inv'
    <2>1. Upward /\ Shape'
      BY <1>a, <1>7, ProjectAtUpward DEF Shape, SetProject, ProjectAllows
    <2>2. Reasons'
      BY <1>a, <1>7, <2>1 DEF Shape, Upward, Reasons, Reason, SetProject, ProjectAllows
    <2>3. \A i \in Jobs : strict' /\ pc'[i] = "done" =>
             \/ strict /\ pc[i] = "done" /\ own'[i] = own[i]
             \/ project'[own'[i]] = Desired
      BY <1>a, <1>7 DEF Shape, SetProject, ProjectAllows, ProjectAt
    <2> QED
      BY <1>b, <2>1, <2>2, <2>3
  <1>8. ASSUME NEW j \in Jobs, SetProjectRefused(j) PROVE Inv'
    <2>1. Upward /\ Shape'
      BY <1>a, <1>8 DEF Shape, SetProjectRefused, IfRefused, Upward
    <2>2. Reasons'
      BY <1>a, <1>8, <2>1 DEF Shape, Upward, Reasons, Reason, SetProjectRefused, IfRefused
    <2>3. \A i \in Jobs : strict' /\ pc'[i] = "done" =>
             \/ strict /\ pc[i] = "done" /\ own'[i] = own[i]
             \/ project'[own'[i]] = Desired
      BY <1>a, <1>8 DEF Shape, SetProjectRefused, IfRefused
    <2> QED
      BY <1>b, <2>1, <2>2, <2>3
  <1>9. ASSUME NEW j \in Procs, GetGroup(j) PROVE Inv'
    <2>1. Upward /\ Shape'
      BY <1>a, <1>9 DEF Shape, GetGroup, Descend, Upward
    <2>2. Reasons'
      BY <1>a, <1>9, <2>1 DEF Shape, Upward, Reasons, Reason, GetGroup, Descend
    <2>3. \A i \in Jobs : strict' /\ pc'[i] = "done" =>
             \/ strict /\ pc[i] = "done" /\ own'[i] = own[i]
             \/ project'[own'[i]] = Desired
      BY <1>a, <1>9 DEF Shape, GetGroup, Descend
    <2> QED
      BY <1>b, <2>1, <2>2, <2>3
  <1>10. ASSUME NEW j \in Procs, PostGroup(j) PROVE Inv'
    <2>1. Upward /\ Shape'
      BY <1>a, <1>10 DEF Shape, PostGroup, GroupAt, Descend, Upward
    <2>2. Reasons'
      BY <1>a, <1>10, <2>1 DEF Shape, Upward, Reasons, Reason, PostGroup, GroupAt, Descend
    <2>3. \A i \in Jobs : strict' /\ pc'[i] = "done" =>
             \/ strict /\ pc[i] = "done" /\ own'[i] = own[i]
             \/ project'[own'[i]] = Desired
      BY <1>a, <1>10 DEF Shape, PostGroup, GroupAt, Descend
    <2> QED
      BY <1>b, <2>1, <2>2, <2>3
  <1>11. ASSUME NEW j \in Procs, PostGroupRefused(j) PROVE Inv'
    <2>1. Upward /\ Shape'
      BY <1>a, <1>11 DEF Shape, PostGroupRefused, MayMakeGroup, GroupAllows, Upward
    <2>2. Reasons'
      BY <1>a, <1>11, <2>1
         DEF Shape, Upward, Reasons, Reason, PostGroupRefused, MayMakeGroup, GroupAllows
    <2>3. \A i \in Jobs : strict' /\ pc'[i] = "done" =>
             \/ strict /\ pc[i] = "done" /\ own'[i] = own[i]
             \/ project'[own'[i]] = Desired
      BY <1>a, <1>11 DEF Shape, PostGroupRefused, MayMakeGroup, GroupAllows
    <2> QED
      BY <1>b, <2>1, <2>2, <2>3
  <1>12. ASSUME NEW j \in Procs, PostFallbackGroup(j) PROVE Inv'
    <2>1. Upward /\ Shape'
      BY <1>a, <1>12 DEF Shape, PostFallbackGroup, GroupAt, Upward
    <2>2. Reasons'
      BY <1>a, <1>12, <2>1 DEF Shape, Upward, Reasons, Reason, PostFallbackGroup, GroupAt
    <2>3. \A i \in Jobs : strict' /\ pc'[i] = "done" =>
             \/ strict /\ pc[i] = "done" /\ own'[i] = own[i]
             \/ project'[own'[i]] = Desired
      BY <1>a, <1>12 DEF Shape, PostFallbackGroup, GroupAt
    <2> QED
      BY <1>b, <2>1, <2>2, <2>3
  <1>13. ASSUME NEW j \in Procs, PostFallbackGroupRefused(j) PROVE Inv'
    <2>1. Upward /\ Shape'
      BY <1>a, <1>13 DEF Shape, PostFallbackGroupRefused, Upward
    <2>2. Reasons'
      BY <1>a, <1>13, <2>1 DEF Shape, Upward, Reasons, Reason, PostFallbackGroupRefused
    <2>3. \A i \in Jobs : strict' /\ pc'[i] = "done" =>
             \/ strict /\ pc[i] = "done" /\ own'[i] = own[i]
             \/ project'[own'[i]] = Desired
      BY <1>a, <1>13 DEF Shape, PostFallbackGroupRefused
    <2> QED
      BY <1>b, <2>1, <2>2, <2>3
  <1>14. ASSUME NEW j \in Procs, SetGroup(j) PROVE Inv'
    <2>1. Upward /\ Shape'
      BY <1>a, <1>14 DEF Shape, SetGroup, GroupAt, Descend, Upward
    <2>2. Reasons'
      BY <1>a, <1>14, <2>1 DEF Shape, Upward, Reasons, Reason, SetGroup, GroupAt, Descend
    <2>3. \A i \in Jobs : strict' /\ pc'[i] = "done" =>
             \/ strict /\ pc[i] = "done" /\ own'[i] = own[i]
             \/ project'[own'[i]] = Desired
      BY <1>a, <1>14 DEF Shape, SetGroup, GroupAt, Descend
    <2> QED
      BY <1>b, <2>1, <2>2, <2>3
  <1>15. ASSUME NEW j \in Procs, SetGroupRefused(j) PROVE Inv'
    <2>1. Upward /\ Shape'
      BY <1>a, <1>15 DEF Shape, SetGroupRefused, Descend, Upward
    <2>2. Reasons'
      BY <1>a, <1>15, <2>1 DEF Shape, Upward, Reasons, Reason, SetGroupRefused, Descend
    <2>3. \A i \in Jobs : strict' /\ pc'[i] = "done" =>
             \/ strict /\ pc[i] = "done" /\ own'[i] = own[i]
             \/ project'[own'[i]] = Desired
      BY <1>a, <1>15 DEF Shape, SetGroupRefused, Descend
    <2> QED
      BY <1>b, <2>1, <2>2, <2>3
  <1>16. ASSUME NEW j \in Procs, Breakdown(j) PROVE Inv'
    <2>1. Upward /\ Shape'
      <3>1. \/ UNCHANGED project
            \/ \E p : ProjectAt(p, Desired)
            \/ project[own[j]] = NoLevel /\ fallback \in Nat /\ ProjectAt(own[j], fallback)
        <4>1. CarriedOut(j) \/ UNCHANGED project
          BY <1>16 DEF Breakdown
        <4>2. UNCHANGED project \/ (\E p : ProjectAt(p, Desired))
              \/ (MayMakeProject(own[j], fallback) /\ ProjectAt(own[j], fallback))
          BY <4>1 DEF CarriedOut, GroupAt
        <4>3. MayMakeProject(own[j], fallback) => fallback \in Nat /\ project[own[j]] = NoLevel
          <5>1. permitted \subseteq Nat
            BY <1>a DEF Shape
          <5> QED
            BY <5>1 DEF MayMakeProject, ProjectAllows
        <4> QED
          BY <4>2, <4>3
      <3>2. Upward /\ DOMAIN project' = Projects
        BY <1>a, <3>1, ProjectAtUpward DEF Upward, Shape, Levels
      <3>3. /\ DOMAIN pc' = Procs /\ excused' \in [Procs -> BOOLEAN]
            /\ UNCHANGED <<settings, refused, raced>>
        BY <1>a, <1>16 DEF Shape, Breakdown, Goto, Descend
      <3> QED
        BY <1>a, <3>2, <3>3 DEF Shape, settings
    <2>2. Reasons'
      BY <1>a, <1>16, <2>1
         DEF Shape, Upward, Reasons, Reason, Breakdown, CarriedOut, GroupAt, Descend,
             MayMakeProject, ProjectAllows
    <2>3. \A i \in Jobs : strict' /\ pc'[i] = "done" =>
             \/ strict /\ pc[i] = "done" /\ own'[i] = own[i]
             \/ project'[own'[i]] = Desired
      BY <1>a, <1>16
         DEF Shape, Breakdown, CarriedOut, GroupAt, Descend, MayMakeProject,
             ProjectAllows, ProjectAt
    <2> QED
      BY <1>b, <2>1, <2>2, <2>3
  <1>17. ASSUME NEW j \in Procs, Return(j) PROVE Inv'
    <2>1. Upward /\ Shape'
      BY <1>a, <1>17 DEF Shape, Return, Upward
    <2>2. Reasons'
      BY <1>a, <1>17, <2>1 DEF Shape, Upward, Reasons, Reason, Return
    <2>3. \A i \in Jobs : strict' /\ pc'[i] = "done" =>
             \/ strict /\ pc[i] = "done" /\ own'[i] = own[i]
             \/ project'[own'[i]] = Desired
      BY <1>a, <1>17 DEF Shape, Return
    <2> QED
      BY <1>b, <2>1, <2>2, <2>3
  <1>18. ASSUME EnforceStart PROVE Inv'
    <2>1. Upward /\ Shape'
      BY <1>a, <1>18 DEF Shape, EnforceStart, Upward
    <2>2. Reasons'
      BY <1>a, <1>18, <2>1 DEF Shape, Upward, Reasons, Reason, EnforceStart
    <2>3. \A i \in Jobs : strict' /\ pc'[i] = "done" =>
             \/ strict /\ pc[i] = "done" /\ own'[i] = own[i]
             \/ project'[own'[i]] = Desired
      BY <1>a, <1>18 DEF Shape, EnforceStart
    <2> QED
      BY <1>b, <2>1, <2>2, <2>3
  <1>19. ASSUME List PROVE Inv'
    <2>1. Upward /\ Shape'
      BY <1>a, <1>19 DEF Shape, List, Doing, Upward
    <2>2. Reasons'
      BY <1>a, <1>19, <2>1 DEF Shape, Upward, Reasons, Reason, List, Doing
    <2>3. \A i \in Jobs : strict' /\ pc'[i] = "done" =>
             \/ strict /\ pc[i] = "done" /\ own'[i] = own[i]
             \/ project'[own'[i]] = Desired
      BY <1>a, <1>19 DEF Shape, List, Doing
    <2> QED
      BY <1>b, <2>1, <2>2, <2>3
  <1>20. ASSUME EnforceSet PROVE Inv'
    <2>1. Upward /\ Shape'
      <3>1. UNCHANGED project \/ (\E p : ProjectAt(p, Desired))
        BY <1>20 DEF EnforceSet, Set, GroupAt
      <3>2. Upward /\ DOMAIN project' = Projects
        BY <1>a, <3>1, ProjectAtUpward DEF Upward, Shape, Levels
      <3> QED
        BY <1>a, <1>20, <3>2 DEF Shape, EnforceSet, settings, history
    <2>2. Reasons'
      BY <1>a, <1>20, <2>1
         DEF Shape, Upward, Reasons, Reason, EnforceSet, Set, GroupAt, Doing
    <2>3. \A i \in Jobs : strict' /\ pc'[i] = "done" =>
             \/ strict /\ pc[i] = "done" /\ own'[i] = own[i]
             \/ project'[own'[i]] = Desired
      BY <1>a, <1>20 DEF Shape, EnforceSet, Set, GroupAt, Doing, ProjectAt
    <2> QED
      BY <1>b, <2>1, <2>2, <2>3
  <1>21. ASSUME EnforceRefused PROVE Inv'
    <2>1. Upward /\ Shape'
      BY <1>a, <1>21 DEF Shape, EnforceRefused, CountOrRaise, Raise, Doing, Upward
    <2>2. Reasons'
      BY <1>a, <1>21, <2>1
         DEF Shape, Upward, Reasons, Reason, EnforceRefused, CountOrRaise, Raise, Doing
    <2>3. \A i \in Jobs : strict' /\ pc'[i] = "done" =>
             \/ strict /\ pc[i] = "done" /\ own'[i] = own[i]
             \/ project'[own'[i]] = Desired
      BY <1>a, <1>21 DEF Shape, EnforceRefused, CountOrRaise, Raise, Doing
    <2> QED
      BY <1>b, <2>1, <2>2, <2>3
  <1>22. ASSUME EnforceBreakdown PROVE Inv'
    <2>1. Upward /\ Shape'
      <3>1. UNCHANGED project \/ (\E p : ProjectAt(p, Desired))
        BY <1>22 DEF EnforceBreakdown, Set, GroupAt
      <3>2. Upward /\ DOMAIN project' = Projects
        BY <1>a, <3>1, ProjectAtUpward DEF Upward, Shape, Levels
      <3>3. /\ DOMAIN pc' = Procs /\ excused' \in [Procs -> BOOLEAN]
            /\ UNCHANGED <<settings, refused, raced>>
        BY <1>a, <1>22 DEF Shape, EnforceBreakdown, CountOrRaise, Raise, Goto
      <3> QED
        BY <1>a, <3>2, <3>3 DEF Shape, settings
    <2>2. Reasons'
      BY <1>a, <1>22, <2>1
         DEF Shape, Upward, Reasons, Reason, EnforceBreakdown, CountOrRaise, Raise, Set,
             GroupAt
    <2>3. \A i \in Jobs : strict' /\ pc'[i] = "done" =>
             \/ strict /\ pc[i] = "done" /\ own'[i] = own[i]
             \/ project'[own'[i]] = Desired
      BY <1>a, <1>22
         DEF Shape, EnforceBreakdown, CountOrRaise, Raise, Set, GroupAt, ProjectAt
    <2> QED
      BY <1>b, <2>1, <2>2, <2>3
  <1>23. ASSUME EnforceEnd PROVE Inv'
    <2>1. Upward /\ Shape'
      BY <1>a, <1>23 DEF Shape, EnforceEnd, Upward
    <2>2. Reasons'
      BY <1>a, <1>23, <2>1 DEF Shape, Upward, Reasons, Reason, EnforceEnd
    <2>3. \A i \in Jobs : strict' /\ pc'[i] = "done" =>
             \/ strict /\ pc[i] = "done" /\ own'[i] = own[i]
             \/ project'[own'[i]] = Desired
      BY <1>a, <1>23 DEF Shape, EnforceEnd
    <2> QED
      BY <1>b, <2>1, <2>2, <2>3
  <1>24. ASSUME PolicyRelaxed PROVE Inv'
    <2>1. Upward /\ Shape'
      BY <1>a, <1>24 DEF Shape, PolicyRelaxed, Upward
    <2>2. Reasons'
      BY <1>a, <1>24, <2>1 DEF Shape, Upward, Reasons, Reason, PolicyRelaxed
    <2>3. \A i \in Jobs : strict' /\ pc'[i] = "done" =>
             \/ strict /\ pc[i] = "done" /\ own'[i] = own[i]
             \/ project'[own'[i]] = Desired
      BY <1>a, <1>24 DEF Shape, PolicyRelaxed
    <2> QED
      BY <1>b, <2>1, <2>2, <2>3
  <1>25. ASSUME UNCHANGED vars PROVE Inv'
    <2>1. Upward /\ Shape'
      BY <1>a, <1>25 DEF Shape, vars, Upward
    <2>2. Reasons'
      BY <1>a, <1>25, <2>1 DEF Shape, Upward, Reasons, Reason, vars
    <2>3. \A i \in Jobs : strict' /\ pc'[i] = "done" =>
             \/ strict /\ pc[i] = "done" /\ own'[i] = own[i]
             \/ project'[own'[i]] = Desired
      BY <1>a, <1>25 DEF Shape, vars
    <2> QED
      BY <1>b, <2>1, <2>2, <2>3
  <1> QED
    BY <1>1, <1>2, <1>3, <1>4, <1>5, <1>6, <1>7, <1>8, <1>9, <1>10, <1>11, <1>12,
       <1>13, <1>14, <1>15, <1>16, <1>17, <1>18, <1>19, <1>20, <1>21, <1>22, <1>23,
       <1>24, <1>25
       DEF Next

LEMMA Invariant == Spec => []Inv
  BY InitInv, StepInv, PTL DEF Spec

(* In strict mode a job that succeeds leaves the configured level.          *)
THEOREM StrictIsStrict == Spec => []StrictMeansDesired
  BY Invariant, PTL DEF Inv

(* Only a breakdown, a refusal or a lost race for a group fails a job.      *)
THEOREM FailuresHaveReasons == Spec => []FailsOnlyWithReason
  <1>1. Inv => FailsOnlyWithReason
    BY DEF Inv, Reasons, Reason, FailsOnlyWithReason
  <1> QED
    BY <1>1, Invariant, PTL

=============================================================================
