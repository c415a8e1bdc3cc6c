------------------------ MODULE DefaultBranch_proofs ------------------------
(***************************************************************************)
(* Proofs of the invariants of DefaultBranch, for any set of repairers,    *)
(* commands and branches.                                                  *)
(***************************************************************************)
EXTENDS DefaultBranch, WellFoundedInduction, TLAPS

-----------------------------------------------------------------------------
(* What is chosen is one of the heads. *)

LEMMA Least ==
  ASSUME NEW h \in SUBSET Names, h # {}
  PROVE  \E b \in h : \A c \in h : Rank[b] <= Rank[c]
  <1> DEFINE R == OpToRel(<, Nat)
             T == {Rank[b] : b \in h}
  <1>1. T \subseteq Nat /\ T # {}
    BY BranchAssumption DEF Names
  <1>2. PICK x \in T : \A y \in T : ~(<<y, x>> \in R)
    <2> HIDE DEF R, T
    <2> QED BY <1>1, WFMin, NatLessThanWellFounded DEF R
  <1>3. \A m, n \in Nat : m < n => <<m, n>> \in R
    BY DEF OpToRel
  <1>4. \A y \in T : x <= y
    <2> TAKE y \in T
    <2>1. x \in Nat /\ y \in Nat
      BY <1>1
    <2> HIDE DEF R, T
    <2>2. ~(y < x)
      BY <1>2, <1>3, <2>1
    <2> QED BY <2>1, <2>2
  <1> QED
    BY <1>2, <1>4

LEMMA ChoiceIsHead ==
  ASSUME NEW h \in SUBSET Names, h # {}, NEW old, NEW asked
  PROVE  Choice(old, asked, h) \in h
  <1>1. Preferred(h) \in h
    BY Least DEF Preferred
  <1> QED
    BY <1>1 DEF Choice

-----------------------------------------------------------------------------
(* Types and the advertised HEAD. *)

(* A HEAD that is advertised exists; once there is one, there always is.    *)
Heads ==
  /\ advertised \in heads \cup {NoBranch}
  /\ advertised = Temp => default = Temp
  /\ \A r \in Repairers : before[r] # NoBranch => advertised # NoBranch
  /\ \A r \in Commands : pc[r] \notin {"idle", "before", "plan"} => plan[r] \in Names

Core == TypeOK /\ Heads

LEMMA InitCore == Init => Core
  BY BranchAssumption DEF Init, Core, TypeOK, Heads, Names

LEMMA FinishCore ==
  ASSUME Core, NEW r \in Repairers, Finish(r)
  PROVE  /\ pc' = [pc EXCEPT ![r] = "idle"]
         /\ seen' \in [Repairers -> Names \cup {NoBranch}]
         /\ listed' \in [Repairers -> SUBSET Names]
         /\ desired' \in [Repairers -> Names \cup {NoBranch}]
         /\ \A q \in Repairers :
              pc'[q] \notin {"idle", "before", "plan", "heads", "counted"} =>
                desired'[q] \in listed'[q]
         /\ before' \in [Repairers -> Names \cup {NoBranch}]
         /\ plan' \in [Repairers -> Names \cup {NoBranch}]
         /\ created' \in [Repairers -> BOOLEAN]
         /\ \A q \in Repairers : before'[q] # NoBranch => before[q] # NoBranch
         /\ \A q \in Commands : pc'[q] \notin {"idle", "before", "plan"} => plan'[q] \in Names
  BY BranchAssumption DEF Finish, Goto, Core, TypeOK, Heads

LEMMA MakeCore ==
  ASSUME Core, NEW b, Make(b)
  PROVE  /\ heads' = heads /\ b \in heads /\ b \in Names
         /\ default' = b
         /\ advertised' \in heads' \cup {NoBranch}
         /\ advertised # NoBranch => advertised' # NoBranch
         /\ advertised' = Temp => default' = Temp
  BY BranchAssumption DEF Make, Core, TypeOK, Heads, Names

(* Every step keeps the types; the disposable branch is deleted only where  *)
(* it is not the default, hence not advertised.                             *)
LEMMA StepCore == Core /\ [Next]_vars => Core'
  <1> SUFFICES ASSUME Core, [Next]_vars PROVE Core'
    OBVIOUS
  <1> USE BranchAssumption
      DEF Core, TypeOK, Heads, gitlabVars, counting, historyVars, repairerVars, Goto, Names
  <1>1. ASSUME NEW r \in Repairers, ReadProject(r) PROVE Core'
    BY <1>1 DEF ReadProject
  <1>2. ASSUME NEW r \in Repairers, ReadBefore(r) PROVE Core'
    BY <1>2 DEF ReadBefore
  <1>3. ASSUME NEW r \in Repairers, Plan(r) PROVE Core'
    BY <1>3, ChoiceIsHead DEF Plan
  <1>4. ASSUME NEW r \in Repairers, ReadHeads(r) PROVE Core'
    BY <1>4, ChoiceIsHead DEF ReadHeads
  <1>5. ASSUME NEW r \in Repairers, NoHeads(r) PROVE Core'
    BY <1>5, FinishCore DEF NoHeads
  <1>6. ASSUME NEW r \in Repairers, ReadAdvertised(r) PROVE Core'
    BY <1>6 DEF ReadAdvertised
  <1>7. ASSUME NEW r \in Repairers, SetDefault(r) PROVE Core'
    BY <1>7, MakeCore DEF SetDefault
  <1>8. ASSUME NEW r \in Repairers, Verify(r) PROVE Core'
    BY <1>8 DEF Verify
  <1>9. ASSUME NEW r \in Repairers, CreateTemp(r) PROVE Core'
    BY <1>9 DEF CreateTemp
  <1>10. ASSUME NEW r \in Repairers, ToggleAway(r) PROVE Core'
    BY <1>10, MakeCore DEF ToggleAway
  <1>11. ASSUME NEW r \in Repairers, ToggleBack(r) PROVE Core'
    BY <1>11, MakeCore DEF ToggleBack
  <1>12. ASSUME NEW r \in Repairers, DeleteTemp(r) PROVE Core'
    BY <1>12 DEF DeleteTemp, CanDelete
  <1>13. ASSUME NEW r \in Repairers, DeleteAndRaise(r) PROVE Core'
    BY <1>13, FinishCore DEF DeleteAndRaise, CanDelete
  <1>14. ASSUME NEW r \in Repairers, DeleteFails(r) PROVE Core'
    BY <1>14, FinishCore DEF DeleteFails
  <1>15. ASSUME NEW r \in Repairers, Reverify(r) PROVE Core'
    BY <1>15 DEF Reverify
  <1>16. ASSUME NEW r \in Repairers, ReadAfter(r) PROVE Core'
    BY <1>16 DEF ReadAfter
  <1>17. ASSUME NEW r \in Repairers, Return(r) PROVE Core'
    BY <1>17, FinishCore DEF Return
  <1>18. ASSUME NEW r \in Repairers, CallFails(r) PROVE Core'
    <2>1. CASE UNCHANGED <<gitlabVars, disturbed>>
      BY <1>18, <2>1, FinishCore DEF CallFails
    <2>2. CASE pc[r] = "set" /\ Make(desired[r]) /\ UNCHANGED disturbed
      BY <1>18, <2>2, FinishCore, MakeCore DEF CallFails
    <2>3. CASE /\ heads' = heads \cup {Temp}
               /\ disturbed' = TRUE
               /\ UNCHANGED <<default, advertised>>
      BY <1>18, <2>3, FinishCore DEF CallFails
    <2> QED
      BY <1>18, <2>1, <2>2, <2>3 DEF CallFails
  <1>19. ASSUME NEW r \in Repairers, ToggleFails(r) PROVE Core'
    <2>1. /\ heads' = heads /\ default' \in Names \cup {NoBranch}
          /\ advertised' \in heads' \cup {NoBranch}
          /\ advertised # NoBranch => advertised' # NoBranch
          /\ advertised' = Temp => default' = Temp
      <3>1. UNCHANGED gitlabVars \/ (\E b : Make(b))
        BY <1>19 DEF ToggleFails
      <3> QED
        BY <3>1, MakeCore
    <2>a. /\ disturbed' \in BOOLEAN
          /\ UNCHANGED <<upHead, localHead, original, overlapped>>
          /\ pc[r] \in {"toggle", "back"}
      BY <1>19 DEF ToggleFails
    <2>2. CASE Finish(r)
      BY <2>1, <2>a, <2>2, FinishCore
    <2>3. CASE Goto(r, "raise") /\ UNCHANGED <<seen, listed, desired, created, counting>>
      <3>1. pc' = [pc EXCEPT ![r] = "raise"] /\ desired[r] \in listed[r]
        BY <2>a, <2>3
      <3>2. TypeOK'
        BY <2>1, <2>a, <2>3, <3>1
      <3>3. Heads'
        BY <2>1, <2>a, <2>3, <3>1
      <3> QED
        BY <3>2, <3>3
    <2> QED
      BY <1>19, <2>2, <2>3 DEF ToggleFails
  <1>20. ASSUME NEW r \in Repairers, Crash(r) PROVE Core'
    BY <1>20, FinishCore DEF Crash
  <1>21. ASSUME PushBranch PROVE Core'
    BY <1>21 DEF PushBranch
  <1>22. ASSUME UpstreamRenames PROVE Core'
    BY <1>22 DEF UpstreamRenames
  <1>23. ASSUME UNCHANGED vars PROVE Core'
    BY <1>23 DEF vars
  <1> QED
    BY <1>1, <1>2, <1>3, <1>4, <1>5, <1>6, <1>7, <1>8, <1>9, <1>10, <1>11, <1>12,
       <1>13, <1>14, <1>15, <1>16, <1>17, <1>18, <1>19, <1>20, <1>21, <1>22, <1>23
       DEF Next

LEMMA CoreInvariant == Spec => []Core
  BY InitCore, StepCore, PTL DEF Spec

(* Types hold throughout, and what a repairer decided on it had listed.     *)
THEOREM TypeCorrect == Spec => []TypeOK
  BY CoreInvariant, PTL DEF Core

(* A repair that reports success, and a project the command counts, had an  *)
(* advertised HEAD that exists, however repairs overlap: what is compared   *)
(* with the advertised HEAD is the name of a branch, and a HEAD that was    *)
(* once there is never lost.                                                *)
THEOREM RepairedIsCloneable == Spec => RepairedMeansCloneable
  <1> DEFINE Reports(r) == pc[r] # pc'[r] /\ pc'[r] \in {"repaired", "counted"}
  <1>1. ASSUME Core, [Next]_vars, NEW r \in Repairers, Reports(r)
        PROVE  advertised \in heads
    <2> USE <1>1, BranchAssumption DEF Core, TypeOK, Heads, Goto, Names
    <2>1. \E q \in Repairers :
            ReadAdvertised(q) \/ Verify(q) \/ Reverify(q) \/ ReadAfter(q) \/ Plan(q)
      BY
         DEF Next, vars, repairerVars, counting, ReadProject, ReadBefore, ReadHeads,
             NoHeads,
             SetDefault, CreateTemp, ToggleAway, ToggleBack, DeleteTemp, DeleteAndRaise,
             DeleteFails, Return, CallFails, ToggleFails, Crash, PushBranch,
             UpstreamRenames, Finish
    <2>2. PICK q \in Repairers :
            ReadAdvertised(q) \/ Verify(q) \/ Reverify(q) \/ ReadAfter(q) \/ Plan(q)
      BY <2>1
    <2>3. CASE ReadAdvertised(q)
      BY <2>3 DEF ReadAdvertised, AlreadyGood
    <2>4. CASE Verify(q)
      BY <2>4 DEF Verify
    <2>5. CASE Reverify(q)
      BY <2>5 DEF Reverify
    <2>6. CASE ReadAfter(q)
      BY <2>6 DEF ReadAfter
    <2>7. CASE Plan(q)
      BY <2>7, ChoiceIsHead DEF Plan, AlreadyOk
    <2> QED
      BY <2>2, <2>3, <2>4, <2>5, <2>6, <2>7
  <1>2. Core /\ [Next]_vars => [\A r \in Repairers : Reports(r) => advertised \in heads]_vars
    BY <1>1
  <1> QED
    BY <1>2, CoreInvariant, PTL DEF Spec, RepairedMeansCloneable

-----------------------------------------------------------------------------
(* Repairs that do not overlap. *)

Toggling == {"toggle", "back", "delete", "raise"}

(* One repair runs at a time.                                               *)
Solo == \A r, q \in Repairers : pc[r] # "idle" /\ pc[q] # "idle" => r = q

(* So what it has read or written still holds when it is used.              *)
ReadsHold ==
  \A r \in Repairers :
    /\ pc[r] \in {"before", "plan", "heads", "advertised"} => seen[r] = default
    /\ pc[r] = "plan" => before[r] = advertised
    /\ pc[r] \in {"verify", "delete", "reverify"} => default = desired[r]
    /\ pc[r] \in {"repaired", "counted"} => default = advertised /\ default \in heads

(* A default branch that existed is what every repair wants; the toggle     *)
(* alone puts another one in its place.                                     *)
Kept ==
  original # NoBranch =>
    /\ original \in heads /\ default \in heads /\ default \in {original, Temp}
    /\ \A r \in Repairers : desired[r] \in {original, Temp, NoBranch}

(* The disposable branch is there only inside the toggle of the one who     *)
(* made it, and the default only until it is taken back.                    *)
Tidy ==
  ~disturbed =>
    /\ (\A r \in Repairers : pc[r] \notin Toggling) => Temp \notin heads /\ default # Temp
    /\ \A r \in Repairers :
         /\ pc[r] \in Toggling \ {"back"} => default # Temp
         /\ pc[r] \in Toggling => created[r] = TRUE
         /\ Temp \notin listed[r] /\ desired[r] # Temp

Alone == ~overlapped => Solo /\ ReadsHold /\ Kept /\ Tidy

LEMMA InitAlone == Init => Alone
  BY BranchAssumption DEF Init, Alone, Solo, ReadsHold, Kept, Tidy, Toggling

LEMMA FinishAlone ==
  ASSUME Core, Alone, ~overlapped, NEW r \in Repairers, pc[r] # "idle", Finish(r)
  PROVE  /\ \A q \in Repairers : pc'[q] = "idle"
         /\ \A q \in Repairers : listed'[q] = {} \/ listed'[q] = listed[q]
         /\ \A q \in Repairers : desired'[q] \in {NoBranch, desired[q]}
         /\ Solo' /\ ReadsHold'
  BY DEF Finish, Goto, Core, TypeOK, Alone, Solo, ReadsHold

(* Every step of the one repair that runs keeps this.                       *)
LEMMA StepAlone == Core /\ Alone /\ [Next]_vars => Alone'
  <1> SUFFICES ASSUME Core, Alone, [Next]_vars, ~overlapped'
               PROVE  (Solo /\ ReadsHold /\ Kept /\ Tidy)'
    BY DEF Alone
  <1> USE BranchAssumption
  <1>a. ~overlapped
    BY
       DEF Core, TypeOK, Next, vars, historyVars, ReadProject, ReadBefore, Plan,
           ReadHeads, NoHeads,
           ReadAdvertised, SetDefault, Verify, CreateTemp, ToggleAway, ToggleBack,
           DeleteTemp, DeleteAndRaise, DeleteFails, Reverify, ReadAfter, Return,
           CallFails, ToggleFails, Crash, PushBranch, UpstreamRenames
  <1>b. Solo /\ ReadsHold /\ Kept /\ Tidy
    BY <1>a DEF Alone
  <1> USE DEF Core, TypeOK, Heads, gitlabVars, counting, historyVars,
             repairerVars, Goto, Names, Toggling
  <1>1. ASSUME NEW r \in Repairers, ReadProject(r)
        PROVE  (Solo /\ ReadsHold /\ Kept /\ Tidy)'
    <2>1. Solo'
      <3>1. \A q \in Repairers : pc[q] = "idle"
        BY <1>a, <1>1 DEF ReadProject, Idle
      <3> QED
        BY <1>1, <3>1 DEF ReadProject, Solo
    <2>2. ReadsHold'
      BY <1>a, <1>b, <1>1 DEF ReadProject, Idle, Solo, ReadsHold
    <2>3. Kept'
      BY <1>a, <1>b, <1>1 DEF ReadProject, Idle, Solo, Kept
    <2>4. Tidy'
      BY <1>a, <1>b, <1>1 DEF ReadProject, Idle, Solo, Tidy
    <2> QED
      BY <2>1, <2>2, <2>3, <2>4
  <1>2. ASSUME NEW r \in Repairers, ReadBefore(r) PROVE (Solo /\ ReadsHold /\ Kept /\ Tidy)'
    <2>1. Solo'
      BY <1>a, <1>b, <1>2 DEF ReadBefore, Solo
    <2>2. ReadsHold'
      BY <1>a, <1>b, <1>2 DEF ReadBefore, Solo, ReadsHold
    <2>3. Kept'
      BY <1>a, <1>b, <1>2 DEF ReadBefore, Solo, Kept
    <2>4. Tidy'
      BY <1>a, <1>b, <1>2 DEF ReadBefore, Solo, Tidy
    <2> QED
      BY <2>1, <2>2, <2>3, <2>4
  <1>3. ASSUME NEW r \in Repairers, Plan(r) PROVE (Solo /\ ReadsHold /\ Kept /\ Tidy)'
    <2>1. Solo'
      BY <1>a, <1>b, <1>3, ChoiceIsHead DEF Plan, AlreadyOk, Solo
    <2>2. ReadsHold'
      BY <1>a, <1>b, <1>3, ChoiceIsHead DEF Plan, AlreadyOk, Solo, ReadsHold
    <2>3. Kept'
      BY <1>a, <1>b, <1>3, ChoiceIsHead DEF Plan, AlreadyOk, Solo, Kept
    <2>4. Tidy'
      BY <1>a, <1>b, <1>3, ChoiceIsHead DEF Plan, AlreadyOk, Solo, Tidy
    <2> QED
      BY <2>1, <2>2, <2>3, <2>4
  <1>4. ASSUME NEW r \in Repairers, ReadHeads(r) PROVE (Solo /\ ReadsHold /\ Kept /\ Tidy)'
    <2>1. Solo'
      BY <1>a, <1>b, <1>4, ChoiceIsHead DEF ReadHeads, Choice, Solo
    <2>2. ReadsHold'
      BY <1>a, <1>b, <1>4, ChoiceIsHead DEF ReadHeads, Choice, Solo, ReadsHold
    <2>3. Kept'
      BY <1>a, <1>b, <1>4, ChoiceIsHead DEF ReadHeads, Choice, ReadsHold, Solo, Kept
    <2>4. Tidy'
      BY <1>a, <1>b, <1>4, ChoiceIsHead DEF ReadHeads, Choice, Solo, Tidy
    <2> QED
      BY <2>1, <2>2, <2>3, <2>4
  <1>5. ASSUME NEW r \in Repairers, NoHeads(r) PROVE (Solo /\ ReadsHold /\ Kept /\ Tidy)'
    <2>1. Solo'
      BY <1>a, <1>b, <1>5, FinishAlone DEF NoHeads, Solo
    <2>2. ReadsHold'
      BY <1>a, <1>b, <1>5, FinishAlone DEF NoHeads, Solo, ReadsHold
    <2>3. Kept'
      BY <1>a, <1>b, <1>5, FinishAlone DEF NoHeads, Solo, Kept
    <2>4. Tidy'
      BY <1>a, <1>b, <1>5, FinishAlone DEF NoHeads, Solo, Tidy
    <2> QED
      BY <2>1, <2>2, <2>3, <2>4
  <1>6. ASSUME NEW r \in Repairers, ReadAdvertised(r)
        PROVE  (Solo /\ ReadsHold /\ Kept /\ Tidy)'
    <2>1. Solo'
      BY <1>a, <1>b, <1>6 DEF ReadAdvertised, AlreadyGood, Solo
    <2>2. ReadsHold'
      BY <1>a, <1>b, <1>6 DEF ReadAdvertised, AlreadyGood, Solo, ReadsHold
    <2>3. Kept'
      BY <1>a, <1>b, <1>6 DEF ReadAdvertised, AlreadyGood, Solo, Kept
    <2>4. Tidy'
      BY <1>a, <1>b, <1>6 DEF ReadAdvertised, AlreadyGood, Solo, Tidy
    <2> QED
      BY <2>1, <2>2, <2>3, <2>4
  <1>7. ASSUME NEW r \in Repairers, SetDefault(r) PROVE (Solo /\ ReadsHold /\ Kept /\ Tidy)'
    <2>1. Solo'
      BY <1>a, <1>b, <1>7 DEF SetDefault, Make, Solo
    <2>2. ReadsHold'
      BY <1>a, <1>b, <1>7 DEF SetDefault, Make, Solo, ReadsHold
    <2>3. Kept'
      BY <1>a, <1>b, <1>7 DEF SetDefault, Make, Solo, Kept
    <2>4. Tidy'
      BY <1>a, <1>b, <1>7 DEF SetDefault, Make, Solo, Tidy
    <2> QED
      BY <2>1, <2>2, <2>3, <2>4
  <1>8. ASSUME NEW r \in Repairers, Verify(r) PROVE (Solo /\ ReadsHold /\ Kept /\ Tidy)'
    <2>1. Solo'
      BY <1>a, <1>b, <1>8 DEF Verify, Solo
    <2>2. ReadsHold'
      BY <1>a, <1>b, <1>8 DEF Verify, Solo, ReadsHold
    <2>3. Kept'
      BY <1>a, <1>b, <1>8 DEF Verify, Solo, Kept
    <2>4. Tidy'
      BY <1>a, <1>b, <1>8 DEF Verify, Solo, Tidy
    <2> QED
      BY <2>1, <2>2, <2>3, <2>4
  <1>9. ASSUME NEW r \in Repairers, CreateTemp(r) PROVE (Solo /\ ReadsHold /\ Kept /\ Tidy)'
    <2>1. Solo'
      BY <1>a, <1>b, <1>9 DEF CreateTemp, Solo
    <2>2. ReadsHold'
      BY <1>a, <1>b, <1>9 DEF CreateTemp, Solo, ReadsHold
    <2>3. Kept'
      BY <1>a, <1>b, <1>9 DEF CreateTemp, Solo, Kept
    <2>4. Tidy'
      <3>1. \A q \in Repairers \ {r} : pc[q] = "idle"
        BY <1>b, <1>9 DEF CreateTemp, Solo
      <3>2. ~disturbed => Temp \notin heads /\ default # Temp
        BY <1>b, <1>9, <3>1 DEF CreateTemp, Tidy
      <3>3. ~disturbed => created'[r] = TRUE
        <4>1. created'[r] = (Temp \notin heads)
          BY <1>9 DEF CreateTemp
        <4> QED
          BY <3>2, <4>1
      <3> QED
        BY <1>b, <1>9, <3>1, <3>2, <3>3 DEF CreateTemp, Tidy
    <2> QED
      BY <2>1, <2>2, <2>3, <2>4
  <1>10. ASSUME NEW r \in Repairers, ToggleAway(r)
         PROVE  (Solo /\ ReadsHold /\ Kept /\ Tidy)'
    <2>1. Solo'
      BY <1>a, <1>b, <1>10 DEF ToggleAway, Make, Solo
    <2>2. ReadsHold'
      BY <1>a, <1>b, <1>10 DEF ToggleAway, Make, Solo, ReadsHold
    <2>3. Kept'
      BY <1>a, <1>b, <1>10 DEF ToggleAway, Make, Solo, Kept
    <2>4. Tidy'
      BY <1>a, <1>b, <1>10 DEF ToggleAway, Make, Solo, Tidy
    <2> QED
      BY <2>1, <2>2, <2>3, <2>4
  <1>11. ASSUME NEW r \in Repairers, ToggleBack(r)
         PROVE  (Solo /\ ReadsHold /\ Kept /\ Tidy)'
    <2>1. Solo'
      BY <1>a, <1>b, <1>11 DEF ToggleBack, Make, Solo
    <2>2. ReadsHold'
      BY <1>a, <1>b, <1>11 DEF ToggleBack, Make, Solo, ReadsHold
    <2>3. Kept'
      BY <1>a, <1>b, <1>11 DEF ToggleBack, Make, Solo, Kept
    <2>4. Tidy'
      BY <1>a, <1>b, <1>11 DEF ToggleBack, Make, Solo, Tidy
    <2> QED
      BY <2>1, <2>2, <2>3, <2>4
  <1>12. ASSUME NEW r \in Repairers, DeleteTemp(r)
         PROVE  (Solo /\ ReadsHold /\ Kept /\ Tidy)'
    <2>1. Solo'
      BY <1>a, <1>b, <1>12 DEF DeleteTemp, CanDelete, Solo
    <2>2. ReadsHold'
      BY <1>a, <1>b, <1>12 DEF DeleteTemp, CanDelete, Solo, ReadsHold
    <2>3. Kept'
      BY <1>a, <1>b, <1>12 DEF DeleteTemp, CanDelete, Solo, Kept
    <2>4. Tidy'
      BY <1>a, <1>b, <1>12 DEF DeleteTemp, CanDelete, Solo, Tidy
    <2> QED
      BY <2>1, <2>2, <2>3, <2>4
  <1>13. ASSUME NEW r \in Repairers, DeleteAndRaise(r)
         PROVE  (Solo /\ ReadsHold /\ Kept /\ Tidy)'
    <2>1. Solo'
      BY <1>a, <1>b, <1>13, FinishAlone DEF DeleteAndRaise, CanDelete, Solo
    <2>2. ReadsHold'
      BY <1>a, <1>b, <1>13, FinishAlone DEF DeleteAndRaise, CanDelete, Solo, ReadsHold
    <2>3. Kept'
      BY <1>a, <1>b, <1>13, FinishAlone DEF DeleteAndRaise, CanDelete, Solo, Kept
    <2>4. Tidy'
      BY <1>a, <1>b, <1>13, FinishAlone DEF DeleteAndRaise, CanDelete, Solo, Tidy
    <2> QED
      BY <2>1, <2>2, <2>3, <2>4
  <1>14. ASSUME NEW r \in Repairers, DeleteFails(r)
         PROVE  (Solo /\ ReadsHold /\ Kept /\ Tidy)'
    <2>1. Solo'
      BY <1>a, <1>b, <1>14, FinishAlone DEF DeleteFails, Solo
    <2>2. ReadsHold'
      BY <1>a, <1>b, <1>14, FinishAlone DEF DeleteFails, Solo, ReadsHold
    <2>3. Kept'
      BY <1>a, <1>b, <1>14, FinishAlone DEF DeleteFails, Solo, Kept
    <2>4. Tidy'
      BY <1>a, <1>b, <1>14, FinishAlone DEF DeleteFails, Solo, Tidy
    <2> QED
      BY <2>1, <2>2, <2>3, <2>4
  <1>15. ASSUME NEW r \in Repairers, Reverify(r) PROVE (Solo /\ ReadsHold /\ Kept /\ Tidy)'
    <2>1. Solo'
      BY <1>a, <1>b, <1>15 DEF Reverify, Solo
    <2>2. ReadsHold'
      BY <1>a, <1>b, <1>15 DEF Reverify, Solo, ReadsHold
    <2>3. Kept'
      BY <1>a, <1>b, <1>15 DEF Reverify, Solo, Kept
    <2>4. Tidy'
      BY <1>a, <1>b, <1>15 DEF Reverify, Solo, Tidy
    <2> QED
      BY <2>1, <2>2, <2>3, <2>4
  <1>16. ASSUME NEW r \in Repairers, ReadAfter(r) PROVE (Solo /\ ReadsHold /\ Kept /\ Tidy)'
    <2>1. Solo'
      BY <1>a, <1>b, <1>16 DEF ReadAfter, Solo
    <2>2. ReadsHold'
      BY <1>a, <1>b, <1>16 DEF ReadAfter, Solo, ReadsHold
    <2>3. Kept'
      BY <1>a, <1>b, <1>16 DEF ReadAfter, Solo, Kept
    <2>4. Tidy'
      BY <1>a, <1>b, <1>16 DEF ReadAfter, Solo, Tidy
    <2> QED
      BY <2>1, <2>2, <2>3, <2>4
  <1>17. ASSUME NEW r \in Repairers, Return(r) PROVE (Solo /\ ReadsHold /\ Kept /\ Tidy)'
    <2>1. Solo'
      BY <1>a, <1>b, <1>17, FinishAlone DEF Return, Solo
    <2>2. ReadsHold'
      BY <1>a, <1>b, <1>17, FinishAlone DEF Return, Solo, ReadsHold
    <2>3. Kept'
      BY <1>a, <1>b, <1>17, FinishAlone DEF Return, Solo, Kept
    <2>4. Tidy'
      BY <1>a, <1>b, <1>17, FinishAlone DEF Return, Solo, Tidy
    <2> QED
      BY <2>1, <2>2, <2>3, <2>4
  <1>18. ASSUME NEW r \in Repairers, CallFails(r) PROVE (Solo /\ ReadsHold /\ Kept /\ Tidy)'
    <2>1. Solo'
      BY <1>a, <1>b, <1>18, FinishAlone DEF CallFails, Make, Solo
    <2>2. ReadsHold'
      BY <1>a, <1>b, <1>18, FinishAlone DEF CallFails, Make, Solo, ReadsHold
    <2>3. Kept'
      BY <1>a, <1>b, <1>18, FinishAlone DEF CallFails, Make, Solo, Kept
    <2>4. Tidy'
      BY <1>a, <1>b, <1>18, FinishAlone DEF CallFails, Make, Solo, Tidy
    <2> QED
      BY <2>1, <2>2, <2>3, <2>4
  <1>19. ASSUME NEW r \in Repairers, ToggleFails(r)
         PROVE  (Solo /\ ReadsHold /\ Kept /\ Tidy)'
    <2>1. Solo'
      BY <1>a, <1>b, <1>19, FinishAlone DEF ToggleFails, CleansUp, Make, Solo
    <2>2. ReadsHold'
      BY <1>a, <1>b, <1>19, FinishAlone DEF ToggleFails, CleansUp, Make, Solo, ReadsHold
    <2>3. Kept'
      BY <1>a, <1>b, <1>19, FinishAlone DEF ToggleFails, CleansUp, Make, Solo, Kept
    <2>4. Tidy'
      BY <1>a, <1>b, <1>19, FinishAlone DEF ToggleFails, CleansUp, Make, Solo, Tidy
    <2> QED
      BY <2>1, <2>2, <2>3, <2>4
  <1>20. ASSUME NEW r \in Repairers, Crash(r) PROVE (Solo /\ ReadsHold /\ Kept /\ Tidy)'
    <2>1. Solo'
      BY <1>a, <1>b, <1>20, FinishAlone DEF Crash, Solo
    <2>2. ReadsHold'
      BY <1>a, <1>b, <1>20, FinishAlone DEF Crash, Solo, ReadsHold
    <2>3. Kept'
      BY <1>a, <1>b, <1>20, FinishAlone DEF Crash, Solo, Kept
    <2>4. Tidy'
      BY <1>a, <1>b, <1>20, FinishAlone DEF Crash, Solo, Tidy
    <2> QED
      BY <2>1, <2>2, <2>3, <2>4
  <1>21. ASSUME PushBranch PROVE (Solo /\ ReadsHold /\ Kept /\ Tidy)'
    BY <1>a, <1>b, <1>21 DEF PushBranch, Solo, ReadsHold, Kept, Tidy
  <1>22. ASSUME UpstreamRenames PROVE (Solo /\ ReadsHold /\ Kept /\ Tidy)'
    BY <1>a, <1>b, <1>22 DEF UpstreamRenames, Solo, ReadsHold, Kept, Tidy
  <1>23. ASSUME UNCHANGED vars PROVE (Solo /\ ReadsHold /\ Kept /\ Tidy)'
    BY <1>a, <1>b, <1>23 DEF vars, Solo, ReadsHold, Kept, Tidy
  <1> QED
    BY <1>1, <1>2, <1>3, <1>4, <1>5, <1>6, <1>7, <1>8, <1>9, <1>10, <1>11, <1>12,
       <1>13, <1>14, <1>15, <1>16, <1>17, <1>18, <1>19, <1>20, <1>21, <1>22, <1>23
       DEF Next

LEMMA AloneInvariant == Spec => [](Core /\ Alone)
  <1>1. Init => Core /\ Alone
    BY InitCore, InitAlone
  <1>2. Core /\ Alone /\ [Next]_vars => (Core /\ Alone)'
    BY StepCore, StepAlone
  <1> QED
    BY <1>1, <1>2, PTL DEF Spec

(* A default branch that exists is kept as long as no two repairs overlap.  *)
THEOREM ValidDefaultKept == Spec => []DefaultKeptUnlessOverlap
  <1>1. Core /\ Alone => DefaultKeptUnlessOverlap
    BY DEF Alone, Kept, DefaultKeptUnlessOverlap
  <1> QED
    BY <1>1, AloneInvariant, PTL

(* What the command counts is settled as long as no two repairs overlap.    *)
THEOREM CountedIsSettled == Spec => []CountedMeansSettled
  <1>1. Core /\ Alone => CountedMeansSettled
    BY BranchAssumption DEF Alone, ReadsHold, CountedMeansSettled
  <1> QED
    BY <1>1, AloneInvariant, PTL

(* The disposable branch goes away with the repair that made it, unless     *)
(* repairs overlap, one is killed in the toggle or a call is lost.          *)
THEOREM TempGoesAway == Spec => []TempOnlyAfterDisturbance
  <1>1. Core /\ Alone => TempOnlyAfterDisturbance
    BY DEF Alone, Tidy, Toggling, Idle, TempOnlyAfterDisturbance
  <1> QED
    BY <1>1, AloneInvariant, PTL

=============================================================================
