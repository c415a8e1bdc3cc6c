---------------------------- MODULE DefaultBranch ----------------------------
(***************************************************************************)
(* Repairing the default branch of one GitLab mirror project:              *)
(* repair_gitlab_default_branch() and what it calls, by itself or for the  *)
(* command that repairs every project and counts the outcomes,             *)
(* repair_default_branches() (git_cache_gateway/mirror.py).  It runs in    *)
(* every request that finds the mirror ready, at the end of every mirror   *)
(* job and in the repair-default-branches command, in several threads and  *)
(* processes at once and without a lock between them.  What they share is  *)
(* the project: its branches, its default branch, and the HEAD its Git     *)
(* server advertises.  Each call to GitLab is a step of its own.           *)
(*                                                                         *)
(* GitLab is modelled by what the code relies on: making the default       *)
(* branch again what it is may leave the advertised HEAD as it was, making *)
(* it another one moves HEAD with it; a branch that does not exist cannot  *)
(* become the default, the default branch cannot be deleted.  A call that  *)
(* raises may have had its effect (the answer is lost, or late).  A        *)
(* project is found with a HEAD that is missing or another branch than its *)
(* default.                                                                *)
(***************************************************************************)
EXTENDS Naturals, FiniteSets

CONSTANTS
  Repairers,     \* requests, jobs and commands that may repair
  Commands,      \* the commands among them
  Branches,      \* branch names of the repository
  Temp,          \* "__git_cache_gateway_head_repair__"
  Rank,          \* order of preference: main, master, then as ls-remote lists
  NoBranch

ASSUME BranchAssumption ==
  /\ Commands \subseteq Repairers
  /\ Temp \notin Branches
  /\ NoBranch \notin Branches \cup {Temp}
  /\ Rank \in [Branches \cup {Temp} -> Nat]
  /\ \A b, c \in Branches \cup {Temp} : Rank[b] = Rank[c] => b = c

Names == Branches \cup {Temp}

VARIABLES
  heads,         \* branches of the GitLab project
  default,       \* its default_branch
  advertised,    \* the HEAD its Git server advertises
  upHead,        \* the default branch of the upstream repository
  localHead,     \* HEAD of the local mirror, as it was cloned
  pc,            \* where each repairer is
  seen,          \* project.default_branch as each repairer read it
  listed,        \* heads as each repairer read them
  desired,       \* the branch it decided on
  created,       \* created_temp: this repairer made the disposable branch
  before,        \* the HEAD a command saw first, and
  plan,          \* the branch it decided on, before the repair
  original,      \* history: the default branch at the start, if it existed
  overlapped,    \* history: two repairs ran at once
  disturbed      \* history: a repair was killed inside the toggle, or lost a call
                 \* that would have taken the disposable branch back

gitlabVars   == <<heads, default, advertised>>
counting     == <<before, plan>>
repairerVars == <<pc, seen, listed, desired, created, before, plan>>
historyVars  == <<original, overlapped, disturbed>>
vars == <<gitlabVars, upHead, localHead, repairerVars, historyVars>>

Init ==
  /\ heads \in SUBSET Branches
  /\ default \in Branches \cup {NoBranch}
  /\ advertised \in heads \cup {NoBranch}
  /\ upHead \in Branches
  /\ localHead \in Branches \cup {NoBranch}
  /\ pc = [r \in Repairers |-> "idle"]
  /\ seen = [r \in Repairers |-> NoBranch]
  /\ listed = [r \in Repairers |-> {}]
  /\ desired = [r \in Repairers |-> NoBranch]
  /\ created = [r \in Repairers |-> FALSE]
  /\ before = [r \in Repairers |-> NoBranch]
  /\ plan = [r \in Repairers |-> NoBranch]
  /\ original = IF default \in heads THEN default ELSE NoBranch
  /\ overlapped = FALSE
  /\ disturbed = FALSE

Idle == {r \in Repairers : pc[r] = "idle"}

Goto(r, to) == pc' = [pc EXCEPT ![r] = to]

(* The call returns or raises; the repairer forgets what it has read.       *)
Finish(r) ==
  /\ Goto(r, "idle")
  /\ seen' = [seen EXCEPT ![r] = NoBranch]
  /\ listed' = [listed EXCEPT ![r] = {}]
  /\ desired' = [desired EXCEPT ![r] = NoBranch]
  /\ created' = [created EXCEPT ![r] = FALSE]
  /\ before' = [before EXCEPT ![r] = NoBranch]
  /\ plan' = [plan EXCEPT ![r] = NoBranch]

-----------------------------------------------------------------------------
(* get_project(): the default branch, as it is now. *)
ReadProject(r) ==
  /\ pc[r] = "idle"
  /\ Goto(r, IF r \in Commands THEN "before" ELSE "heads")
  /\ seen' = [seen EXCEPT ![r] = default]
  /\ overlapped' = (overlapped \/ Idle # Repairers)
  /\ UNCHANGED <<gitlabVars, upHead, localHead, listed, desired, created, counting,
                 original, disturbed>>

(* _choose_gitlab_default_branch(): keep the default branch if it exists,   *)
(* else the upstream's, else the local mirror's, else the best name.        *)
(* asked is what the upstream answers, NoBranch if it cannot be reached or  *)
(* is not asked.                                                            *)
Preferred(h) == CHOOSE b \in h : \A c \in h : Rank[b] <= Rank[c]

UpstreamFirst(old, asked, h) ==
  IF asked \in h THEN asked ELSE IF old \in h THEN old ELSE Preferred(h)

UpstreamUnchecked(old, asked, h) == IF old \in h THEN old ELSE asked

Choice(old, asked, h) ==
  IF old \in h THEN old
  ELSE IF asked \in h THEN asked
  ELSE IF localHead \in h THEN localHead
  ELSE Preferred(h)

(* repair_default_branches() looks before it repairs: at the advertised     *)
(* HEAD, then at the heads.  The repair that follows decides anew, with the *)
(* project as it was read.                                                  *)
ReadBefore(r) ==
  /\ pc[r] = "before"
  /\ before' = [before EXCEPT ![r] = advertised]
  /\ Goto(r, "plan")
  /\ UNCHANGED <<gitlabVars, upHead, localHead, seen, listed, desired, created, plan,
                 historyVars>>

HeadIsEnough(r, b) == before[r] = b
AlreadyOk(r, b)    == seen[r] = b /\ before[r] = b

Plan(r) ==
  /\ pc[r] = "plan"
  /\ heads # {}
  /\ \E asked \in {upHead, NoBranch} :
       LET b == Choice(seen[r], asked, heads)
       IN /\ plan' = [plan EXCEPT ![r] = b]
          /\ Goto(r, IF AlreadyOk(r, b) THEN "counted" ELSE "heads")
  /\ UNCHANGED <<gitlabVars, upHead, localHead, seen, listed, desired, created, before,
                 historyVars>>

ReadHeads(r) ==
  /\ pc[r] = "heads"
  /\ heads # {}
  /\ listed' = [listed EXCEPT ![r] = heads]
  /\ \E asked \in {upHead, NoBranch} :
       desired' = [desired EXCEPT ![r] = Choice(seen[r], asked, heads)]
  /\ Goto(r, "advertised")
  /\ UNCHANGED <<gitlabVars, upHead, localHead, seen, created, counting, historyVars>>

(* Nothing to point HEAD at: the repair is skipped. *)
NoHeads(r) ==
  /\ pc[r] \in {"plan", "heads"}
  /\ heads = {}
  /\ Finish(r)
  /\ UNCHANGED <<gitlabVars, upHead, localHead, historyVars>>

DefaultOnly(r) == seen[r] = desired[r]
AlreadyGood(r) == seen[r] = desired[r] /\ advertised = desired[r]

ReadAdvertised(r) ==
  /\ pc[r] = "advertised"
  /\ Goto(r, IF AlreadyGood(r) THEN "repaired" ELSE "set")
  /\ UNCHANGED <<gitlabVars, upHead, localHead, seen, listed, desired, created,
                 counting, historyVars>>

(* The PUT of a default branch, as GitLab carries it out. *)
Make(b) ==
  /\ b \in heads
  /\ default' = b
  /\ advertised' \in IF b = default THEN {advertised, b} ELSE {b}
  /\ UNCHANGED heads

SetDefault(r) ==
  /\ pc[r] = "set"
  /\ Make(desired[r])
  /\ Goto(r, "verify")
  /\ UNCHANGED <<upHead, localHead, seen, listed, desired, created, counting, historyVars>>

(* Read HEAD back; if it is still another one, toggle.                      *)
Verify(r) ==
  /\ pc[r] = "verify"
  /\ Goto(r, CASE advertised = desired[r]  -> "repaired"
               [] advertised # desired[r] /\ Temp \in listed[r] -> "toggle"
               [] OTHER                    -> "create")
  /\ UNCHANGED <<gitlabVars, upHead, localHead, seen, listed, desired, created,
                 counting, historyVars>>

(* _force_default_branch_refresh(): make the disposable branch, unless it   *)
(* was listed; another repairer may have made it since.                     *)
CreateTemp(r) ==
  /\ pc[r] = "create"
  /\ heads' = heads \cup {Temp}
  /\ created' = [created EXCEPT ![r] = Temp \notin heads]
  /\ Goto(r, "toggle")
  /\ UNCHANGED <<default, advertised, upHead, localHead, seen, listed, desired,
                 counting, historyVars>>

ToggleAway(r) ==
  /\ pc[r] = "toggle"
  /\ Make(Temp)
  /\ Goto(r, "back")
  /\ UNCHANGED <<upHead, localHead, seen, listed, desired, created, counting, historyVars>>

ToggleBack(r) ==
  /\ pc[r] = "back"
  /\ Make(desired[r])
  /\ Goto(r, IF created[r] THEN "delete" ELSE "reverify")
  /\ UNCHANGED <<upHead, localHead, seen, listed, desired, created, counting, historyVars>>

(* The finally clause.  After a failure the exception goes on from there.   *)
CanDelete == IF default = Temp THEN heads ELSE heads \ {Temp}

DeleteTemp(r) ==
  /\ pc[r] = "delete"
  /\ heads' = CanDelete
  /\ Goto(r, "reverify")
  /\ UNCHANGED <<default, advertised, upHead, localHead, seen, listed, desired,
                 created, counting, historyVars>>

DeleteAndRaise(r) ==
  /\ pc[r] = "raise"
  /\ heads' = CanDelete
  /\ Finish(r)
  /\ UNCHANGED <<default, advertised, upHead, localHead, historyVars>>

(* An error of the delete is logged and otherwise ignored.                  *)
DeleteFails(r) ==
  /\ pc[r] \in {"delete", "raise"}
  /\ disturbed' = TRUE
  /\ IF pc[r] = "raise" THEN Finish(r)
     ELSE Goto(r, "reverify") /\ UNCHANGED <<seen, listed, desired, created, counting>>
  /\ UNCHANGED <<gitlabVars, upHead, localHead, original, overlapped>>

Reverify(r) ==
  /\ pc[r] = "reverify"
  /\ Goto(r, IF advertised = desired[r] THEN "repaired" ELSE "unrepaired")
  /\ UNCHANGED <<gitlabVars, upHead, localHead, seen, listed, desired, created,
                 counting, historyVars>>

(* The command counts a repair that worked if HEAD is what it had decided   *)
(* on itself.                                                               *)
ReadAfter(r) ==
  /\ r \in Commands /\ pc[r] = "repaired"
  /\ Goto(r, IF advertised = plan[r] THEN "counted" ELSE "unrepaired")
  /\ UNCHANGED <<gitlabVars, upHead, localHead, seen, listed, desired, created,
                 counting, historyVars>>

Return(r) ==
  /\ pc[r] \in {"counted", "unrepaired"} \/ (pc[r] = "repaired" /\ r \notin Commands)
  /\ Finish(r)
  /\ UNCHANGED <<gitlabVars, upHead, localHead, historyVars>>

(* A call raises.  One of the three PUTs or the POST may have been carried  *)
(* out all the same.  The exception leaves the toggle through its finally   *)
(* clause, and is logged by the caller.                                     *)
NoCleanup(r)  == FALSE
CleansUp(r)   == created[r]

CallFails(r) ==
  /\ \/ pc[r] \in {"before", "plan", "heads", "advertised", "set", "verify", "create",
                 "reverify"}
     \/ pc[r] = "repaired" /\ r \in Commands
  /\ \/ UNCHANGED <<gitlabVars, disturbed>>
     \/ pc[r] = "set" /\ Make(desired[r]) /\ UNCHANGED disturbed
     \/ /\ pc[r] = "create"
        /\ heads' = heads \cup {Temp}
        /\ disturbed' = TRUE
        /\ UNCHANGED <<default, advertised>>
  /\ Finish(r)
  /\ UNCHANGED <<upHead, localHead, original, overlapped>>

ToggleFails(r) ==
  /\ pc[r] \in {"toggle", "back"}
  /\ \/ UNCHANGED gitlabVars /\ disturbed' = (disturbed \/ pc[r] = "back")
     \/ pc[r] = "toggle" /\ Make(Temp) /\ disturbed' = TRUE
     \/ pc[r] = "back" /\ Make(desired[r]) /\ UNCHANGED disturbed
  /\ IF CleansUp(r)
       THEN Goto(r, "raise") /\ UNCHANGED <<seen, listed, desired, created, counting>>
       ELSE Finish(r)
  /\ UNCHANGED <<upHead, localHead, original, overlapped>>

(* The process is killed.                                                   *)
Crash(r) ==
  /\ pc[r] # "idle"
  /\ disturbed' = (disturbed \/ pc[r] \in {"toggle", "back", "delete", "raise"})
  /\ Finish(r)
  /\ UNCHANGED <<gitlabVars, upHead, localHead, original, overlapped>>

-----------------------------------------------------------------------------
(* A mirror job pushes a branch; heads are never deleted by a push.         *)
PushBranch ==
  /\ \E b \in Branches \ heads : heads' = heads \cup {b}
  /\ UNCHANGED <<default, advertised, upHead, localHead, repairerVars, historyVars>>

UpstreamRenames ==
  /\ \E b \in Branches \ {upHead} : upHead' = b
  /\ UNCHANGED <<gitlabVars, localHead, repairerVars, historyVars>>

Next ==
  \/ \E r \in Repairers : ReadProject(r)
  \/ \E r \in Repairers : ReadBefore(r)
  \/ \E r \in Repairers : Plan(r)
  \/ \E r \in Repairers : ReadHeads(r)
  \/ \E r \in Repairers : NoHeads(r)
  \/ \E r \in Repairers : ReadAdvertised(r)
  \/ \E r \in Repairers : SetDefault(r)
  \/ \E r \in Repairers : Verify(r)
  \/ \E r \in Repairers : CreateTemp(r)
  \/ \E r \in Repairers : ToggleAway(r)
  \/ \E r \in Repairers : ToggleBack(r)
  \/ \E r \in Repairers : DeleteTemp(r)
  \/ \E r \in Repairers : DeleteAndRaise(r)
  \/ \E r \in Repairers : DeleteFails(r)
  \/ \E r \in Repairers : Reverify(r)
  \/ \E r \in Repairers : ReadAfter(r)
  \/ \E r \in Repairers : Return(r)
  \/ \E r \in Repairers : CallFails(r)
  \/ \E r \in Repairers : ToggleFails(r)
  \/ \E r \in Repairers : Crash(r)
  \/ PushBranch
  \/ UpstreamRenames

Spec == Init /\ [][Next]_vars

-----------------------------------------------------------------------------
(* Properties. *)

(* The values the project and the repairers can hold; a repairer that has   *)
(* decided has picked one of the heads it listed.                           *)
TypeOK ==
  /\ heads \subseteq Names
  /\ default \in Names \cup {NoBranch}
  /\ advertised \in Names \cup {NoBranch}
  /\ upHead \in Branches
  /\ localHead \in Branches \cup {NoBranch}
  /\ pc \in [Repairers -> {"idle", "heads", "advertised", "set", "verify", "create",
                           "toggle", "back", "delete", "raise", "reverify",
                           "repaired", "unrepaired", "before", "plan", "counted"}]
  /\ seen \in [Repairers -> Names \cup {NoBranch}]
  /\ listed \in [Repairers -> SUBSET Names]
  /\ desired \in [Repairers -> Names \cup {NoBranch}]
  /\ \A r \in Repairers :
       pc[r] \notin {"idle", "before", "plan", "heads", "counted"} => desired[r] \in listed[r]
  /\ before \in [Repairers -> Names \cup {NoBranch}]
  /\ plan \in [Repairers -> Names \cup {NoBranch}]
  /\ created \in [Repairers -> BOOLEAN]
  /\ original \in Branches \cup {NoBranch}
  /\ overlapped \in BOOLEAN
  /\ disturbed \in BOOLEAN

(* A default branch that exists is never replaced by another branch of the  *)
(* repository, whatever the upstream does and whichever calls fail, as long *)
(* as no two repairs of the project overlap.                                *)
DefaultKeptUnlessOverlap ==
  original # NoBranch /\ ~overlapped => default \in {original, Temp}

(* A repair reports success only when the HEAD that GitLab advertises is a  *)
(* branch that exists, so that a clone checks something out; this holds     *)
(* however repairs overlap, and for what the command counts as repaired or  *)
(* as good already.                                                         *)
RepairedMeansCloneable ==
  [][\A r \in Repairers :
       pc[r] # pc'[r] /\ pc'[r] \in {"repaired", "counted"} => advertised \in heads]_vars

(* What the command counts as repaired or as good already is a project      *)
(* whose default branch exists and is the HEAD it advertises, although the  *)
(* three were read one after the other, unless another repair was at it.    *)
CountedMeansSettled ==
  \A r \in Commands : pc[r] = "counted" /\ ~overlapped =>
    default = advertised /\ default \in heads

(* The disposable branch outlives its repair only where two repairs ran at  *)
(* once, one was killed in the toggle, or GitLab failed a call that was to  *)
(* take it back; a failure to switch to it does not leave it behind.        *)
TempOnlyAfterDisturbance ==
  Idle = Repairers /\ ~overlapped /\ ~disturbed => default # Temp /\ Temp \notin heads

(* _force_default_branch_refresh()'s docstring: "temporarily toggle through *)
(* a disposable branch".  Where nobody was killed and no call was lost, no  *)
(* project is left with the disposable branch as its default.               *)
ToggleIsTemporary == Idle = Repairers /\ ~disturbed => default # Temp

=============================================================================
