--------------------------- MODULE GitLabNamespace ---------------------------
(***************************************************************************)
(* Creating a repository's GitLab project and the groups above it:         *)
(* ensure_empty_project(), ensure_group_path() and the visibility policy   *)
(* (git_cache_gateway/gitlab_api.py).  Several jobs do this at once: the   *)
(* flock of a mirror job keeps apart the jobs of one repository on one     *)
(* host, not those of two repositories of one owner, whose groups they     *)
(* share, nor two gateways in front of one GitLab.  Beside them runs the   *)
(* command enforce-visibility, which walks the whole tree of groups        *)
(* (enforce_visibility_tree()) and sets the level that is configured: its  *)
(* option --visibility, which sets another one, is left out.  Every API    *)
(* call is a step of its own; the pages of a list are one call.            *)
(*                                                                         *)
(* GitLab is modelled by what the code relies on: a path is taken once; a  *)
(* group or project is never more visible than the group it is in, nor     *)
(* less than what is in it; the instance permits some levels only.  What   *)
(* breaks a rule is answered with 400 or 403 and changes nothing.          *)
(***************************************************************************)
EXTENDS Naturals, Sequences, FiniteSets, SequencesExt

CONSTANTS
  Jobs,          \* mirror jobs
  Projects,      \* repositories' projects
  Groups,        \* the groups above them
  Path,          \* for each project the groups from the root group down
  Enforcer,      \* the command enforce-visibility
  Root,          \* [gitlab].root_group
  Desired,       \* [gitlab].visibility: 0 private, 1 internal, 2 public
  NoLevel

Levels == 0 .. 2

(* A group is named by its full path: it has the same groups above it for   *)
(* every project.                                                           *)
ASSUME NamespaceAssumption ==
  /\ IsFiniteSet(Groups) /\ IsFiniteSet(Projects) /\ Groups \cap Projects = {}
  /\ Path \in [Projects -> Seq(Groups)]
  /\ \A p \in Projects : Path[p] # << >> /\ Path[p][1] = Root
  /\ \A p, q \in Projects : \A i \in 1 .. Len(Path[p]), k \in 1 .. Len(Path[q]) :
       Path[p][i] = Path[q][k] => i = k /\ \A m \in 1 .. i : Path[p][m] = Path[q][m]
  /\ Root \in Groups
  /\ \A g \in Groups : g = Root \/ \E p \in Projects : \E i \in 1 .. Len(Path[p]) : g = Path[p][i]
  /\ Enforcer \notin Jobs
  /\ Desired \in Levels
  /\ NoLevel \notin Nat

VARIABLES
  strict,        \* [gitlab].strict_visibility
  fallback,      \* what _fallback_visibility() returns, NoLevel for None
  permitted,     \* levels the GitLab instance permits
  own,           \* the project of each job
  group,         \* level of each group, NoLevel if it does not exist
  project,       \* level of each project, NoLevel if it does not exist
  pc,            \* where each job and the enforcer is
  at,            \* how far down its path
  agenda,        \* the calls the enforcer has left to make
  skipped,       \* it has had an error answer
  known,         \* history: groups and projects that were there when it began,
                 \* and until an error answer
  lowering,      \* history: one of them was above the level it sets
  excused,       \* history: an API call of the process broke down
  refused,       \* history: GitLab's policy refused what the job asked for
  raced          \* history: the job's POST found a group that had not been there

Procs == Jobs \cup {Enforcer}

settings    == <<strict, fallback, permitted, own>>
enforcement == <<agenda, skipped, known, lowering>>
history     == <<excused, refused, raced>>
vars == <<settings, group, project, pc, at, enforcement, history>>

-----------------------------------------------------------------------------
(* GitLab. *)

Namespace(p)   == Path[p][Len(Path[p])]
Nesting        == UNION {{<<Path[p][i], Path[p][i + 1]>> : i \in 1 .. Len(Path[p]) - 1} :
                         p \in Projects}
IsParent(g, h) == <<g, h>> \in Nesting

GroupAllows(g, v) ==
  v \in permitted /\ \A h \in Groups : IsParent(h, g) => v <= group[h]

ProjectAllows(p, v) == v \in permitted /\ v <= group[Namespace(p)]

(* Nothing in a group may be more visible than the group. *)
CoversContent(g, v) ==
  /\ \A h \in Groups : IsParent(g, h) /\ group[h] # NoLevel => group[h] <= v
  /\ \A p \in Projects : Namespace(p) = g /\ project[p] # NoLevel => project[p] <= v

(* A POST or a PUT that GitLab carries out; v is the level asked for.       *)
MayMakeGroup(g, v)   == group[g] = NoLevel /\ GroupAllows(g, v)
MayPutGroup(g, v)    == GroupAllows(g, v) /\ CoversContent(g, v)
MayMakeProject(p, v) == project[p] = NoLevel /\ ProjectAllows(p, v)

GroupAt(g, v)   == group' = [group EXCEPT ![g] = v] /\ UNCHANGED project
ProjectAt(p, v) == project' = [project EXCEPT ![p] = v] /\ UNCHANGED group

IsAbove(g, h) ==
  \E p \in Projects : \E k \in 1 .. Len(Path[p]) :
    Path[p][k] = h /\ \E i \in 1 .. k - 1 : Path[p][i] = g

WellPlaced ==
  /\ \A g, h \in Groups :
       IsAbove(g, h) /\ group[h] # NoLevel => group[g] # NoLevel /\ group[h] <= group[g]
  /\ \A p \in Projects : project[p] # NoLevel =>
       \A i \in 1 .. Len(Path[p]) :
         group[Path[p][i]] # NoLevel /\ project[p] <= group[Path[p][i]]

-----------------------------------------------------------------------------
Init ==
  /\ strict \in BOOLEAN
  /\ fallback \in IF strict THEN {NoLevel} ELSE (Levels \cup {NoLevel}) \ {Desired}
  /\ permitted \in {{0}, Levels}
  /\ own \in [Jobs -> Projects]
  /\ group \in [Groups -> Levels \cup {NoLevel}]
  /\ project \in [Projects -> Levels \cup {NoLevel}]
  /\ WellPlaced
  /\ pc = [j \in Procs |-> "idle"]
  /\ at = [j \in Procs |-> 1]
  /\ agenda = << >> /\ skipped = FALSE
  /\ known = {} /\ lowering = FALSE
  /\ excused = [j \in Procs |-> FALSE]
  /\ refused = [j \in Procs |-> FALSE]
  /\ raced = [j \in Procs |-> FALSE]

Goto(j, to) == pc' = [pc EXCEPT ![j] = to]

(* The group a process has come to on its path, and its project.            *)
Own(j)  == own[j]
Way(j)  == IF j = Enforcer THEN <<Root>> ELSE Path[Own(j)]
Here(j) == Way(j)[at[j]]

OneTooFar(j) == at[j] > Len(Way(j))
AtEnd(j)     == at[j] = Len(Way(j))

(* On to the next group, or to the project below the last one, or to the    *)
(* walk.                                                                    *)
Descend(j) ==
  IF AtEnd(j) THEN Goto(j, IF j = Enforcer THEN "walk" ELSE "create") /\ at' = [at EXCEPT ![j] = 1]
  ELSE Goto(j, "group") /\ at' = [at EXCEPT ![j] = @ + 1]

-----------------------------------------------------------------------------
(* ensure_empty_project(): GET the project. *)
Start(j) ==
  /\ j \in Jobs /\ pc[j] = "idle"
  /\ Goto(j, IF project[Own(j)] = NoLevel THEN "group"
             ELSE IF project[Own(j)] = Desired THEN "done" ELSE "setproject")
  /\ UNCHANGED <<settings, enforcement, group, project, at, history>>

(* ensure_group_path(): GET the next group. *)
GetGroup(j) ==
  /\ pc[j] = "group"
  /\ IF group[Here(j)] = Desired THEN Descend(j)
     ELSE /\ Goto(j, IF group[Here(j)] = NoLevel THEN "postgroup" ELSE "setgroup")
          /\ UNCHANGED at
  /\ UNCHANGED <<settings, enforcement, group, project, history>>

(* _create_group_with_visibility_fallback(), as asked ... *)
PostGroup(j) ==
  /\ pc[j] = "postgroup"
  /\ MayMakeGroup(Here(j), Desired)
  /\ GroupAt(Here(j), Desired)
  /\ Descend(j)
  /\ UNCHANGED <<settings, enforcement, history>>

(* ... or refused, for the level or because the path is taken: try the      *)
(* fallback, if there is one. *)
PostGroupRefused(j) ==
  /\ pc[j] = "postgroup"
  /\ ~MayMakeGroup(Here(j), Desired)
  /\ Goto(j, IF fallback = NoLevel THEN "failed" ELSE "fallbackgroup")
  /\ raced' = [raced EXCEPT ![j] = @ \/ group[Here(j)] # NoLevel]
  /\ refused' = [refused EXCEPT ![j] = @ \/ group[Here(j)] = NoLevel]
  /\ UNCHANGED <<settings, enforcement, group, project, at, excused>>

PostFallbackGroup(j) ==
  /\ pc[j] = "fallbackgroup"
  /\ MayMakeGroup(Here(j), fallback)
  /\ GroupAt(Here(j), fallback)
  /\ Goto(j, "setgroup")
  /\ UNCHANGED <<settings, enforcement, at, history>>

PostFallbackGroupRefused(j) ==
  /\ pc[j] = "fallbackgroup"
  /\ ~MayMakeGroup(Here(j), fallback)
  /\ Goto(j, "failed")
  /\ raced' = [raced EXCEPT ![j] = @ \/ group[Here(j)] # NoLevel]
  /\ UNCHANGED <<settings, enforcement, group, project, at, excused, refused>>

(* ensure_group_visibility(): a refused PUT is fatal in strict mode only.   *)
SetGroup(j) ==
  /\ pc[j] = "setgroup"
  /\ MayPutGroup(Here(j), Desired)
  /\ GroupAt(Here(j), Desired)
  /\ Descend(j)
  /\ UNCHANGED <<settings, enforcement, history>>

SetGroupRefused(j) ==
  /\ pc[j] = "setgroup"
  /\ ~MayPutGroup(Here(j), Desired)
  /\ refused' = [refused EXCEPT ![j] = TRUE]
  /\ IF strict THEN Goto(j, "failed") /\ UNCHANGED at ELSE Descend(j)
  /\ UNCHANGED <<settings, enforcement, group, project, excused, raced>>

(* _create_project(): as asked, refused, with the fallback, refused again.  *)
PostProject(j) ==
  /\ pc[j] = "create"
  /\ MayMakeProject(Own(j), Desired)
  /\ ProjectAt(Own(j), Desired)
  /\ Goto(j, "done")
  /\ UNCHANGED <<settings, enforcement, at, history>>

PostProjectRefused(j) ==
  /\ pc[j] = "create"
  /\ ~MayMakeProject(Own(j), Desired)
  /\ Goto(j, IF fallback = NoLevel THEN "recheck" ELSE "fallbackproject")
  /\ refused' = [refused EXCEPT ![j] = @ \/ project[Own(j)] = NoLevel]
  /\ UNCHANGED <<settings, enforcement, group, project, at, excused, raced>>

KeepsFallback(j) == "done"
AfterFallback(j) == "setproject"

PostFallbackProject(j) ==
  /\ pc[j] = "fallbackproject"
  /\ MayMakeProject(Own(j), fallback)
  /\ ProjectAt(Own(j), fallback)
  /\ Goto(j, AfterFallback(j))
  /\ UNCHANGED <<settings, enforcement, at, history>>

PostFallbackProjectRefused(j) ==
  /\ pc[j] = "fallbackproject"
  /\ ~MayMakeProject(Own(j), fallback)
  /\ Goto(j, "recheck")
  /\ UNCHANGED <<settings, enforcement, group, project, at, history>>

(* After an error of the POST: has somebody else created the project?       *)
GivesUp(j)   == "failed"
IfCreated(j) == IF project[Own(j)] = NoLevel THEN "failed"
                ELSE IF project[Own(j)] = Desired THEN "done" ELSE "setproject"

Recheck(j) ==
  /\ pc[j] = "recheck"
  /\ Goto(j, IfCreated(j))
  /\ UNCHANGED <<settings, enforcement, group, project, at, history>>

(* ensure_project_visibility(). *)
SetProject(j) ==
  /\ pc[j] = "setproject"
  /\ ProjectAllows(Own(j), Desired)
  /\ ProjectAt(Own(j), Desired)
  /\ Goto(j, "done")
  /\ UNCHANGED <<settings, enforcement, at, history>>

NeverFails(j) == "done"
IfRefused(j)  == IF strict THEN "failed" ELSE "done"

SetProjectRefused(j) ==
  /\ pc[j] = "setproject"
  /\ ~ProjectAllows(Own(j), Desired)
  /\ Goto(j, IfRefused(j))
  /\ refused' = [refused EXCEPT ![j] = TRUE]
  /\ UNCHANGED <<settings, enforcement, group, project, at, excused, raced>>

-----------------------------------------------------------------------------
(* enforce_visibility_tree(). *)

(* walk(): a group seen at another level is set first; then its projects    *)
(* are listed and set, then its subgroups listed and walked.                *)
SetsProjectsOnly(g) == <<"projects", g>>
Walk(g) == IF group[g] = Desired THEN <<"projects", g>> ELSE <<"setgroup", g>>

(* GET the root group, create it if it is not there, walk down from it.     *)
EnforceStart ==
  /\ pc[Enforcer] = "idle"
  /\ IF group[Root] = NoLevel
     THEN Goto(Enforcer, "group") /\ agenda' = <<<<"walk", Root>>>>
     ELSE Goto(Enforcer, "walk") /\ agenda' = <<Walk(Root)>>
  /\ known' = {g \in Groups : group[g] # NoLevel} \cup {p \in Projects : project[p] # NoLevel}
  /\ lowering' = \/ \E g \in Groups : group[g] # NoLevel /\ group[g] > Desired
                 \/ \E p \in Projects : project[p] # NoLevel /\ project[p] > Desired
  /\ UNCHANGED <<settings, group, project, at, skipped, history>>

Task  == agenda[1]
Doing(what) == pc[Enforcer] = "walk" /\ agenda # << >> /\ Task[1] = what

(* The answers of lists hold the levels of that moment, in any order.       *)
Differing(g) == {p \in Projects : Namespace(p) = g /\ project[p] \notin {NoLevel, Desired}}

TrustsGroups(g) == {h \in Groups : IsParent(g, h) /\ group[h] \notin {NoLevel, Desired}}
Subgroups(g)    == {h \in Groups : IsParent(g, h) /\ group[h] # NoLevel}

List ==
  /\ \/ Doing("walk") /\ agenda' = <<Walk(Root)>>
     \/ /\ Doing("projects")
        /\ \E s \in SetToSeqs(Differing(Task[2])) :
             agenda' = [i \in DOMAIN s |-> <<"setproject", s[i]>>]
                       \o <<<<"subgroups", Task[2]>>>> \o Tail(agenda)
     \/ /\ Doing("subgroups")
        /\ \E s \in SetToSeqs(Subgroups(Task[2])) :
             agenda' = [i \in DOMAIN s |-> Walk(s[i])] \o Tail(agenda)
  /\ UNCHANGED <<settings, group, project, pc, at, skipped, known, lowering, history>>

MaySet ==
  IF Task[1] = "setgroup" THEN MayPutGroup(Task[2], Desired) ELSE ProjectAllows(Task[2], Desired)
Set ==
  IF Task[1] = "setgroup" THEN GroupAt(Task[2], Desired) ELSE ProjectAt(Task[2], Desired)

(* What is left after the call, carried out or not.                         *)
Onward ==
  (IF Task[1] = "setgroup" THEN <<<<"projects", Task[2]>>>> ELSE << >>) \o Tail(agenda)

EnforceSet ==
  /\ Doing("setgroup") \/ Doing("setproject")
  /\ MaySet
  /\ Set
  /\ agenda' = Onward
  /\ UNCHANGED <<settings, pc, at, skipped, known, lowering, history>>

(* An error answer is counted, or ends a walk that is --strict: which of    *)
(* the two the walk is shows with its first error.                          *)
Raise == Goto(Enforcer, "failed") /\ agenda' = << >>

CountOrRaise ==
  /\ skipped' = TRUE
  /\ known' = {} /\ lowering' = FALSE
  /\ \/ ~skipped /\ Raise
     \/ agenda' = Onward /\ UNCHANGED pc

EnforceRefused ==
  /\ Doing("setgroup") \/ Doing("setproject")
  /\ ~MaySet
  /\ CountOrRaise
  /\ refused' = [refused EXCEPT ![Enforcer] = TRUE]
  /\ UNCHANGED <<settings, group, project, at, excused, raced>>

EnforceBreakdown ==
  /\ pc[Enforcer] = "walk" /\ agenda # << >> /\ Task[1] # "walk"
  /\ excused' = [excused EXCEPT ![Enforcer] = TRUE]
  /\ \/ Task[1] \in {"setgroup", "setproject"} /\ MaySet /\ Set
     \/ UNCHANGED <<group, project>>
  /\ \/ Raise /\ UNCHANGED <<skipped, known, lowering>>
     \/ Task[1] \in {"setgroup", "setproject"} /\ CountOrRaise
  /\ UNCHANGED <<settings, at, refused, raced>>

EnforceEnd ==
  /\ pc[Enforcer] = "walk" /\ agenda = << >>
  /\ Goto(Enforcer, "done")
  /\ UNCHANGED <<settings, group, project, at, enforcement, history>>

-----------------------------------------------------------------------------
(* What the call a job is waiting for changes if GitLab carries it out.     *)
CarriedOut(j) ==
  \/ /\ pc[j] = "postgroup" /\ MayMakeGroup(Here(j), Desired)
     /\ GroupAt(Here(j), Desired)
  \/ /\ pc[j] = "fallbackgroup" /\ MayMakeGroup(Here(j), fallback)
     /\ GroupAt(Here(j), fallback)
  \/ /\ pc[j] = "setgroup" /\ MayPutGroup(Here(j), Desired)
     /\ GroupAt(Here(j), Desired)
  \/ /\ pc[j] = "create" /\ MayMakeProject(Own(j), Desired)
     /\ ProjectAt(Own(j), Desired)
  \/ /\ pc[j] = "fallbackproject" /\ MayMakeProject(Own(j), fallback)
     /\ ProjectAt(Own(j), fallback)
  \/ /\ pc[j] = "setproject" /\ ProjectAllows(Own(j), Desired)
     /\ ProjectAt(Own(j), Desired)

(* A call breaks down, carried out or not: the connection is lost, or the   *)
(* server answers with an error of its own.  The former fails the job; the  *)
(* latter is handled like a refusal where the level of a group or project   *)
(* is set outside strict mode, and after the POST of a project.             *)
Breakdown(j) ==
  /\ pc[j] \notin {"idle", "walk", "done", "failed"}
  /\ excused' = [excused EXCEPT ![j] = TRUE]
  /\ CarriedOut(j) \/ UNCHANGED <<group, project>>
  /\ \/ Goto(j, "failed") /\ UNCHANGED at
     \/ pc[j] \in {"create", "fallbackproject"} /\ Goto(j, "recheck") /\ UNCHANGED at
     \/ pc[j] = "setgroup" /\ ~strict /\ Descend(j)
     \/ pc[j] = "setproject" /\ ~strict /\ Goto(j, "done") /\ UNCHANGED at
  /\ UNCHANGED <<settings, enforcement, refused, raced>>

Return(j) ==
  /\ pc[j] \in {"done", "failed"}
  /\ Goto(j, "idle")
  /\ at' = [at EXCEPT ![j] = 1]
  /\ excused' = [excused EXCEPT ![j] = FALSE]
  /\ refused' = [refused EXCEPT ![j] = FALSE]
  /\ raced' = [raced EXCEPT ![j] = FALSE]
  /\ IF j = Enforcer
     THEN /\ agenda' = << >> /\ skipped' = FALSE
          /\ known' = {} /\ lowering' = FALSE
     ELSE UNCHANGED enforcement
  /\ UNCHANGED <<settings, group, project>>

(* The operator repairs the policy of the instance. *)
PolicyRelaxed ==
  /\ permitted # Levels
  /\ permitted' = Levels
  /\ UNCHANGED <<strict, fallback, own, group, project, pc, at, enforcement, history>>

Next ==
  \/ \E j \in Jobs : Start(j)
  \/ \E j \in Procs : GetGroup(j)
  \/ \E j \in Procs : PostGroup(j)
  \/ \E j \in Procs : PostGroupRefused(j)
  \/ \E j \in Procs : PostFallbackGroup(j)
  \/ \E j \in Procs : PostFallbackGroupRefused(j)
  \/ \E j \in Procs : SetGroup(j)
  \/ \E j \in Procs : SetGroupRefused(j)
  \/ \E j \in Jobs : PostProject(j)
  \/ \E j \in Jobs : PostProjectRefused(j)
  \/ \E j \in Jobs : PostFallbackProject(j)
  \/ \E j \in Jobs : PostFallbackProjectRefused(j)
  \/ \E j \in Jobs : Recheck(j)
  \/ \E j \in Jobs : SetProject(j)
  \/ \E j \in Jobs : SetProjectRefused(j)
  \/ \E j \in Procs : Breakdown(j)
  \/ \E j \in Procs : Return(j)
  \/ EnforceStart
  \/ List
  \/ EnforceSet
  \/ EnforceRefused
  \/ EnforceBreakdown
  \/ EnforceEnd
  \/ PolicyRelaxed

Spec == Init /\ [][Next]_vars

-----------------------------------------------------------------------------
(* Properties. *)

(* The values the namespaces and the jobs can hold; whatever the jobs do,   *)
(* nothing on GitLab is more visible than the group it is in.               *)
TypeOK ==
  /\ strict \in BOOLEAN
  /\ fallback \in Levels \cup {NoLevel}
  /\ permitted \subseteq Levels
  /\ group \in [Groups -> Levels \cup {NoLevel}]
  /\ project \in [Projects -> Levels \cup {NoLevel}]
  /\ WellPlaced
  /\ pc \in [Procs -> {"idle", "group", "postgroup", "fallbackgroup", "setgroup", "create",
                       "fallbackproject", "recheck", "setproject", "walk", "done", "failed"}]
  /\ \A j \in Procs : at[j] \in 1 .. Len(Way(j))
  /\ excused \in [Procs -> BOOLEAN] /\ refused \in [Procs -> BOOLEAN]
  /\ raced \in [Procs -> BOOLEAN]
  /\ own \in [Jobs -> Projects] /\ skipped \in BOOLEAN
  /\ known \subseteq Groups \cup Projects /\ lowering \in BOOLEAN
  /\ agenda \in Seq({"walk", "projects", "subgroups", "setgroup", "setproject"}
                      \X (Groups \cup Projects))

(* A job fails only if a call broke down, GitLab's policy refused what it   *)
(* asked for, or it lost the race for a group; losing the race for the      *)
(* project never fails it (the re-check of ensure_empty_project()).         *)
FailsOnlyWithReason ==
  \A j \in Procs : pc[j] = "failed" => excused[j] \/ refused[j] \/ raced[j]

(* In strict mode a job that succeeds has left its project at the level     *)
(* that is configured, whoever created it and at whatever level.            *)
StrictMeansDesired ==
  \A j \in Jobs : strict /\ pc[j] = "done" => project[Own(j)] = Desired

(* A job whose calls are answered leaves its project at another level only  *)
(* if GitLab would refuse the configured one right then.                    *)
FallbackOnlyWhereRefused ==
  [][\A j \in Jobs :
       /\ pc[j] # "done" /\ pc'[j] = "done" /\ ~excused'[j]
       /\ project'[Own(j)] # Desired
       => ~ProjectAllows(Own(j), Desired)]_vars

(* A walk that ends without a failure counted has brought everything that   *)
(* was there when it began to the configured level, whatever the jobs       *)
(* created, moved or lost meanwhile, and a group that had the level already *)
(* hides nothing below it (enforce_visibility_tree()).                      *)
EnforcedMeansDesired ==
  pc[Enforcer] = "done" /\ ~skipped =>
    /\ \A g \in known \cap Groups : group[g] = Desired
    /\ \A p \in known \cap Projects : project[p] = Desired

(* The walk goes from the top down, and so it can always raise levels that  *)
(* the instance permits: nothing is skipped unless a call broke down, the   *)
(* instance did not permit the level, or there was something to lower.      *)
(* Lowering fails from the top down, for a group that holds more visible    *)
(* content is refused before its content is looked at.                      *)
RaisingIsNeverSkipped ==
  [][~skipped /\ skipped' =>
       excused'[Enforcer] \/ Desired \notin permitted \/ lowering]_vars

(* ensure_group_path()'s docstring: "Ensure nested groups exist and return  *)
(* the deepest group."  A job whose calls are answered and whom no policy   *)
(* refuses does not fail.                                                   *)
GroupsEnsured ==
  \A j \in Procs : pc[j] = "failed" => excused[j] \/ refused[j]

=============================================================================
