--------------------------- MODULE MirrorPipeline ---------------------------
(***************************************************************************)
(* One repository on its way from the upstream provider through the local  *)
(* bare mirror into its GitLab project: MirrorManager.mirror_once() and    *)
(* what it calls (git_cache_gateway/mirror.py), run by several processes   *)
(* at once.  A process is anything that mirrors this repository: a pool    *)
(* worker, a handler thread in wait_for_mirror mode, or the `ensure`       *)
(* command in a process of its own.  They share the directories under      *)
(* workdir and are kept apart by a flock.  A process may be killed at any  *)
(* point; the operating system then drops its lock, the files stay.        *)
(*                                                                         *)
(* Readers are requests passing gitlab_mirror_ready() and is_stale(),      *)
(* which take no lock.                                                     *)
(*                                                                         *)
(* git and GitLab are modelled by what the code relies on: clone --mirror  *)
(* refuses an existing directory; a fetch or a push that fails may have    *)
(* moved some refs; a push of a ref reads the local mirror when it runs;   *)
(* a project created with initialize_with_readme has one commit, on its    *)
(* default branch.  Repairing the default branch is the subject of         *)
(* DefaultBranch, creating the groups that of GitLabNamespace.             *)
(***************************************************************************)
EXTENDS Naturals, FiniteSets

CONSTANTS
  Procs,         \* processes that may run mirror_once()
  Readers,       \* requests in flight
  Refs,          \* heads and tags in the order of for-each-ref: a set of numbers
  SafeRefs,      \* those _safe_push_refspecs() does not skip
  Head,          \* the default branch
  BatchSize,     \* refs per push, 200 in _batches()
  Attempts,      \* [git].operation_retries, at least 1
  MaxChange,     \* bounds the changes upstream
  Readme,        \* the commit GitLab makes when it initializes a project
  Nobody

ASSUME PipelineAssumption ==
  /\ Refs \subseteq Nat /\ IsFiniteSet(Refs)
  /\ SafeRefs \subseteq Refs /\ Head \in SafeRefs
  /\ BatchSize \in Nat \ {0} /\ Attempts \in Nat \ {0}
  /\ MaxChange \in Nat \ {0}
  /\ Readme \notin Nat
  /\ Nobody \notin Procs

VARIABLES
  now,           \* number of changes upstream so far
  up,            \* upstream: the change that last set each ref, 0 if it is absent
  localDir,      \* the mirror directory: absent, not a repository, one that
                 \* does not know what to fetch yet, or a mirror
  localRefs,     \* the refs in it
  project,       \* the GitLab project exists
  gl,            \* its refs
  fresh,         \* the stamp exists and is younger than the refresh interval
  holder,        \* who holds the repository's flock
  pc,            \* where each process is in mirror_once()
  attempt,       \* attempt number of the git command a process is running
  todo,          \* refs a process still has to push
  rpc,           \* where each reader is in gitlab_mirror_ready()
  startedAt,     \* history: `now` when a process entered mirror_once()
  localAsOf,     \* history: `now` at the last complete fetch
  past,          \* history: the values each ref has had upstream
  faults,        \* history: failures met by the git command being retried
  excused        \* history: an external failure justifies that a job fails

localVars  == <<localDir, localRefs, localAsOf>>
gitlabVars == <<project, gl>>
jobVars    == <<pc, attempt, todo, startedAt, faults, excused>>
upVars     == <<up, past>>
vars == <<now, upVars, localVars, gitlabVars, fresh, holder, jobVars, rpc>>

-----------------------------------------------------------------------------
(* Data. *)

Absent       == [r \in Refs |-> 0]
HasRefs(m)   == \E r \in Refs : m[r] # 0
Versions     == 0 .. MaxChange

(* _local_mirror_has_refs(). *)
LocalHasRefs == localDir \in {"bare", "repo"} /\ HasRefs(localRefs)

(* _safe_push_refspecs(). *)
MirrorPush   == SafeRefs
Refspecs     == {r \in SafeRefs : localRefs[r] # 0}

(* _batches(): the refspecs of the next push, and what is left after it. *)
NextBatch(s) == {r \in s : Cardinality({q \in s : q < r}) < BatchSize}
Rest(s)      == s \ NextBatch(s)

Synced == \A r \in Refspecs : gl[r] = localRefs[r]

InLock == {"local", "clone", "cleanup", "update", "check", "project", "list",
           "push", "finish", "stamp", "stamped", "failed"}

-----------------------------------------------------------------------------
Init ==
  /\ now = 1
  /\ up \in [Refs -> {0, 1}]
  /\ past = [r \in Refs |-> {up[r]}]
  /\ localDir = "none" /\ localRefs = Absent /\ localAsOf = 0
  /\ project = FALSE /\ gl = Absent
  /\ fresh = FALSE
  /\ holder = Nobody
  /\ pc = [p \in Procs |-> "idle"]
  /\ attempt = [p \in Procs |-> 1]
  /\ todo = [p \in Procs |-> {}]
  /\ startedAt = [p \in Procs |-> 0]
  /\ faults = [p \in Procs |-> 0]
  /\ excused = [p \in Procs |-> FALSE]
  /\ rpc = [q \in Readers |-> "idle"]

Goto(p, to) == pc' = [pc EXCEPT ![p] = to]

(* A git command is about to run for the first time. *)
FreshCommand(p) ==
  /\ attempt' = [attempt EXCEPT ![p] = 1]
  /\ faults' = [faults EXCEPT ![p] = 0]

OnceMore(p) == attempt[p] <= Attempts
MayRetry(p) == attempt[p] < Attempts

(* _run_git_with_retries(): after a failed attempt of the command at `here` *)
(* try again, or give up after the last one. *)
RetryOrFail(p, here) ==
  IF MayRetry(p)
    THEN Goto(p, here) /\ attempt' = [attempt EXCEPT ![p] = @ + 1]
    ELSE Goto(p, "failed") /\ UNCHANGED attempt

(* A call that is not retried fails for a reason outside the gateway.       *)
Excuse(p) ==
  /\ Goto(p, "failed")
  /\ excused' = [excused EXCEPT ![p] = TRUE]
  /\ UNCHANGED <<attempt, todo, startedAt, faults>>

-----------------------------------------------------------------------------
(* mirror_once(). *)

Begin(p) ==
  /\ pc[p] = "idle"
  /\ Goto(p, "lock")
  /\ startedAt' = [startedAt EXCEPT ![p] = now]
  /\ UNCHANGED <<now, upVars, localVars, gitlabVars, fresh, holder, attempt, todo,
                 faults, excused, rpc>>

NotExcluded(p) == TRUE
LockFree(p)    == holder = Nobody

Acquire(p) ==
  /\ pc[p] = "lock"
  /\ LockFree(p)
  /\ holder' = p
  /\ Goto(p, "local")
  /\ UNCHANGED <<now, upVars, localVars, gitlabVars, fresh, attempt, todo, startedAt,
                 faults, excused, rpc>>

(* A directory that is not a repository is removed; then clone or update.   *)
AlwaysRemoved  == localDir # "none"
JunkRemoved    == localDir = "junk"

InspectLocal(p) ==
  /\ pc[p] = "local"
  /\ localDir' = IF JunkRemoved THEN "none" ELSE localDir
  /\ localRefs' = IF JunkRemoved THEN Absent ELSE localRefs
  /\ Goto(p, IF localDir' = "none" THEN "clone" ELSE "update")
  /\ FreshCommand(p)
  /\ UNCHANGED <<now, upVars, localAsOf, gitlabVars, fresh, holder, todo, startedAt,
                 excused, rpc>>

FetchAll ==
  /\ localDir' = "repo"
  /\ localRefs' = up
  /\ localAsOf' = now

(* A repository without a fetch refspec gets the upstream's HEAD and no ref. *)
FetchNothing == UNCHANGED localVars

Clone(p) ==
  /\ pc[p] = "clone"
  /\ localDir = "none"
  /\ FetchAll
  /\ Goto(p, "check")
  /\ UNCHANGED <<now, upVars, gitlabVars, fresh, holder, attempt, todo, startedAt,
                 faults, excused, rpc>>

(* A failed clone leaves nothing, a directory that is no repository yet, or *)
(* a repository without refs, to whose config git has written the URL and   *)
(* perhaps what to fetch.  One that finds the directory in its way fails    *)
(* whatever the network does.                                               *)
Leftovers == IF localDir = "none" THEN {"none", "junk", "bare", "repo"} ELSE {localDir}

CloneFails(p) ==
  /\ pc[p] = "clone"
  /\ localDir' \in Leftovers
  /\ faults' = [faults EXCEPT ![p] = IF localDir = "none" THEN @ + 1 ELSE @]
  /\ Goto(p, "cleanup")
  /\ UNCHANGED <<now, upVars, localRefs, localAsOf, gitlabVars, fresh, holder, attempt,
                 todo, startedAt, excused, rpc>>

(* cleanup_partial_clone(), before the next attempt and after the last one. *)
CleansNothing == FALSE
CleansUp      == localDir # "none" /\ ~LocalHasRefs

Cleanup(p) ==
  /\ pc[p] = "cleanup"
  /\ localDir' = IF CleansUp THEN "none" ELSE localDir
  /\ RetryOrFail(p, "clone")
  /\ UNCHANGED <<now, upVars, localRefs, localAsOf, gitlabVars, fresh, holder, todo,
                 startedAt, faults, excused, rpc>>

(* remote update --prune. *)
Update(p) ==
  /\ pc[p] = "update"
  /\ IF localDir = "bare" THEN FetchNothing ELSE FetchAll
  /\ Goto(p, "check")
  /\ UNCHANGED <<now, upVars, gitlabVars, fresh, holder, attempt, todo, startedAt,
                 faults, excused, rpc>>

UpdateFails(p) ==
  /\ pc[p] = "update"
  /\ \E some \in SUBSET Refs :
       /\ localDir = "bare" => some = {}
       /\ localRefs' = [r \in Refs |-> IF r \in some THEN up[r] ELSE localRefs[r]]
  /\ faults' = [faults EXCEPT ![p] = @ + 1]
  /\ RetryOrFail(p, "update")
  /\ UNCHANGED <<now, upVars, localDir, localAsOf, gitlabVars, fresh, holder, todo,
                 startedAt, excused, rpc>>

(* An upstream without refs fails the job before GitLab is touched; so does *)
(* a fetch that asked for none.                                             *)
AssumesRefs   == TRUE
FetchedRefs   == LocalHasRefs

CheckRefs(p) ==
  /\ pc[p] = "check"
  /\ IF FetchedRefs
       THEN Goto(p, "project") /\ UNCHANGED <<attempt, todo, startedAt, faults, excused>>
       ELSE /\ Goto(p, "failed")
            /\ excused' = [excused EXCEPT ![p] = localDir = "repo" \/ \A r \in SafeRefs : up[r] = 0]
            /\ UNCHANGED <<attempt, todo, startedAt, faults>>
  /\ UNCHANGED <<now, upVars, localVars, gitlabVars, fresh, holder, rpc>>

(* ensure_empty_project(), with a commit to begin with on the default       *)
(* branch, if the local mirror names one: it may name none where that       *)
(* branch is missing.                                                       *)
CreateProject ==
  /\ project' = TRUE
  /\ \/ project /\ gl' = gl
     \/ ~project /\ gl' = [gl EXCEPT ![Head] = Readme]
     \/ ~project /\ localRefs[Head] = 0 /\ gl' = gl

EnsureProject(p) ==
  /\ pc[p] = "project"
  /\ CreateProject
  /\ Goto(p, "list")
  /\ UNCHANGED <<now, upVars, localVars, fresh, holder, attempt, todo, startedAt,
                 faults, excused, rpc>>

(* An API call fails or times out; GitLab may have created the project.     *)
EnsureProjectFails(p) ==
  /\ pc[p] = "project"
  /\ CreateProject \/ UNCHANGED gitlabVars
  /\ Excuse(p)
  /\ UNCHANGED <<now, upVars, localVars, fresh, holder, rpc>>

PushesAnyway == FALSE
NothingSafe  == Refspecs = {}

ListRefs(p) ==
  /\ pc[p] = "list"
  /\ IF NothingSafe
       THEN Excuse(p)
       ELSE /\ Goto(p, "push")
            /\ todo' = [todo EXCEPT ![p] = Refspecs]
            /\ FreshCommand(p)
            /\ UNCHANGED <<startedAt, excused>>
  /\ UNCHANGED <<now, upVars, localVars, gitlabVars, fresh, holder, rpc>>

(* for-each-ref fails. *)
ListRefsFails(p) ==
  /\ pc[p] = "list"
  /\ Excuse(p)
  /\ UNCHANGED <<now, upVars, localVars, gitlabVars, fresh, holder, rpc>>

Pushed(some) == [r \in Refs |-> IF r \in some THEN localRefs[r] ELSE gl[r]]

OneBatchOnly(p) == {}
LeftAfter(p)    == Rest(todo[p])

Push(p) ==
  /\ pc[p] = "push"
  /\ gl' = Pushed(NextBatch(todo[p]))
  /\ todo' = [todo EXCEPT ![p] = LeftAfter(p)]
  /\ Goto(p, IF LeftAfter(p) = {} THEN "finish" ELSE "push")
  /\ FreshCommand(p)
  /\ UNCHANGED <<now, upVars, localVars, project, fresh, holder, startedAt, excused,
                 rpc>>

PushFails(p) ==
  /\ pc[p] = "push"
  /\ \E some \in SUBSET NextBatch(todo[p]) : gl' = Pushed(some)
  /\ faults' = [faults EXCEPT ![p] = @ + 1]
  /\ RetryOrFail(p, "push")
  /\ UNCHANGED <<now, upVars, localVars, project, fresh, holder, todo, startedAt, excused,
                 rpc>>

(* Default branch and LFS: a failure fails the job, the refs stay pushed.   *)
Finish(p) ==
  /\ pc[p] = "finish"
  /\ Goto(p, "stamp")
  /\ UNCHANGED <<now, upVars, localVars, gitlabVars, fresh, holder, attempt, todo,
                 startedAt, faults, excused, rpc>>

FinishFails(p) ==
  /\ pc[p] = "finish"
  /\ Excuse(p)
  /\ UNCHANGED <<now, upVars, localVars, gitlabVars, fresh, holder, rpc>>

TouchStamp(p) ==
  /\ pc[p] = "stamp"
  /\ fresh' = TRUE
  /\ Goto(p, "stamped")
  /\ UNCHANGED <<now, upVars, localVars, gitlabVars, holder, attempt, todo, startedAt,
                 faults, excused, rpc>>

(* What a process knows of its run ends with the run.                       *)
EndRun(p) ==
  /\ Goto(p, "idle")
  /\ FreshCommand(p)
  /\ todo' = [todo EXCEPT ![p] = {}]
  /\ startedAt' = [startedAt EXCEPT ![p] = 0]
  /\ excused' = [excused EXCEPT ![p] = FALSE]

(* mirror_once() returns or raises, and leaves the lock.                    *)
KeptOnError(p) == pc[p] = "stamped"
Leaves(p)      == pc[p] \in {"stamped", "failed"}

Release(p) ==
  /\ Leaves(p)
  /\ holder' = Nobody
  /\ EndRun(p)
  /\ UNCHANGED <<now, upVars, localVars, gitlabVars, fresh, rpc>>

(* The process is killed; a clone it was running leaves what it had made.   *)
Crash(p) ==
  /\ pc[p] # "idle"
  /\ localDir' \in IF pc[p] = "clone" THEN Leftovers ELSE {localDir}
  /\ holder' = IF holder = p THEN Nobody ELSE holder
  /\ EndRun(p)
  /\ UNCHANGED <<now, upVars, localRefs, localAsOf, gitlabVars, fresh, rpc>>

-----------------------------------------------------------------------------
(* Requests: gitlab_mirror_ready() asks GitLab twice, then _select_target() *)
(* decides.  An error in either call counts as not ready.                   *)

ProjectSeen(q) ==
  /\ rpc[q] = "idle"
  /\ project
  /\ rpc' = [rpc EXCEPT ![q] = "refs"]
  /\ UNCHANGED <<now, upVars, localVars, gitlabVars, fresh, holder, jobVars>>

Hit(q) ==
  /\ rpc[q] = "refs"
  /\ HasRefs(gl)
  /\ rpc' = [rpc EXCEPT ![q] = "gitlab"]
  /\ UNCHANGED <<now, upVars, localVars, gitlabVars, fresh, holder, jobVars>>

(* The request goes upstream, or it has been answered from GitLab.          *)
Leave(q) ==
  /\ rpc[q] # "idle"
  /\ rpc' = [rpc EXCEPT ![q] = "idle"]
  /\ UNCHANGED <<now, upVars, localVars, gitlabVars, fresh, holder, jobVars>>

-----------------------------------------------------------------------------
(* The world around. *)

UpstreamChanges ==
  /\ now < MaxChange
  /\ now' = now + 1
  /\ \E r \in Refs, v \in {0, now + 1} :
       /\ up' = [up EXCEPT ![r] = v]
       /\ past' = [past EXCEPT ![r] = @ \cup {v}]
  /\ UNCHANGED <<localVars, gitlabVars, fresh, holder, jobVars, rpc>>

(* update_if_older_than_seconds pass.                                       *)
StampAges ==
  /\ fresh
  /\ fresh' = FALSE
  /\ UNCHANGED <<now, upVars, localVars, gitlabVars, holder, jobVars, rpc>>

(* The operator deletes the cache under workdir while nothing runs.         *)
DropCache ==
  /\ holder = Nobody
  /\ localDir # "none" \/ fresh
  /\ localDir' = "none" /\ localRefs' = Absent /\ localAsOf' = 0
  /\ fresh' = FALSE
  /\ UNCHANGED <<now, upVars, gitlabVars, holder, jobVars, rpc>>

Next ==
  \/ \E p \in Procs : Begin(p)
  \/ \E p \in Procs : Acquire(p)
  \/ \E p \in Procs : InspectLocal(p)
  \/ \E p \in Procs : Clone(p)
  \/ \E p \in Procs : CloneFails(p)
  \/ \E p \in Procs : Cleanup(p)
  \/ \E p \in Procs : Update(p)
  \/ \E p \in Procs : UpdateFails(p)
  \/ \E p \in Procs : CheckRefs(p)
  \/ \E p \in Procs : EnsureProject(p)
  \/ \E p \in Procs : EnsureProjectFails(p)
  \/ \E p \in Procs : ListRefs(p)
  \/ \E p \in Procs : ListRefsFails(p)
  \/ \E p \in Procs : Push(p)
  \/ \E p \in Procs : PushFails(p)
  \/ \E p \in Procs : Finish(p)
  \/ \E p \in Procs : FinishFails(p)
  \/ \E p \in Procs : TouchStamp(p)
  \/ \E p \in Procs : Release(p)
  \/ \E p \in Procs : Crash(p)
  \/ \E q \in Readers : ProjectSeen(q)
  \/ \E q \in Readers : Hit(q)
  \/ \E q \in Readers : Leave(q)
  \/ UpstreamChanges
  \/ StampAges
  \/ DropCache

Spec == Init /\ [][Next]_vars

(* Every step a process takes inside mirror_once(), but for the wait for    *)
(* the lock and for its death.                                              *)
Work(p) ==
  \/ InspectLocal(p) \/ Clone(p) \/ CloneFails(p) \/ Cleanup(p)
  \/ Update(p) \/ UpdateFails(p) \/ CheckRefs(p)
  \/ EnsureProject(p) \/ EnsureProjectFails(p)
  \/ ListRefs(p) \/ ListRefsFails(p) \/ Push(p) \/ PushFails(p) \/ Finish(p) \/ FinishFails(p)
  \/ TouchStamp(p) \/ Release(p)

(* A git command or an API call ends, one way or the other: the code puts   *)
(* no limit on a git command, so this is asked of git.  The kernel grants   *)
(* a flock to a process that waits for it, however many others come.        *)
Fairness ==
  \A p \in Procs : WF_vars(Work(p)) /\ SF_vars(Acquire(p))

FairSpec == Spec /\ Fairness

-----------------------------------------------------------------------------
(* Properties. *)

(* Every variable keeps its type.                                           *)
TypeOK ==
  /\ now \in 1 .. MaxChange
  /\ up \in [Refs -> Versions]
  /\ past \in [Refs -> SUBSET Versions]
  /\ localDir \in {"none", "junk", "bare", "repo"}
  /\ localRefs \in [Refs -> Versions]
  /\ localAsOf \in Versions
  /\ project \in BOOLEAN
  /\ gl \in [Refs -> Versions \cup {Readme}]
  /\ fresh \in BOOLEAN
  /\ holder \in Procs \cup {Nobody}
  /\ pc \in [Procs -> {"idle", "lock"} \cup InLock]
  /\ attempt \in [Procs -> 1 .. Attempts]
  /\ todo \in [Procs -> SUBSET Refs]
  /\ rpc \in [Readers -> {"idle", "refs", "gitlab"}]
  /\ startedAt \in [Procs -> Versions]
  /\ faults \in [Procs -> 0 .. Attempts]
  /\ excused \in [Procs -> BOOLEAN]

(* When a job reports success, GitLab has, in every ref it may be given,    *)
(* the state the upstream had at some moment after the job was asked for:   *)
(* nothing it pushed was fetched before, no batch was left out, and no      *)
(* other process put older refs back meanwhile (mirror_once() returning).   *)
SuccessMeansMirrored ==
  \A p \in Procs : pc[p] = "stamped" => localAsOf >= startedAt[p] /\ Synced

(* A job fails only if one git command failed on every attempt for a reason *)
(* outside the gateway, or for a cause that is not retried.  What an        *)
(* earlier attempt, an earlier job or a killed one left on disk fails a     *)
(* later one only if a clone was killed before git knew what to fetch       *)
(* (cleanup_partial_clone(), rmtree of what is no repository).              *)
FailsOnlyWithReason ==
  \A p \in Procs : pc[p] = "failed" =>
    excused[p] \/ faults[p] = Attempts \/ (localDir = "bare" /\ ~LocalHasRefs)

(* README.md: "After a container restart, use `git-cache-gateway ensure     *)
(* <url>` to retry a known repository".  Such a retry fails only for what   *)
(* goes wrong outside the gateway while it runs, whatever the jobs that the *)
(* restart killed have left on disk (mirror_once(), after a Crash).         *)
RestartedRetryWorks ==
  \A p \in Procs : pc[p] = "failed" => excused[p] \/ faults[p] = Attempts

(* A project comes into being only when the local mirror has refs for it:   *)
(* "a failed upstream fetch does not create a permanently empty project"    *)
(* (mirror_once()).                                                         *)
NoProjectWithoutLocalMirror == [][~project /\ project' => LocalHasRefs]_vars

(* While a job runs, a ref leaves the local mirror only because the         *)
(* upstream deleted it: no cleanup after a failed or killed run throws away *)
(* a mirror that an offline gateway could still serve from.                 *)
RefreshOnlyPrunes ==
  [][holder # Nobody =>
       \A r \in Refs : localRefs[r] # 0 /\ localRefs'[r] = 0 => up[r] = 0]_vars

(* A stamp that keeps requests from asking for a refresh stands for a       *)
(* mirror that serves something: GitLab has a ref of the upstream           *)
(* (_touch_stamp(), is_stale()).                                            *)
FreshMeansServable ==
  fresh => \E r \in SafeRefs : gl[r] \notin {0, Readme}

(* What requests are served from only moves forward, through states of the  *)
(* upstream, and nothing is taken away: ServedMirror is implemented by all  *)
(* processes together, through failed fetches and pushes, kills and the     *)
(* loss of the cache (the refspecs of _safe_push_refspecs()).               *)
Promise == INSTANCE ServedMirror WITH DefaultRef <- Head
ImplementsServedMirror == Promise!MirrorSpec

(* A process that asks for a mirror gets its answer: it is granted the lock *)
(* whatever the others do, runs out of retries or finishes, and leaves the  *)
(* lock to the next.                                                        *)
JobsEnd == \A p \in Procs : pc[p] = "lock" ~> pc[p] = "idle"

(* README.md: "If no internal mirror exists yet, the gateway proxies the    *)
(* request directly to the upstream provider".  A request served from       *)
(* GitLab finds at least one ref of the upstream repository there.          *)
ServedOnlyMirrored ==
  \A q \in Readers : rpc[q] = "gitlab" => \E r \in Refs : gl[r] \notin {0, Readme}

=============================================================================
