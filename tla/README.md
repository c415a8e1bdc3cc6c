# Verification of Git Cache Gateway

TLA+ specifications of Git Cache Gateway, the TLC runs that check them on small
instances, and TLAPS proofs, for instances of any size, about each of its components: every
safety property that a passing run checks is a theorem.
Line numbers refer to the Python package `src/git_cache_gateway/` unless a path is
given.

## 1. The system

A Git client whose URLs are rewritten with `url.insteadOf` asks the gateway for a
repository. The gateway answers from the repository's mirror project on an internal
GitLab if there is one, and from the upstream provider if not; in the background it
clones the upstream into a bare local mirror and pushes that to GitLab.

```
 Git client ──> request path (server.py) ── ready? ──> GitLab project
                   │ submit()                            ^   ^
                   v                                     │   │ repair default branch
             MirrorScheduler (scheduler.py)              │   │ (requests, jobs, command)
                   │ thread pool                         │   │
                   v                                     │   │
             mirror_once() (mirror.py) ── flock ── local mirror, stamp
                   │ groups, project, visibility (gitlab_api.py)
                   v
                 GitLab REST API, git push
```

| Component | State it keeps | Operations | Hard behaviour | What makes it correct |
|---|---|---|---|---|
| **Scheduler** `scheduler.py` | `_pending`, `_active_jobs`, the capacity semaphore, totals, recent failures, the executor's queue and futures | `submit`, `retry_failed`, `_run_job`, `_done`, `snapshot`, `shutdown` | Handler threads, workers and callbacks interleave around one non-reentrant lock; `_done` runs later than the end of its job, and possibly in the submitting thread | no self-deadlock; no slot lost or given back twice; entries never outlive their job, but for the record of one the executor refused; one job per repository; each accepted job retires once |
| **Mirror pipeline** `mirror.py`, `locks.py` | local mirror directory, stamp, flock, refs on GitLab | `mirror_once` (clone or update, retries, cleanup, project, batched push, stamp), `gitlab_mirror_ready`, `is_stale` | several processes, kills, partial clones, partial fetches and pushes, upstream that moves on | success means mirrored; leftovers cost no mirror and, but for one kind, fail no later run; no project without a mirror behind it; what is served only moves forward; every process gets its turn |
| **Default branch repair** `mirror.py` | the project's branches, default branch and advertised HEAD, all on GitLab | `repair_gitlab_default_branch`, `_force_default_branch_refresh`, `_choose_gitlab_default_branch`, `repair_default_branches` | runs without a lock in every hit, every job and one command; toggles through a disposable branch | success means cloneable; a valid default is kept where repairs do not overlap; the disposable branch goes away; the command counts what it left |
| **Namespace and visibility** `gitlab_api.py` | groups and projects on GitLab with their levels | `ensure_empty_project`, `ensure_group_path`, `ensure_*_visibility`, fallback, `enforce_visibility_tree` | jobs of one owner and other gateways create the same groups and projects while a walk sets their levels; answers are lost; policies refuse levels | races for a project are absorbed; strict mode is strict; the fallback stays only where needed; a clean walk has set all it found |
| **Request path** `server.py` | none of its own between requests | `_handle_request`, `_select_target`, `_proxy`, redirect, `wait_for_mirror` | a Git fetch is two requests and each selects its target anew over a mirror that changes; errors after the headers of a streamed answer; clients that hang up | the target asked can answer; which fetches a change of target fails; one whole answer per request; every request ends unless a git command of it never does |
| **URL mapping** `urlmap.py` | none | `map_gateway_path`, `map_remote_url`, the scan of projects (`mirror.py:122`) | where a repository's path ends; three ways to a mapping | a client gets the repository it named; all ways to one repository meet at one project, directory and lock |
| **Names** `locks.py:8`, `mirror.py:160` | none | cache key to lock, stamp and directory names | two keys with one name | one repository, one lock; distinct repositories share a stamp only where an underscore of a name can be taken for a slash |
| **Metrics** `metrics.py` | counters, recent records | increments, rendering | each exit of a request counts by itself | totals agree with the requests |
| **Configuration, command line, helpers** `config.py`, `cli.py`, `util.py`, `scripts/` | none | reading settings, printing, wrapping `subprocess` and `ssl` | none | – |

Interaction: the request path calls `gitlab_mirror_ready` (two reads of GitLab and a
repair), then `is_stale` and `submit`. The scheduler's workers call `mirror_once`,
which takes the repository's flock, uses the namespace calls and the repair. The
`ensure` command and requests in `wait_for_mirror` mode call `mirror_once` without the
scheduler, so the flock is the only thing all mirroring of one repository shares. The
repair takes no lock at all.

`PROJECT.json` lists every hazard of the code at its line, with the properties that cover it, or
the reason why none does.

## 2. Modules

| Module | Models | Kind |
|---|---|---|
| `BoundedJobs` | what the gateway relies on the scheduler for: jobs are admitted up to a capacity, worked on up to a width, and go through their stages once | abstract specification |
| `MirrorScheduler` | `scheduler.py` over `concurrent.futures` | component, refines `BoundedJobs` |
| `MirrorScheduler_proofs` | its invariants and the refinement for every value of the constants | proofs |
| `ServedMirror` | what requests may rely on of the mirror they are served from | abstract specification |
| `MirrorPipeline` | `mirror_once` and the readiness check, for one repository, several processes | component, refines `ServedMirror` |
| `Gateway` | a fetch as a sequence of requests, each passing `_handle_request`, over a mirror that moves | composition: request path on `ServedMirror` |
| `DefaultBranch` | the repair of one project's default branch, several repairers, the command that counts | component |
| `GitLabNamespace` | creating groups and projects under a visibility policy, several jobs, and the walk that enforces it | component |
| `UrlMap` | which repository a URL means, on each of its ways, and the names made of it | pure operators, with the parties that use them |
| `MirrorPipeline_proofs` | its invariants, and the refinement of `ServedMirror` | proofs |
| `Gateway_proofs` | what each client of the gateway may rely on, and the counters | proofs |
| `DefaultBranch_proofs` | the invariants of overlapping repairs, and of undisturbed ones | proofs |
| `GitLabNamespace_proofs` | what each job on its path may rely on | proofs |
| `GitLabTree_proofs` | the tree of groups, and the walk through it | proofs, on top of `GitLabNamespace_proofs` |
| `UrlMap_proofs` | keys, URLs, stamps and directories of what is mapped | proofs |
| `UrlMapNames_proofs` | what a request's path is cut into, and what is asked for with it | proofs, on top of `UrlMap_proofs` |
| `MC…` | the instances TLC checks | model checking |

### MirrorScheduler

State: `lock`, `pending`, `active`, `free` are `_lock`, `_pending`, `_active_jobs` and
the value of `_capacity`; the totals and `recentFailed` keep their names; `fut`, `queue`,
`attached` are the executor's futures, its work queue and the callbacks registered so
far; `pc`/`cur` say where a handler thread is in `submit`, `wpc`/`wjob` where a worker is.

`submit` is not atomic, because inside its critical section it hands the job to the
executor, which workers read without the lock. It is `Accept` (or `Deduplicate`,
`Reject`), then `Enqueue` (or `EnqueueRefused`, after a shutdown), then `Register`, and
the lock is held across the three. `Request` is a cache miss or a stale hit. `RetryFailed`
copies the failures that match a filter under the lock; `RetryNext` and `RetryUnmappable`
go through them, each submission in a lock round of its own. A worker does `Take`,
`RunJobStart` (under the lock), `RunJobEnd` (the future is finished, the lock is not
needed) and `Done` (the callback, under the lock). `RunJobEnd` and `Done` being two steps
is what the scheduler's two findings come from.

Left out: reasons and timestamps of records, the displayed list of completed jobs, and
`background.enabled = false`, with which `submit` does nothing. `overlapped` is a history
variable: the keys accepted again between the end of a job and its `_done`.

### MirrorPipeline

State: the mirror directory (`localDir`: absent, not a repository, a bare repository that
does not know what to fetch yet, a mirror; `localRefs`), the project and its refs
(`project`, `gl`), the stamp's youth (`fresh`), the flock's `holder`, and for each process
where it is, the attempt of the git command it is running and the refs it still has to push.
A ref's value is the number of the upstream change that set it last, so old and new are told
apart and nothing else.

One action per step of `mirror_once`: `Begin`, `Acquire`, `InspectLocal`, `Clone` /
`CloneFails` / `Cleanup`, `Update` / `UpdateFails`, `CheckRefs`, `EnsureProject` /
`EnsureProjectFails`, `ListRefs` / `ListRefsFails`, `Push` / `PushFails` for each batch, `Finish` /
`FinishFails` (default branch and LFS), `TouchStamp`, `Release`. A project is
created with a README commit only if the local mirror has its default branch (`CreateProject`).
`Crash` kills a process anywhere: its lock goes, its files stay. A failed fetch or push has moved any subset of the
refs concerned; a failed clone leaves nothing, a directory that is no repository, or a
repository without refs; a killed one also the bare state, in which `git clone` has written
the remote's URL and not its refspec, and which `FetchNothing` is about. Readers do
`gitlab_mirror_ready`'s two reads (`ProjectSeen`, `Hit`). `UpstreamChanges`, `StampAges` and
`DropCache` are the world.

History variables: `startedAt` and `localAsOf` date a job and the last complete fetch;
`faults` and `excused` record failures that come from outside the gateway; `past` holds the
values each ref has had upstream.

### ServedMirror

The pipeline's promise to requests: a project, once there, stays; a ref on it, once there,
stays; it moves only to what the upstream had in that ref, and only forward; refs that GitLab
would refuse never get there. `MirrorPipeline` has its variables under the same names, so the
refinement mapping is the identity (but for the default branch's name); all that
happens on disk, under the lock and in a process is a stutter. `Gateway` extends it and lets
the mirror take any of its steps between any two of a request, so what `Gateway` shows holds
whatever the pipeline does.

### Gateway

A client goes from `start` over its request for refs and its request for the pack to an end
(`phase`), or asks for one of the gateway's own pages; `pc` is where the handler of the
current request is; `wire` is what has come back on the connection, head and body, whole or
broken off; `target` is where the request goes. `ReadProject` and `ReadRefs` are the
readiness check, `StampExists` and `StampStat` the two looks of `is_stale`, `SubmitRefresh`
and `SubmitMiss` the submissions (which raise after `Shutdown`), `Ensure` and `EnsureFails`
the wait in `wait_for_mirror` mode (these and `ReadRefs` run git commands, to which `run()` gives no
timeout: `RunsGit`), `Redirect`, `TooLarge`, `Proxy`, `Opened`, `Streamed`
the answers, `HttpError`, `ErrorBody`, `ErrorBodyBreaks`, `OpenFails`, `StreamBreaks`,
`BadGateway` the ways they fail. `HangUp` may come at any moment, and later writes then
succeed or raise. `mode`, `strategy` and `refreshes` are the settings, chosen at the start.

A server advertises the refs it has at that moment and later has the objects of every value
it ever had. `stats` are the counters of `ServiceStats` and the number of
`observe_request` calls. `faults` records what went wrong around a fetch from outside.

### DefaultBranch

State: the project's `heads`, `default` and `advertised` HEAD, and per repairer what it
has read (`seen`, `listed`), decided (`desired`) and made (`created`). Every API call or
`ls-remote` is a step: `ReadProject`, `ReadHeads` (and the choice), `ReadAdvertised`,
`SetDefault`, `Verify`, `CreateTemp`, `ToggleAway`, `ToggleBack`, `DeleteTemp`, `Reverify`,
`Return`. `CallFails` and `ToggleFails` let any call raise, with or without effect;
`DeleteAndRaise` and `DeleteFails` are the `finally` clause. `PushBranch` and
`UpstreamRenames` are the world. A repairer in `Commands` is the command's turn at this project: it
first reads HEAD and heads for itself (`ReadBefore`, `Plan`), may find all well, and after a
repair that worked reads HEAD once more (`ReadAfter`); pc `counted` is its "repaired" or "ok".

### GitLabNamespace

State: the level of every group and project (or none), the policy (`strict`, `fallback`,
`permitted`), and where each job is on its path. `fallback` is
any level but the configured one, or none. The pairs `PostGroup` / `PostGroupRefused` and so on are one API call answered in two ways, by GitLab's rules;
`Recheck` is the second GET of `ensure_empty_project`. `Breakdown` is a call whose answer
is an error of the server or does not come, carried out or not. Where the code catches
`GitLabAPIError` the job goes on; a lost connection is another exception and fails it.

The enforcer is the command `enforce-visibility` at the configured level. Its walk is the list of calls it has left
to make (`agenda`). A group is entered with the level it was listed with (`Walk`): it is set if that
is another one, then its projects are listed, those at another level set, and its subgroups
listed and entered (`List`, `Onward`). A PUT is answered by GitLab's rules of the moment it
arrives (`EnforceSet`, `EnforceRefused`, `EnforceBreakdown`). Errors are counted (`skipped`)
or, with `--strict`, raised. `known` and `lowering` are history.

### UrlMap

A path is a sequence of tokens, `.git` and `_` being tokens wherever they occur. The mapping
functions, the names and the URLs of both targets are operators; the variables are only
parties that use them: `SendRequest` writes a repository's URL in one of its spellings and lets
`url.insteadOf` rewrite it, `MapRequest` maps the path, `Command` maps a URL given on the command
line, `Mirror` pushes the repository the mapping names into the project it names, `Answer`
proxies to that project or to the upstream. What the client meant (`Asked`) is read off
its URL by the rules of Git servers, so the properties compare the code with something
that is not the code. What a path object keeps of a path (`Collapse`) is stated by places:
which it keeps (`Kept`), numbered in their order (`Rank`, `Picked`). So is what becomes of a path when each
slash is replaced by two underscores (`Underscored`): where each token of it begins (`Begins`), and
underscores in between, hence `a_/b` and `a/_b` both become `a___b` as in the code.

### What is assumed of things outside the repository

Marked `external` in the map of `PROJECT.json`. git: `clone --mirror` refuses a directory
that exists, and writes HEAD and URL before it connects and the refspec after; a push of one
ref happens entirely or not; with protocol 2 the first request of a fetch carries no refs;
servers send any object they have, and keep what a ref has left. The kernel: a dead process
holds no flock. GitLab: a path is taken once; nothing is more visible than its group, nor a
group less visible than what is in it; a branch that does not exist cannot be the default,
the default branch cannot be deleted; setting the default branch it already has may leave
the advertised HEAD (the reason the code gives for its toggle, mirror.py:312). Git servers:
no repository's name, and no segment of it, ends in `.git`; a name is served with or without it,
doubled slashes or not.
`concurrent.futures`: a FIFO queue, callbacks called by the thread that finishes the future
or, if it is finished, by the one that registers them; after `shutdown(wait=False,
cancel_futures=False)` submissions raise and the queue is drained.

## 3. Runs

Every passing run checks the properties named here with TLC, exhaustively for its
instance. Times are with two workers.

### `scheduler` – `MCMirrorScheduler.cfg`, 382 376 states, 2 minutes

| Property | Says |
|---|---|
| `TypeOK` | types, and the recent list within its limit |
| `NoSelfDeadlock` | `add_done_callback` under the lock never finds the future finished (scheduler.py:122) |
| `SlotsAccounted` | slots and totals account for every job, through refusals and the shutdown |
| `EntriesBelongToUnretiredJobs` | what `_pending` and `_active_jobs` hold for a key is a job of that key whose `_done` is still to come, although `_done` pops by key; the one ghost is named: after a shutdown, the record in `_active_jobs` of a job the executor refused (scheduler.py:113-120) stays for good |
| `DuplicatesOnlyAfterOverlap` | two live jobs of a key only after the key was accepted between a job's end and its `_done` |
| `BareFailuresOnlyAfterOverlap` | a failure loses its URL only after the same |
| `ImplementsBoundedJobs` | refinement of `BoundedJobs` |
| `AcceptedJobsRetire` | every job on the queue is eventually retired |

Bounds: 2 keys, 3 jobs, 2 handler threads, 2 workers, `MaxPending` 2, `RecentLimit` 2,
each of the deduplicated and rejected counters at most 1. A job, the successor that
overtakes its `_done`, and a duplicate of that successor are three jobs; two threads and
two workers are the fewest that overlap; three jobs over two slots fill the semaphore; two
keys let an unrelated job interleave. Counters only count, so bounding them cuts no
behaviour of the rest except the number of refused calls. The bounds may leave nothing to
do, so deadlock is not checked.

### `pipeline` – `MCMirrorPipeline.cfg`, 484 663 states, 3 minutes

| Property | Says |
|---|---|
| `TypeOK` | types, attempts within `operation_retries` |
| `SuccessMeansMirrored` | a job that returns leaves on GitLab, in every ref it may push, what the upstream had at some time since the job was asked for |
| `FailsOnlyWithReason` | a job fails only if one git command failed on every attempt for an outside reason, or for something that is not retried, or on a repository in the bare state; no other leftover fails it |
| `FreshMeansServable` | a young stamp stands for a project with at least one upstream ref |
| `NoProjectWithoutLocalMirror` | the project is created only with local refs to put into it |
| `RefreshOnlyPrunes` | a running job removes a local ref only because the upstream did |
| `ImplementsServedMirror` | refinement of `ServedMirror` |
| `JobsEnd` | a process that asks for the lock gets it and returns |

Bounds: 2 processes, 1 reader, 3 refs of which 2 are pushed and GitLab would reject one, 1
ref per push, 2 attempts, 1 change upstream after the start. Two processes are what the
flock keeps apart; two batches have a point between them where a failure, a kill or a
change upstream can fall; two attempts have a retry that meets what the first one left
and a last one; one change separates before from after. Deadlock is checked.

### `gateway` – `MCGateway.cfg`, 1 137 864 states, 2 minutes

| Property | Says |
|---|---|
| `TypeOK` | types; whoever serves has a target |
| `FetchFailsOnlyWithReason` | a fetch no fault touched fails only because its two requests went to different targets, and in the direction from GitLab to upstream only if the generated README commit was advertised |
| `GitLabOnlyWhenPopulated` | GitLab is asked only for a repository that has refs there *then*, however long ago the readiness check was |
| `AnswersAreWhole` | one head with the body that belongs to it; the exceptions are named one by one |
| `CountersAgree` | every request is observed when it is over, hits and misses exclude each other, what is proxied was counted before |
| `FetchesEnd` | a fetch ends, unless a git command that its handler runs never does |

`AnswersAreWhole` states what is known to be imperfect: an error in the midst of a body puts
the 502 into that body (server.py:367), a stamp deleted between `exists` and `stat`
(mirror.py:167) and a submission after the shutdown close the connection without an answer.

Bounds: one client with two requests, 2 refs, 1 change upstream, both modes and strategies, any
order of stamp changes, one shutdown. Handlers share nothing but the mirror, the stamp and
counters behind a lock, so a second client adds no behaviour to the first one's fetch that
the freely moving mirror does not; two refs give a mirror that is half filled; one change makes
the upstream advertise what the mirror lacks. The client stops after its fetch, so deadlock
is not checked.

### `url_map` – `MCUrlMap.cfg`, 455 417 states, 2 minutes

| Property | Says |
|---|---|
| `TypeOK` | types; only provider hosts are mapped |
| `NeverAnotherRepository` | a client never gets another repository's data than its URL names, unless a name in it begins with `.git` after a slash (`a/b/.github`) |
| `LostOnlyByItsName` | a repository of a provider is refused or not found only for a `.git` in its name or a segment named like a Git service (`a/info/refs`) |
| `OneRepositoryOneLock` | every spelling on every way gives one project, directory and lock, for names without a `.git` or a service; only a doubled slash makes a second lock |
| `RetryNamesTheSameJob` | the URL in a failed job's record maps back to its key |
| `StampsSharedOnlyByUnderscores` | two repositories share a stamp only if in a name an underscore is followed by another (`a/b__c` and `a/b/c`) or ends its segment (`a_/b` and `a/_b`) |
| `ScanFindsEveryMirror` | the scan finds each mirror, except one made from an SCP-like URL without an owner |

Bounds: 2 parties, which is what every property compares at most; 10 paths, one for each
irregularity the code's string functions could trip over (`MCUrlMap.tla` says which: `.git` within
and at the beginning of a name, a segment named like a service, `__`, an underscore at the edge of
a segment, a doubled slash, a subgroup,
no owner), in 3 spellings, 2 syntaxes that are parsed differently, a provider's and another host.
Parties ask once, so the run ends.

### `default_branch` – `MCDefaultBranch.cfg`, 1 135 254 states, 45 seconds

| Property | Says |
|---|---|
| `TypeOK` | types; a decided branch was among the listed heads |
| `DefaultKeptUnlessOverlap` | without overlapping repairs a valid default stays, whatever fails |
| `TempOnlyAfterDisturbance` | without overlap, kill or lost call the disposable branch is gone when no repair runs |
| `CountedMeansSettled` | what the command counts as repaired or ok has an existing default that HEAD agrees with, unless another repair was at it |
| `RepairedMeansCloneable` | a repair that reports success, and a project that is counted, had an advertised HEAD that exists, however repairs overlap |

Bounds: 2 repairers, one of them the command, which may overlap at every call, and branches `main`
and `dev`, so that the project's, the upstream's and the local default can all differ or agree. Any
number of repairs follow each other.

### `namespace` – `MCGitLabNamespace.cfg`, 2 593 296 states, 2 minutes

| Property | Says |
|---|---|
| `TypeOK` | types; nothing more visible than its group |
| `FailsOnlyWithReason` | a job fails only after a breakdown, a refusal by policy, or a lost race for a *group*; never after a lost race for the project |
| `StrictMeansDesired` | in strict mode success means the configured level |
| `EnforcedMeansDesired` | a walk that counted no failure has brought all that was there when it began to the level, whatever jobs did meanwhile |
| `FallbackOnlyWhereRefused` | a job without breakdown leaves another level only where GitLab would refuse the configured one at that moment |
| `RaisingIsNeverSkipped` | the walk skips something only after a breakdown, for a level not permitted, or where there was something to lower |

The last one's exception is the price of walking from the top down: a group that still
holds something more visible is refused before its content is looked at, so lowering a tree
takes one run of the command for each of its levels.

Bounds: 2 jobs, for one project or two of one owner, the enforcer, 2 nested groups, all
three levels with `internal` configured, strict or not, with every fallback
level and none, a restrictive policy that may be relaxed at any time, and every well-placed initial content.
Jobs and projects are interchangeable, which the symmetry uses; no liveness is checked here.

### Runs that show a disagreement

Each checks one statement that a document, docstring or test of the repository makes and
that TLC finds violated.

| Run | Statement | What happens |
|---|---|---|
| `scheduler_duplicates` | README.md:842, duplicate jobs are deduplicated | job 1 ends; job 2 of the key is accepted before 1's `_done`, which then removes 2's entry (scheduler.py:165); job 3 starts beside 2. The flock still keeps them from mixing: the second waits in a worker |
| `pipeline_served` | README.md:100, without a mirror requests go upstream | a request between the creation of the project with its generated README and the first push is served that README (mirror.py:609, 426); if the push fails, so is every later one |
| `pipeline_wedged` | README.md:422 and scheduler.py:248, after a restart of the container `git-cache-gateway ensure` retries a repository | a clone killed before it has written its refspec leaves a directory with `config` and `objects`, all that `_local_mirror_is_git_repo` looks for (mirror.py:176); `remote update` succeeds and fetches nothing, and the retry, as every later run, fails for want of refs although nothing else went wrong |
| `default_branch_toggle` | mirror.py:314, toggle *temporarily* through a disposable branch | a repair reads the project while another has toggled it, takes the disposable branch for the valid default, and keeps it |
| `namespace_groups` | gitlab_api.py:234, ensure nested groups exist | two jobs of a new owner both find the group missing; the loser's POST is refused and its job fails, with no re-check as projects have |
| `url_map_dotgit` | README.md:5 and 21, normal Git commands keep working on a mirror of the requested repository | the first `.git` ends the repository also inside a name: `a/b/.github` is cut to `a/b` with the suffix `hub…`, so that the upstream is asked for `a/b.github` and the client gets that repository's refs. Likewise `a/.github` is refused, and `a/b.github.io` is taken for `a/b`, whose mirror lacks it |

Each passing run's properties that say "only after overlap" or "lost the race" are the
strongest forms of these statements that do hold. Smaller oddities appear in them as exceptions:
in the scheduler's window a failure can be filed under its bare key, which `retry_failed` cannot map
(`BareFailuresOnlyAfterOverlap`); a valid default branch can be replaced when repairs overlap
(`DefaultKeptUnlessOverlap`); and those named under the runs above. The setting
`fail_on_update_error` (config.py:197) is read and used by nothing: a failed update always
fails its job, as in the model.

### Mutants

Each property of a passing run has a plausible bug, listed in `PROJECT.json`, that TLC
must find by it: capacity off by one, a slot given back only on success, a batch
forgotten, the cleanup dropped, the lock kept after an error. Their definitions
(`CapacityOffByOne`, `OneBatchOnly`, …) stand before the ones they replace and are used by
nothing else.

## 4. Fairness

Three properties need it; `DefaultBranch`, `GitLabNamespace` and `UrlMap` have safety only.

- `MirrorScheduler`: weak fairness of each thread *inside* `submit` and of each worker.
  Threads are scheduled by the interpreter, and the lock is held only across steps that
  are themselves fair. A worker waits for that lock before `RunJobStart` and `Done`. With
  three jobs it is eventually free for good, so weak fairness suffices; with ever new
  requests the run would need the lock to be fair to its waiters. `RunJobEnd` is part of
  it and says that `mirror_once` comes back, which is `JobsEnd` of the pipeline. No request has
  to arrive and no shutdown has to happen.
- `MirrorPipeline`: weak fairness of each process's work inside the lock, strong fairness
  of `Acquire`. The first says that git commands and API calls end, well or badly. The
  code sets a timeout of 60 seconds on API calls (gitlab_api.py:93) and none on git commands,
  so for those it is an assumption about git and the network. The second says that the kernel
  grants a flock to a waiter however many others come. Beginning, crashing, changes and
  requests are not fair.
- `Gateway`: weak fairness of what a handler thread does by itself, git commands excepted, and of
  a client that reads its answer and goes on. Timeouts stand for servers that do not answer: `OpenFails`,
  `StreamBreaks` and `ErrorBodyBreaks` are in it, `Opened` and `Streamed` are not. Every connect and
  every read of `urlopen` and of an API call has one (server.py:338, gitlab_api.py:93); it limits each
  read, so an answer is assumed not to drip in for ever. The `git ls-remote` of the readiness check
  and of the repair in it (mirror.py:226, 235, 262, 286) and the git commands of a blocking `ensure`
  have no timeout (util.py:22), so nothing is assumed of `ReadRefs`, `Ensure` and `EnsureFails`, which
  may stand still for ever. `FetchesEnd` says so: a fetch ends, or its handler is left running git. No
  server, no mirror and no stamp has to do anything.

## 5. Proofs

### MirrorScheduler

`MirrorScheduler_proofs` proves, for any keys, jobs, threads, workers, filters, capacity
and limits with

    ConstantsAssumption: Jobs and Workers are finite, NoJob, NoKey and Nobody are
    none of the things they stand in for, MaxPending and RecentLimit are positive

| Theorem | Establishes |
|---|---|
| `CoreInvariant`, `TypeCorrect` | `TypeOK`, and where jobs are |
| `NoSelfDeadlockHolds` | `NoSelfDeadlock` |
| `BooksInvariant` | entries agree with jobs |
| `EntriesStayCurrent` | `EntriesBelongToUnretiredJobs` |
| `DeduplicationHolds` | `DuplicatesOnlyAfterOverlap` |
| `FailuresKeepUrl` | `BareFailuresOnlyAfterOverlap` |
| `SlotsConserved` | `SlotsAccounted` |
| `Refinement` | `ImplementsBoundedJobs` |

So every safety property of the `scheduler` run is a theorem. The argument has two layers.

`Core` is `TypeOK` with `Placement`: an accepted job is with the one thread inside
`submit`, or once on the queue, or with exactly one worker, and its future's state says
which. It is needed since `NoSelfDeadlock` alone is not inductive: what makes it true is
that a worker which has taken a job whose callback is not attached yet still stands before
`RunJobStart`, waiting for the lock the submitting thread holds (`HandlersPlaced`), hence
no job ends before its callback is attached. `Core` is inductive by itself.

`Books` is proved on top of it: `EntriesBelongToUnretiredJobs` (with `RecordsTimely`, by which a
worker that has passed the lock has marked its job's record as started), and `Registered`, which
says that for a key never accepted in the window the job in flight is the registered one
(or the one being registered, while none is) and has its record. Its delicate case is
`Done`, which clears a key's entries without looking whose they are: the job retired is in
flight, so by `Registered` it is the one whose entries are cleared. At most one job of
such a key is in flight, which gives `DeduplicationHolds`; its record is there, which
gives `FailuresKeepUrl`. `SlotsConserved` counts the holders of a slot by
`FiniteSetTheorems`. `Refinement` maps each future to its stage; starting a job needs that
fewer jobs are being worked on than there are workers, by an injection from busy jobs to
workers without the idle one.

### MirrorPipeline

`MirrorPipeline_proofs` proves, for any processes, readers, refs, batch size, attempts and changes
upstream with

    PipelineAssumption: Refs is a finite set of numbers, SafeRefs a subset with Head in it,
    BatchSize, Attempts and MaxChange are positive, Readme is no number, Nobody no process

all safety properties of the `pipeline` run:

| Theorem | Establishes |
|---|---|
| `Invariant` | the inductive invariant `PipelineInv` |
| `TypeCorrect` | `TypeOK` |
| `SuccessIsMirrored` | `SuccessMeansMirrored` |
| `FailuresHaveReasons` | `FailsOnlyWithReason` |
| `FreshIsServable` | `FreshMeansServable` |
| `NoEarlyProject` | `NoProjectWithoutLocalMirror` |
| `OnlyPrunes` | `RefreshOnlyPrunes` |
| `Implements` | `ImplementsServedMirror` |

None of them is inductive alone. `LockHeld` says that a process is inside the lock exactly while
the flock is its own, hence that what one process finds in the directory is not changed
under it; `DiskPlaced` says what that is at each step, so that a process which looks for refs or
creates the project has a mirror with refs before it. `AttemptsCounted` ties the retries to the faults
met, for `FailsOnlyWithReason`. `FetchedSince` dates the last complete fetch after the
job's start, and `PushedSoFar` says that every ref no longer on the job's list is on GitLab as
it is on disk: at the end of the list the two make `SuccessMeansMirrored`. They survive a kill because
they speak of the holder of the lock only, and the next holder starts over.

For the refinement `ValuesOrdered` is what counts: each ref's value on GitLab is one the
upstream had, and no newer than the local one, which is no newer than the upstream's. A push
of any subset of a batch then moves refs forward only. `Implements` goes through the actions: `Push` and `PushFails` are
`RefsMove` or a stutter (`PushedMoves`), `EnsureProject` and its failure `ProjectAppears` or a stutter,
`UpstreamChanges` is `UpstreamMoves`, and all that happens on disk stutters.

### Gateway

`Gateway_proofs` proves, for any finite set of clients, any refs and number of changes with

    GatewayAssumption: Clients is finite, SafeRefs is a subset of Refs, DefaultRef one of Refs,
    MaxChange is positive, Readme is no number, Nowhere is no target

| Theorem | Establishes |
|---|---|
| `Invariant` | the inductive invariant `GatewayInv` |
| `TypeCorrect` | `TypeOK` |
| `ReadyWhenServed` | `GitLabOnlyWhenPopulated` |
| `AnswersWhole` | `AnswersAreWhole` |
| `FailuresExplained` | `FetchFailsOnlyWithReason` |
| `CountersTrue` | `CountersAgree` |

The run has one client; the theorems have many, which share the mirror, the stamp and the counters.
`GatewayInv` is a statement about the mirror (`MirrorPlaced`) and one about each client
(`ClientOK`), so a step of one client leaves the others' alone, and only a step of the mirror moves
what all of them stand on. `MirrorKeeps` takes the latter from `ServedMirror`: whatever is ready stays
ready (`ReadyStays`), and what a server once advertised it still has (`AdvertisedStays`). That is why a
fetch whose requests go to one target cannot fail; `Explained` carries this to its end together with
what is on the wire (`WirePlaced`, `AnswerWhole`), since a client's failure is read off the answer.

`CountersAgree` compares totals with requests, hence needs the requests that are still running:
`CountersInv` adds them as cardinalities of sets of clients, and each step is shown to be
balanced (`Balanced`), for the one client it moves from one set to another.

### DefaultBranch

`DefaultBranch_proofs` assumes `BranchAssumption` alone: the disposable branch is no branch of
the repository, and the order of preference ranks no two names alike. The set of branches may
even be infinite; that a best name exists (`Least`) is then the well-foundedness of
the naturals.

| Theorem | Establishes |
|---|---|
| `TypeCorrect` | `TypeOK` |
| `RepairedIsCloneable` | `RepairedMeansCloneable` |
| `ValidDefaultKept` | `DefaultKeptUnlessOverlap` |
| `CountedIsSettled` | `CountedMeansSettled` |
| `TempGoesAway` | `TempOnlyAfterDisturbance` |

These are all the properties of the `default_branch` run, for any number of repairers. Two
layers again. `Core` holds however repairs overlap: with the types, `Heads` says that the
advertised HEAD exists if there is one, is the disposable branch only while that is the
default (so that deleting it, which GitLab refuses for the default, takes no HEAD away), and
is never lost again. That is why comparing HEAD with the name of *some* branch, listed long
before, suffices for `RepairedMeansCloneable`. `Alone` is what an undisturbed repair can
count on while `overlapped` is false: at most one is at work (`Solo`), so what it read or
wrote still holds (`ReadsHold`); it wants the default branch it found (`Kept`); and the
disposable branch is there only inside the toggle of the one who made it (`Tidy`). The
properties need all of it together: that a valid default is kept rests on the read still
being true, and that the disposable branch goes away on its never being listed nor wanted.

### GitLabNamespace

`GitLabNamespace_proofs` and `GitLabTree_proofs` assume `NamespaceAssumption`, for any jobs and any
tree of groups. It says what a path is: groups are named by their full path, so a group has the
same groups above it wherever it occurs; the configured root group is on top of all; groups are
those on some path; groups and projects are finitely many and different things.

| Theorem | Module | Establishes |
|---|---|---|
| `StrictIsStrict` | `GitLabNamespace_proofs` | `StrictMeansDesired` |
| `FailuresHaveReasons` | `GitLabNamespace_proofs` | `FailsOnlyWithReason` |
| `TypeCorrect` | `GitLabTree_proofs` | `TypeOK` |
| `SettlesOnlyWhereRefused` | `GitLabTree_proofs` | `FallbackOnlyWhereRefused` |
| `WalkIsComplete` | `GitLabTree_proofs` | `EnforcedMeansDesired` |
| `RaisingSkipsNothing` | `GitLabTree_proofs` | `RaisingIsNeverSkipped` |

These are all the properties of the `namespace` run. For single jobs the invariant `Inv` adds
`Reasons`: a job on its way to the re-check has a reason to fail or its project exists. It is kept
because every step of every process is `Upward`: a project is never taken away, nor moved
from the configured level, since it is created only where there is none and set to that level only.

That nothing is more visible than *any* group above it (`WellPlaced`, part of `TypeOK`) needs more than
the types: GitLab compares with the group next above and with the content next below, so a step is
right only if the whole tree was, and a job that goes down its path must know that the groups
it has passed exist (`Placed`). `TreeInv` joins the two with what the walk's agenda is worth:

- `Covered`: whatever was there when the walk began and is not at the level yet is on the agenda or
  lies within a group that is. A listed group is split into its projects and subgroups without a gap,
  because groups and projects never go away (`GroupGrows`, `ProjectGrows`) and a known one is
  still there to be listed. An empty agenda then means `EnforcedMeansDesired`.
- `Orderly`: until something is skipped the agenda goes from the top down, so that the group each of its
  calls is about lies in one at the level. `LowInv` adds that unless `lowering` nothing is above
  the level (`Below`) but perhaps the root group, made by a job that found none with a higher fallback. Whoever
  is refused below it is so because the path is taken, so its fallback makes nothing more (`Spent`).
  GitLab then has no reason to refuse a call but the level itself, which is `RaisingIsNeverSkipped`.

The walk is a list of calls, no recursion, so no induction over the tree is needed: its depth
shows only in the paths.

### UrlMap

`UrlMap_proofs` and `UrlMapNames_proofs` assume `UrlAssumption`, for any parties, hosts, repositories
and tokens; paths have any length. It says that repositories have names without a slash at either end
and without a segment that ends in `.git`, and that `Refused` and `Missing` are no mapping and no
repository.

| Theorem | Establishes |
|---|---|
| `TypeCorrect` | `TypeOK` |
| `RetriesMatch` | `RetryNamesTheSameJob` |
| `StampsTellApart` | `StampsSharedOnlyByUnderscores` |
| `ScanIsComplete` | `ScanFindsEveryMirror` |
| `OnlyTheNamedOne` | `NeverAnotherRepository` |
| `NoneLost` | `LostOnlyByItsName` |
| `OneNameOneLock` | `OneRepositoryOneLock` |

`MapInv` says what a mapping looks like: its host is a provider's, its project is the one of its key,
and if it was made from a request path, its repository has an owner and no slash at either end.
From such a repository's `remote_url` `map_remote_url` cuts off the `.git` that was put there and nothing else, which
gives `RetriesMatch`. `StampsTellApart` takes the first place where two keys with one stamp differ.
Up to there their tokens begin at the same places of the stamp (`SameBegins`), so one key has an underscore where
the other has a slash, and its next token has to stand for the second underscore that the slash became:
it is `_`, or a slash (`PartAtUnderscore`). `_strip_git_suffix` and the cut at the first `.git` look for the first or last
place of a token; that there is one is shown by the pigeonhole principle (`FirstPlace`, `LastPlace`), in
place of an induction. So is what `Collapse` returns: the ranks of the places kept are the numbers up
to their count, each taken once and in order (`Ranks`), so that it keeps the names, never keeps two
slashes in a row (`CollapseFacts`), and changes nothing a second time (`CleanStays`); `ScanIsComplete` needs no more.

`NameInv` adds what the last three theorems need: each party's mapping is the one made of its URL or path
(`Known`), what is in a project is the repository of the project's name (`Pushed`), and what was
answered was right (`Answered`). `AnswerFits` is the core: what is asked for with a mapping is the
repository of the URL. The argument follows the cut:

- without `.git` or a service in its name, a repository is cut off where its name ends, `.git` or not (`ClearCut`);
- cut at a `.git` inside a name, the rest comes back behind a `.git`, so that the server reads the whole
  name again (`CutAtDotGit`). Only a slash before that `.git` is lost, which is the exception of
  `NeverAnotherRepository`;
- cut at a service inside a name, the rest comes back behind a `.git` that was not there. A server
  then looks for a repository with a segment that ends in `.git`, which there is none of (`CutTooEarly`).
  This is where the assumption on names is needed: without it one could be given another's refs.

For `OneNameOneLock`, `Spelled` shows that the three spellings of a name collapse to the same path, and
`SingleSlashes` that without a doubled slash the key itself is that path.

### Only model-checked

- `AcceptedJobsRetire`, `JobsEnd` and `FetchesEnd`: liveness under fairness is beyond the prover.
- The six disagreements of section 3: they are counterexamples.

## 6. Not modelled

- **Configuration, helpers, scripts** (`config.py`, `util.py`, `scripts/`): no protocol logic; the
  clamps of `load_config` are the assumptions on the constants.
- **Command line**: `map`, `ensure`, `install-client`, `enforce-visibility` and
  `repair-default-branches` are parties or processes of the modules above; parsing, printing,
  `doctor`, `init-config` and the HTTP calls of `failed-jobs` and `retry-failed` are left out.
- **Request path**: headers, the bytes of a body, HEAD requests, which paths are pages. A client
  that stalls in the midst of its body holds its own handler thread and nothing else
  (server.py:326 reads without a timeout); the model takes a request as read.
- **Metrics**: byte counts, durations, exported gauges; recent records beyond the scheduler's.
- **LFS** is folded into `Finish` / `FinishFails`: the only thing it does to the rest is to
  fail a job after its refs are pushed.
- **`enforce-visibility --visibility`** (cli.py:223) with another level than the configured one: jobs
  that find a project at it set it back, so the command and the jobs undo each other and nothing
  it enforces lasts. The model's walk enforces the configured level.
- **URL mapping**: letter case, percent-encoding and queries; a path object's `.` and `..`.
- Pages of GitLab's lists: each list is one step. A group moved between pages could be missed.
- Refs deleted upstream stay on GitLab: no push deletes any. This is deliberate
  (README.md:920) and part of `ServedMirror`; the diagram at README.md:82 still says `push --mirror`.
- Disk full, corrupted repositories and clock changes; two gateways on one `workdir` over a
  file system without flock.

## 7. Plan

Done: the models of all components with their runs, and the theorems of section 5.

To do:

- `Gateway` on top of `MirrorPipeline`: the two theorems `Implements` and `Invariant` meet in
  `ServedMirror`; state their composition once the two modules can be instantiated side by side.

## 8. Running the checks

    tlc -workers 2 -config MCMirrorScheduler.cfg MCMirrorScheduler
    tlc -workers 2 -config MCMirrorPipeline.cfg MCMirrorPipeline
    tlc -workers 2 -config MCDefaultBranch.cfg MCDefaultBranch
    tlc -workers 2 -config MCGitLabNamespace.cfg MCGitLabNamespace
    tlc -workers 2 -config MCGateway.cfg MCGateway
    tlc -workers 2 -config MCUrlMap.cfg MCUrlMap
    tlapm MirrorScheduler_proofs.tla
    tlapm MirrorPipeline_proofs.tla
    tlapm Gateway_proofs.tla
    tlapm DefaultBranch_proofs.tla
    tlapm GitLabNamespace_proofs.tla
    tlapm GitLabTree_proofs.tla
    tlapm UrlMap_proofs.tla
    tlapm UrlMapNames_proofs.tla

The configurations with a suffix (`MCMirrorScheduler_Duplicates.cfg`, …) end with the
counterexample their finding describes.
