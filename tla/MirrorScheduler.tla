-------------------------- MODULE MirrorScheduler --------------------------
(***************************************************************************)
(* The background mirror scheduler (git_cache_gateway/scheduler.py) on top *)
(* of the thread pool and the futures of concurrent.futures.               *)
(*                                                                         *)
(* HTTP handler threads call submit() and retry_failed(); pool workers run *)
(* _run_job() and, once the future is finished, its _done() callback.  All *)
(* of them meet at one non-reentrant lock (self._lock).  A critical        *)
(* section that touches nothing but lock-protected state is one step taken *)
(* while the lock is free.  submit() is not: inside its critical section   *)
(* it hands the job to the executor, which workers read without the lock,  *)
(* so it is three steps and `lock` names the thread that is inside.        *)
(*                                                                         *)
(* What a mirror job does is the subject of MirrorPipeline; here           *)
(* mirror_once() returns or raises.  Left out: the reason and the          *)
(* timestamps of a record (labels of logs and metrics), and the list of    *)
(* recently completed jobs (it is only displayed).                         *)
(***************************************************************************)
EXTENDS Naturals, Sequences, FiniteSets

CONSTANTS
  Keys,          \* cache keys, provider/owner/repo
  Jobs,          \* the futures a run may create; bounds the accepted submissions
  Threads,       \* HTTP handler threads
  Workers,       \* threads of the pool, [background].mirror_workers
  MaxPending,    \* capacity of the semaphore, [background].max_pending_jobs
  RecentLimit,   \* _recent_limit
  Filters,       \* the [url, key, provider, limit] filters of retry requests
  ProviderOf,    \* the provider host of each key
  CounterBound,  \* bounds the counters of deduplicated and rejected calls
  NoJob, NoKey, NoProvider, Nobody

ASSUME ConstantsAssumption ==
  /\ IsFiniteSet(Jobs) /\ IsFiniteSet(Workers)
  /\ NoJob \notin Jobs
  /\ NoKey \notin Keys
  /\ Nobody \notin Threads
  /\ MaxPending \in Nat \ {0}      \* load_config clamps it to at least 1
  /\ RecentLimit \in Nat \ {0}
  /\ CounterBound \in Nat

VARIABLES
  lock,          \* the thread inside submit()'s critical section, or Nobody
  pending,       \* _pending: the future registered for each key
  active,        \* _active_jobs: the record kept for each key
  free,          \* value of the _capacity semaphore
  submitted, completed, failed, rejected, deduplicated,   \* the _total counters
  recentFailed,  \* _recent_failed, oldest first
  fut,           \* state of each future
  jobKey,        \* the key each future was created for
  attached,      \* futures whose _done callback has been registered
  queue,         \* the executor's FIFO work queue
  wpc, wjob,     \* where each worker is, and the job it runs
  pc, cur,       \* where each handler thread is inside submit(), and its future
  todo,          \* failures a retry_failed() call still has to resubmit
  shutdown,      \* the executor has been shut down
  overlapped     \* history: keys accepted again while the _done of their
                 \* registered, finished job was still to come

lockVars   == <<pending, active, free, submitted, completed, failed,
                rejected, deduplicated, recentFailed>>
futureVars == <<fut, jobKey, attached, queue>>
workerVars == <<wpc, wjob>>
threadVars == <<pc, cur, todo>>
vars == <<lock, lockVars, futureVars, workerVars, threadVars, shutdown, overlapped>>

-----------------------------------------------------------------------------
(* Data. *)

ActiveRecord == [of : Jobs, started : BOOLEAN]
NoRecord     == [of |-> NoJob, started |-> FALSE]

(* A failure keeps the repository's URL, or the bare cache key when _done   *)
(* no longer found the job's record.  map_remote_url accepts only the URL.  *)
FailedRecord == [key : Keys, remote : {"url", "key"}]
Remote(r)    == <<r.remote, r.key>>

(* "held": slot taken, not yet in the executor;  "ok" and "failed":         *)
(* FINISHED, _done still to come;  "retired": _done has run;                *)
(* "abandoned": the executor refused the job.                               *)
FutureStates == {"unused", "held", "pending", "running", "ok", "failed",
                 "retired", "abandoned"}
Finished(j)  == fut[j] \in {"ok", "failed", "retired"}       \* future.done()
Live         == {j \in Jobs : fut[j] \in {"pending", "running"}}
HoldsSlot    == {j \in Jobs : fut[j] \notin {"unused", "retired"}}

(* snapshot(): what /statusz and the gauges report. *)
QueuedOrRunning == Cardinality({k \in Keys : pending[k] # NoJob})
ActiveCount     == Cardinality({k \in Keys : active[k].started})

-----------------------------------------------------------------------------
(* retry_failed(): newest first, one job per remote, at most `limit` if     *)
(* it is positive.                                                          *)

Matches(f, r) ==
  /\ f.url # NoKey => r.remote = "url" /\ r.key = f.url
  /\ f.key # NoKey => r.key = f.key
  /\ f.provider # NoProvider => ProviderOf[r.key] = f.provider

Distinct(f) ==
  {i \in DOMAIN recentFailed :
     /\ Matches(f, recentFailed[i])
     /\ \A n \in DOMAIN recentFailed :
          n > i /\ Matches(f, recentFailed[n])
            => Remote(recentFailed[n]) # Remote(recentFailed[i])}

Selected(f) ==
  {i \in Distinct(f) :
     f.limit > 0 => Cardinality({n \in Distinct(f) : n > i}) < f.limit}

Nothing == [i \in {} |-> {}]

IsNewest(t, i) == \A n \in DOMAIN todo[t] : n <= i

TodoWithout(t, i) ==
  [todo EXCEPT ![t] = [n \in DOMAIN todo[t] \ {i} |-> todo[t][n]]]

-----------------------------------------------------------------------------
Init ==
  /\ lock = Nobody
  /\ pending = [k \in Keys |-> NoJob]
  /\ active = [k \in Keys |-> NoRecord]
  /\ free = MaxPending
  /\ submitted = 0 /\ completed = 0 /\ failed = 0
  /\ rejected = 0 /\ deduplicated = 0
  /\ recentFailed = << >>
  /\ fut = [j \in Jobs |-> "unused"]
  /\ jobKey = [j \in Jobs |-> NoKey]
  /\ attached = {}
  /\ queue = << >>
  /\ wpc = [w \in Workers |-> "idle"]
  /\ wjob = [w \in Workers |-> NoJob]
  /\ pc = [t \in Threads |-> "idle"]
  /\ cur = [t \in Threads |-> NoJob]
  /\ todo = [t \in Threads |-> Nothing]
  /\ shutdown = FALSE
  /\ overlapped = {}

-----------------------------------------------------------------------------
(* submit(), the part before the executor is called.  rest is what remains  *)
(* of the caller's own work once the call returns.                          *)

QueuedNotRunning(k) == pending[k] # NoJob /\ fut[pending[k]] = "pending"
AlreadyQueued(k)    == pending[k] # NoJob /\ ~Finished(pending[k])
AlreadyDone(k)      == pending[k] # NoJob /\ Finished(pending[k])

(* The semaphore's acquire(blocking=False). *)
CapacityOffByOne == free >= 0
CapacityLeft     == free > 0

Deduplicate(k, rest) ==
  /\ AlreadyQueued(k)
  /\ deduplicated < CounterBound
  /\ deduplicated' = deduplicated + 1
  /\ todo' = rest
  /\ UNCHANGED <<lock, pending, active, free, submitted, completed, failed,
                 rejected, recentFailed, futureVars, workerVars, pc, cur, shutdown, overlapped>>

Reject(k, rest) ==
  /\ ~AlreadyQueued(k)
  /\ ~CapacityLeft
  /\ rejected < CounterBound
  /\ rejected' = rejected + 1
  /\ todo' = rest
  /\ UNCHANGED <<lock, pending, active, free, submitted, completed, failed,
                 deduplicated, recentFailed, futureVars, workerVars, pc, cur, shutdown, overlapped>>

Accept(t, k, rest) ==
  /\ ~AlreadyQueued(k)
  /\ CapacityLeft
  /\ free' = free - 1
  /\ submitted' = submitted + 1
  /\ \E j \in Jobs :
       /\ fut[j] = "unused"
       /\ fut' = [fut EXCEPT ![j] = "held"]
       /\ jobKey' = [jobKey EXCEPT ![j] = k]
       /\ active' = [active EXCEPT ![k] = [of |-> j, started |-> FALSE]]
       /\ cur' = [cur EXCEPT ![t] = j]
  /\ lock' = t
  /\ pc' = [pc EXCEPT ![t] = "enqueue"]
  /\ todo' = rest
  /\ overlapped' = IF AlreadyDone(k) THEN overlapped \cup {k} ELSE overlapped
  /\ UNCHANGED <<pending, completed, failed, rejected, deduplicated, recentFailed,
                 attached, queue, workerVars, shutdown>>

Submit(t, k, rest) ==
  /\ lock = Nobody
  /\ \/ Deduplicate(k, rest)
     \/ Reject(k, rest)
     \/ Accept(t, k, rest)

(* A cache miss or a stale hit: _select_target calls submit(). *)
Request(t, k) ==
  /\ pc[t] = "idle"
  /\ DOMAIN todo[t] = {}
  /\ Submit(t, k, todo)

(* executor.submit() puts the job on the work queue ... *)
Enqueue(t) ==
  /\ pc[t] = "enqueue"
  /\ ~shutdown
  /\ queue' = Append(queue, cur[t])
  /\ fut' = [fut EXCEPT ![cur[t]] = "pending"]
  /\ pc' = [pc EXCEPT ![t] = "register"]
  /\ UNCHANGED <<lock, lockVars, jobKey, attached, workerVars, cur, todo, shutdown, overlapped>>

(* ... or raises after a shutdown: the exception leaves submit() with the   *)
(* slot taken, the job counted and its record in place.                     *)
EnqueueRefused(t) ==
  /\ pc[t] = "enqueue"
  /\ shutdown
  /\ fut' = [fut EXCEPT ![cur[t]] = "abandoned"]
  /\ pc' = [pc EXCEPT ![t] = "idle"]
  /\ cur' = [cur EXCEPT ![t] = NoJob]
  /\ lock' = Nobody
  /\ UNCHANGED <<lockVars, jobKey, attached, queue, workerVars, todo, shutdown, overlapped>>

(* Register the future and its callback, leave the critical section.        *)
(* add_done_callback() runs the callback at once, in this thread, if the    *)
(* future is finished already; _done would then wait for the lock that      *)
(* this very thread holds ("selfwait").                                     *)
Register(t) ==
  LET j == cur[t] IN
  /\ pc[t] = "register"
  /\ pending' = [pending EXCEPT ![jobKey[j]] = j]
  /\ attached' = IF Finished(j) THEN attached ELSE attached \cup {j}
  /\ lock'     = IF Finished(j) THEN lock ELSE Nobody
  /\ cur'      = IF Finished(j) THEN cur ELSE [cur EXCEPT ![t] = NoJob]
  /\ pc' = [pc EXCEPT ![t] = IF Finished(j) THEN "selfwait" ELSE "idle"]
  /\ UNCHANGED <<active, free, submitted, completed, failed, rejected, deduplicated,
                 recentFailed, fut, jobKey, queue, workerVars, todo, shutdown, overlapped>>

-----------------------------------------------------------------------------
(* retry_failed(): the candidates are copied under the lock ... *)
RetryFailed(t, f) ==
  /\ pc[t] = "idle"
  /\ DOMAIN todo[t] = {}
  /\ lock = Nobody
  /\ Selected(f) # {}
  /\ todo' = [todo EXCEPT ![t] = [i \in Selected(f) |-> recentFailed[i]]]
  /\ UNCHANGED <<lock, lockVars, futureVars, workerVars, pc, cur, shutdown, overlapped>>

(* ... and submitted one by one, each under its own lock round, with        *)
(* whatever has happened since. *)
RetryNext(t) ==
  /\ pc[t] = "idle"
  /\ \E i \in DOMAIN todo[t] :
       /\ IsNewest(t, i)
       /\ todo[t][i].remote = "url"
       /\ Submit(t, todo[t][i].key, TodoWithout(t, i))

(* map_remote_url() raises for a bare key: counted as not submitted. *)
RetryUnmappable(t) ==
  /\ pc[t] = "idle"
  /\ \E i \in DOMAIN todo[t] :
       /\ IsNewest(t, i)
       /\ todo[t][i].remote = "key"
       /\ todo' = TodoWithout(t, i)
  /\ UNCHANGED <<lock, lockVars, futureVars, workerVars, pc, cur, shutdown, overlapped>>

-----------------------------------------------------------------------------
(* A pool worker takes the oldest work item and marks its future running. *)
Take(w) ==
  /\ wpc[w] = "idle"
  /\ queue # << >>
  /\ queue' = Tail(queue)
  /\ fut' = [fut EXCEPT ![Head(queue)] = "running"]
  /\ wpc' = [wpc EXCEPT ![w] = "start"]
  /\ wjob' = [wjob EXCEPT ![w] = Head(queue)]
  /\ UNCHANGED <<lock, lockVars, jobKey, attached, threadVars, shutdown, overlapped>>

(* _run_job() first records, under the lock, that the job has started. *)
StartsUnlocked(w) == wpc[w] = "start"
MayStart(w) == wpc[w] = "start" /\ lock = Nobody

RunJobStart(w) ==
  /\ MayStart(w)
  /\ active' = [active EXCEPT ![jobKey[wjob[w]]] = [of |-> wjob[w], started |-> TRUE]]
  /\ wpc' = [wpc EXCEPT ![w] = "mirror"]
  /\ UNCHANGED <<lock, pending, free, submitted, completed, failed, rejected,
                 deduplicated, recentFailed, futureVars, wjob, threadVars, shutdown, overlapped>>

(* mirror_once() returns or raises: the future is finished, without the     *)
(* scheduler's lock.  The callbacks registered by then are called next.     *)
RunJobEnd(w) ==
  /\ wpc[w] = "mirror"
  /\ \E outcome \in {"ok", "failed"} : fut' = [fut EXCEPT ![wjob[w]] = outcome]
  /\ wpc' = [wpc EXCEPT ![w] = IF wjob[w] \in attached THEN "callback" ELSE "idle"]
  /\ wjob' = [wjob EXCEPT ![w] = IF wjob[w] \in attached THEN wjob[w] ELSE NoJob]
  /\ UNCHANGED <<lock, lockVars, jobKey, attached, queue, threadVars, shutdown, overlapped>>

LastOf(s) == IF Len(s) <= RecentLimit THEN s
             ELSE SubSeq(s, Len(s) - RecentLimit + 1, Len(s))

SlotBackOnSuccess(j) == IF fut[j] = "ok" THEN free + 1 ELSE free
SlotBack(j) == free + 1

KeepFailedRecord(j) == IF fut[j] = "ok" THEN NoRecord ELSE active[jobKey[j]]
ForgetRecord(j) == NoRecord

(* _done(): forget the key, whoever is registered for it now, give the slot *)
(* back, and keep the outcome.                                              *)
Done(w) ==
  LET j == wjob[w]
      k == jobKey[j]
      record == [key |-> k, remote |-> IF active[k] = NoRecord THEN "key" ELSE "url"]
  IN
  /\ wpc[w] = "callback"
  /\ lock = Nobody
  /\ active' = [active EXCEPT ![k] = ForgetRecord(j)]
  /\ pending' = [pending EXCEPT ![k] = NoJob]
  /\ free' = SlotBack(j)
  /\ completed' = IF fut[j] = "ok" THEN completed + 1 ELSE completed
  /\ failed' = IF fut[j] = "ok" THEN failed ELSE failed + 1
  /\ recentFailed' = IF fut[j] = "ok" THEN recentFailed
                     ELSE LastOf(Append(recentFailed, record))
  /\ fut' = [fut EXCEPT ![j] = "retired"]
  /\ wpc' = [wpc EXCEPT ![w] = "idle"]
  /\ wjob' = [wjob EXCEPT ![w] = NoJob]
  /\ UNCHANGED <<lock, submitted, rejected, deduplicated, jobKey, attached, queue,
                 threadVars, shutdown, overlapped>>

(* The server stops: no new work items, but the queue is drained. *)
Shutdown ==
  /\ ~shutdown
  /\ shutdown' = TRUE
  /\ UNCHANGED <<lock, lockVars, futureVars, workerVars, threadVars, overlapped>>

-----------------------------------------------------------------------------
Next ==
  \/ \E t \in Threads, k \in Keys : Request(t, k)
  \/ \E t \in Threads : Enqueue(t)
  \/ \E t \in Threads : EnqueueRefused(t)
  \/ \E t \in Threads : Register(t)
  \/ \E t \in Threads, f \in Filters : RetryFailed(t, f)
  \/ \E t \in Threads : RetryNext(t)
  \/ \E t \in Threads : RetryUnmappable(t)
  \/ \E w \in Workers : Take(w)
  \/ \E w \in Workers : RunJobStart(w)
  \/ \E w \in Workers : RunJobEnd(w)
  \/ \E w \in Workers : Done(w)
  \/ Shutdown

Spec == Init /\ [][Next]_vars

(* A thread inside submit() and the workers keep running; RunJobEnd assumes *)
(* that mirror_once() comes back.  No request has to arrive.                *)
Fairness ==
  /\ \A t \in Threads : WF_vars(Enqueue(t) \/ EnqueueRefused(t) \/ Register(t))
  /\ \A w \in Workers : WF_vars(Take(w) \/ RunJobStart(w) \/ RunJobEnd(w) \/ Done(w))

FairSpec == Spec /\ Fairness

-----------------------------------------------------------------------------
(* Properties. *)

IsTodo(d) ==
  /\ DOMAIN d = Threads
  /\ \A t \in Threads : /\ DOMAIN d[t] \subseteq 1 .. RecentLimit
                         /\ \A i \in DOMAIN d[t] : d[t][i] \in FailedRecord

(* The values the state of the scheduler, its futures and its threads can   *)
(* take.                                                                    *)
TypeOK ==
  /\ lock \in Threads \cup {Nobody}
  /\ pending \in [Keys -> Jobs \cup {NoJob}]
  /\ active \in [Keys -> ActiveRecord \cup {NoRecord}]
  /\ free \in Nat
  /\ submitted \in Nat /\ completed \in Nat /\ failed \in Nat
  /\ rejected \in Nat /\ deduplicated \in Nat
  /\ recentFailed \in Seq(FailedRecord)
  /\ Len(recentFailed) <= RecentLimit
  /\ fut \in [Jobs -> FutureStates]
  /\ jobKey \in [Jobs -> Keys \cup {NoKey}]
  /\ attached \subseteq Jobs
  /\ queue \in Seq(Jobs)
  /\ wpc \in [Workers -> {"idle", "start", "mirror", "callback"}]
  /\ wjob \in [Workers -> Jobs \cup {NoJob}]
  /\ pc \in [Threads -> {"idle", "enqueue", "register", "selfwait"}]
  /\ cur \in [Threads -> Jobs \cup {NoJob}]
  /\ IsTodo(todo)
  /\ shutdown \in BOOLEAN
  /\ overlapped \subseteq Keys

(* submit() attaches _done while it holds the non-reentrant lock; were the  *)
(* future finished by then, _done would run right there and wait for ever.  *)
(* It cannot be: _run_job needs the same lock before it does anything.      *)
NoSelfDeadlock == \A t \in Threads : pc[t] # "selfwait"

(* Every slot of the semaphore is either free or held by one job between    *)
(* its acceptance and its _done, so that release() never raises inside      *)
(* _done, and the totals of /statusz account for every job ever accepted.   *)
(* A job the executor refused keeps its slot and its place in the total.    *)
SlotsAccounted ==
  /\ free + Cardinality(HoldsSlot) = MaxPending
  /\ submitted = completed + failed + Cardinality(HoldsSlot)

(* What a job can be whose record is shown by /statusz.  A job the executor *)
(* refused has no _done: its record stays, as that of a job that waits.     *)
ShownAs(r) ==
  IF r.started THEN {"running", "ok", "failed"}
  ELSE {"held", "pending", "running"} \cup IF shutdown THEN {"abandoned"} ELSE {}

(* What _pending holds for a key is a job of that key whose _done is still  *)
(* to come, so no key stays blocked, and so is what _active_jobs holds, but *)
(* for one ghost: the record of a job the executor refused, which takes a   *)
(* shutdown.  A record says started once _run_job has passed the lock.  All *)
(* this although _done and _run_job go by key, whoever's entry is there.    *)
EntriesBelongToUnretiredJobs ==
  \A k \in Keys :
    /\ pending[k] # NoJob =>
         jobKey[pending[k]] = k /\ fut[pending[k]] \in {"pending", "running", "ok", "failed"}
    /\ active[k] # NoRecord =>
         jobKey[active[k].of] = k /\ fut[active[k].of] \in ShownAs(active[k])

(* submit() deduplicates, except for a key it accepted again in the window  *)
(* between the end of a job and its _done: only from then on can two jobs   *)
(* of the key be in flight together.                                        *)
DuplicatesOnlyAfterOverlap ==
  \A i, j \in Live :
    i # j /\ jobKey[i] = jobKey[j] => jobKey[i] \in overlapped

(* A failure is filed with its repository's URL, which a retry needs,       *)
(* unless the key went through that same window.                            *)
BareFailuresOnlyAfterOverlap ==
  \A i \in DOMAIN recentFailed :
    recentFailed[i].remote = "key" => recentFailed[i].key \in overlapped

(* The scheduler admits at most MaxPending jobs, runs at most one per pool  *)
(* worker, each at most once, and retires it once: it implements            *)
(* BoundedJobs, a job seen from outside being in one of six stages.         *)
Stage(s) ==
  CASE s = "unused"            -> "new"
    [] s \in {"held", "pending"} -> "waiting"
    [] s = "running"           -> "running"
    [] s \in {"ok", "failed"}  -> "finished"
    [] s = "retired"           -> "retired"
    [] s = "abandoned"         -> "lost"

Abstract == INSTANCE BoundedJobs
  WITH Capacity <- MaxPending, Width <- Cardinality(Workers),
       stage <- [j \in Jobs |-> Stage(fut[j])]

ImplementsBoundedJobs == Abstract!Spec

(* Every job the executor accepted is eventually retired: its slot comes    *)
(* back, its outcome is recorded and its key can be submitted again.        *)
AcceptedJobsRetire == \A j \in Jobs : fut[j] = "pending" ~> fut[j] = "retired"

(* What README.md:842 says: no two jobs of one repository are queued or     *)
(* running together.                                                        *)
NoDuplicateLiveJobs == \A i, j \in Live : i # j => jobKey[i] # jobKey[j]

=============================================================================
