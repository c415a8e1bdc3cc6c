----------------------- MODULE MirrorScheduler_proofs -----------------------
(***************************************************************************)
(* Proofs of the invariants of MirrorScheduler, for any sets of keys, jobs,*)
(* threads and workers and any capacity.                                   *)
(***************************************************************************)
EXTENDS MirrorScheduler, FiniteSetTheorems, SequenceTheorems, TLAPS

(* Where an accepted job is: with the thread inside submit(), on the queue, *)
(* or with one worker.  The thread that has enqueued a job but not yet      *)
(* registered its callback still holds the lock, so the worker that may     *)
(* have taken the job is stopped in front of it.                            *)
HandlersPlaced ==
  \A t \in Threads :
    /\ lock = t <=> pc[t] # "idle"
    /\ pc[t] \in {"idle", "enqueue", "register"}
    /\ pc[t] = "enqueue" => cur[t] \in Jobs /\ fut[cur[t]] = "held"
    /\ pc[t] = "register" =>
         /\ cur[t] \in Jobs
         /\ fut[cur[t]] \in {"pending", "running"}
         /\ \A w \in Workers : wjob[w] = cur[t] => wpc[w] = "start"

QueuePlaced ==
  /\ \A n \in 1 .. Len(queue) : fut[queue[n]] = "pending"
  /\ \A m, n \in 1 .. Len(queue) : queue[m] = queue[n] => m = n

WorkersPlaced ==
  /\ \A w \in Workers :
       /\ wpc[w] # "idle" => wjob[w] \in Jobs
       /\ wpc[w] = "idle" => wjob[w] = NoJob
       /\ wpc[w] \in {"start", "mirror"} => fut[wjob[w]] = "running"
       /\ wpc[w] = "callback" => fut[wjob[w]] \in {"ok", "failed"}
  /\ \A v, w \in Workers : v # w /\ wjob[v] = wjob[w] => wjob[v] = NoJob

JobsPlaced ==
  \A j \in Jobs :
    /\ fut[j] # "unused" => jobKey[j] \in Keys
    /\ fut[j] = "held" => \E t \in Threads : pc[t] = "enqueue" /\ cur[t] = j
    /\ fut[j] \in {"pending", "running"} =>
         j \in attached \/ \E t \in Threads : pc[t] = "register" /\ cur[t] = j
    /\ fut[j] \in {"running", "ok", "failed"} => \E w \in Workers : wjob[w] = j

Placement == HandlersPlaced /\ QueuePlaced /\ WorkersPlaced /\ JobsPlaced

(* The jobs of a key the scheduler still has to see finished. *)
InFlight(j) == fut[j] \in {"held", "pending", "running", "ok", "failed"}

(* As long as a key was never accepted in the window, the job in flight for *)
(* it is the registered one, or the one being submitted while none is       *)
(* registered; and its record is there.                                     *)
Registered ==
  \A k \in Keys \ overlapped : \A j \in Jobs :
    InFlight(j) /\ jobKey[j] = k =>
      /\ active[k] # NoRecord
      /\ \/ pending[k] = j
         \/ pending[k] = NoJob /\ \E t \in Threads : pc[t] # "idle" /\ cur[t] = j

-----------------------------------------------------------------------------
(* Type correctness and placement, action by action. *)

Core == TypeOK /\ Placement

(* At the start nobody holds the lock and no job is anywhere. *)
LEMMA InitCore == Init => Core
  <1> SUFFICES ASSUME Init PROVE Core
    OBVIOUS
  <1> USE ConstantsAssumption DEF Init
  <1>1. TypeOK
    <2>1. recentFailed \in Seq(FailedRecord) /\ Len(recentFailed) <= RecentLimit
      OBVIOUS
    <2>2. IsTodo(todo)
      BY DEF IsTodo, Nothing
    <2>3. /\ active \in [Keys -> ActiveRecord \cup {NoRecord}]
          /\ fut \in [Jobs -> FutureStates]
      BY DEF FutureStates
    <2>4. free \in Nat
      OBVIOUS
    <2>5. queue \in Seq(Jobs)
      OBVIOUS
    <2>6. attached \subseteq Jobs /\ overlapped \subseteq Keys
      OBVIOUS
    <2> QED
      BY <2>1, <2>2, <2>3, <2>4, <2>5, <2>6 DEF TypeOK
  <1>2. Placement
    BY DEF Placement, HandlersPlaced, QueuePlaced, WorkersPlaced, JobsPlaced
  <1> QED
    BY <1>1, <1>2 DEF Core

(* An accepted job is placed with the thread that takes the lock; a         *)
(* deduplicated or rejected call moves no job.                              *)
LEMMA SubmitCore ==
  ASSUME Core, NEW t \in Threads, NEW k \in Keys, NEW rest, IsTodo(rest),
         pc[t] = "idle", Submit(t, k, rest)
  PROVE  Core'
  <1> USE ConstantsAssumption
  <1>1. CASE Deduplicate(k, rest)
    <2>1. TypeOK'
      BY <1>1 DEF Core, TypeOK, Deduplicate, futureVars, workerVars
    <2>2. Placement'
      BY <1>1 DEF Core, Placement, HandlersPlaced, QueuePlaced, WorkersPlaced, JobsPlaced,
                  Deduplicate, futureVars, workerVars
    <2> QED
      BY <2>1, <2>2 DEF Core
  <1>2. CASE Reject(k, rest)
    <2>1. TypeOK'
      BY <1>2 DEF Core, TypeOK, Reject, futureVars, workerVars
    <2>2. Placement'
      BY <1>2 DEF Core, Placement, HandlersPlaced, QueuePlaced, WorkersPlaced, JobsPlaced,
                  Reject, futureVars, workerVars
    <2> QED
      BY <2>1, <2>2 DEF Core
  <1>3. CASE Accept(t, k, rest)
    <2>1. PICK j \in Jobs :
            /\ fut[j] = "unused"
            /\ fut' = [fut EXCEPT ![j] = "held"]
            /\ jobKey' = [jobKey EXCEPT ![j] = k]
            /\ active' = [active EXCEPT ![k] = [of |-> j, started |-> FALSE]]
            /\ cur' = [cur EXCEPT ![t] = j]
      BY <1>3 DEF Accept
    <2>2. /\ lock = Nobody /\ lock' = t
          /\ pc' = [pc EXCEPT ![t] = "enqueue"]
          /\ UNCHANGED <<attached, queue, wpc, wjob>>
      BY <1>3 DEF Submit, Accept, workerVars
    <2>3. TypeOK'
      <3>1. active' \in [Keys -> ActiveRecord \cup {NoRecord}]
        BY <2>1 DEF Core, TypeOK, ActiveRecord
      <3>2. free' \in Nat /\ submitted' \in Nat
        BY <1>3 DEF Core, TypeOK, Accept, CapacityLeft
      <3>3. overlapped' \subseteq Keys
        BY <1>3 DEF Core, TypeOK, Accept
      <3> QED
        BY <1>3, <2>1, <2>2, <3>1, <3>2, <3>3 DEF Core, TypeOK, Accept, FutureStates
    <2>4. HandlersPlaced'
      BY <2>1, <2>2 DEF Core, TypeOK, Placement, HandlersPlaced
    <2>5. QueuePlaced'
      BY <2>1, <2>2 DEF Core, TypeOK, Placement, QueuePlaced
    <2>6. WorkersPlaced'
      BY <2>1, <2>2 DEF Core, TypeOK, Placement, WorkersPlaced
    <2>7. JobsPlaced'
      BY <2>1, <2>2 DEF Core, TypeOK, Placement, JobsPlaced, HandlersPlaced
    <2> QED
      BY <2>3, <2>4, <2>5, <2>6, <2>7 DEF Core, Placement
  <1> QED
    BY <1>1, <1>2, <1>3 DEF Submit

(* The recent list stays within its limit and keeps only what was in it. *)
LEMMA LastOfBounded ==
  ASSUME NEW s \in Seq(FailedRecord)
  PROVE  LastOf(s) \in Seq(FailedRecord) /\ Len(LastOf(s)) <= RecentLimit
  <1> USE ConstantsAssumption
  <1>1. CASE Len(s) <= RecentLimit
    BY <1>1 DEF LastOf
  <1>2. CASE Len(s) > RecentLimit
    <2>1. LastOf(s) = SubSeq(s, Len(s) - RecentLimit + 1, Len(s))
      BY <1>2, LenProperties DEF LastOf
    <2>2. Len(s) - RecentLimit + 1 \in 1 .. Len(s) + 1 /\ Len(s) \in Nat
      BY <1>2, LenProperties
    <2> QED
      BY <2>1, <2>2, SubSeqProperties
  <1> QED
    BY <1>1, <1>2, LenProperties

(* The job goes from its thread to the end of the queue, where it is new. *)
LEMMA EnqueueCore ==
  ASSUME Core, NEW t \in Threads, Enqueue(t)
  PROVE  Core'
  <1> USE ConstantsAssumption DEF Enqueue, lockVars, futureVars, workerVars, threadVars
  <1>0. cur[t] \in Jobs /\ fut[cur[t]] = "held" /\ lock = t
    BY DEF Core, Placement, HandlersPlaced
  <1>1. TypeOK'
    <2>1. queue' \in Seq(Jobs)
      BY <1>0, AppendProperties DEF Core, TypeOK
    <2> QED
      BY <1>0, <2>1 DEF Core, TypeOK, FutureStates
  <1>2. HandlersPlaced'
    <2>1. \A w \in Workers : wjob[w] # cur[t]
      BY <1>0 DEF Core, TypeOK, Placement, WorkersPlaced
    <2>2. /\ fut' = [fut EXCEPT ![cur[t]] = "pending"]
          /\ pc' = [pc EXCEPT ![t] = "register"]
          /\ UNCHANGED <<lock, cur, wpc, wjob>>
      OBVIOUS
    <2> HIDE DEF Enqueue
    <2> QED
      BY <1>0, <2>1, <2>2 DEF Core, TypeOK, Placement, HandlersPlaced
  <1>3. QueuePlaced'
    BY DEF Core, TypeOK, Placement, HandlersPlaced, QueuePlaced, WorkersPlaced
  <1>4. WorkersPlaced'
    BY DEF Core, TypeOK, Placement, HandlersPlaced, WorkersPlaced, QueuePlaced
  <1>5. JobsPlaced'
    BY DEF Core, TypeOK, Placement, HandlersPlaced, WorkersPlaced, JobsPlaced
  <1> QED
    BY <1>1, <1>2, <1>3, <1>4, <1>5 DEF Core, Placement

(* The thread gives up its job and the lock together. *)
LEMMA EnqueueRefusedCore ==
  ASSUME Core, NEW t \in Threads, EnqueueRefused(t)
  PROVE  Core'
  <1> USE ConstantsAssumption DEF EnqueueRefused, lockVars, futureVars, workerVars, threadVars
  <1>1. TypeOK'
    BY DEF Core, TypeOK, FutureStates
  <1>2. HandlersPlaced'
    BY DEF Core, TypeOK, Placement, HandlersPlaced, WorkersPlaced, QueuePlaced
  <1>3. QueuePlaced'
    BY DEF Core, TypeOK, Placement, HandlersPlaced, QueuePlaced, WorkersPlaced
  <1>4. WorkersPlaced'
    BY DEF Core, TypeOK, Placement, HandlersPlaced, WorkersPlaced, QueuePlaced
  <1>5. JobsPlaced'
    BY DEF Core, TypeOK, Placement, HandlersPlaced, WorkersPlaced, JobsPlaced
  <1> QED
    BY <1>1, <1>2, <1>3, <1>4, <1>5 DEF Core, Placement

(* The future is not finished yet, so the callback is attached and the      *)
(* lock is given up.                                                        *)
LEMMA RegisterCore ==
  ASSUME Core, NEW t \in Threads, Register(t)
  PROVE  Core'
  <1> USE ConstantsAssumption DEF Register, Finished, lockVars, futureVars, workerVars, threadVars
  <1>1. TypeOK'
    BY DEF Core, TypeOK, FutureStates, Placement, HandlersPlaced, JobsPlaced
  <1>2. HandlersPlaced'
    BY DEF Core, TypeOK, Placement, HandlersPlaced, WorkersPlaced, QueuePlaced
  <1>3. QueuePlaced'
    BY DEF Core, TypeOK, Placement, HandlersPlaced, QueuePlaced, WorkersPlaced
  <1>4. WorkersPlaced'
    BY DEF Core, TypeOK, Placement, HandlersPlaced, WorkersPlaced, QueuePlaced
  <1>5. JobsPlaced'
    BY DEF Core, TypeOK, Placement, HandlersPlaced, WorkersPlaced, JobsPlaced
  <1> QED
    BY <1>1, <1>2, <1>3, <1>4, <1>5 DEF Core, Placement

(* The head of the queue is a pending job that the tail does not hold. *)
LEMMA HeadOfQueue ==
  ASSUME TypeOK, QueuePlaced, queue # << >>
  PROVE  Head(queue) \in Jobs /\ fut[Head(queue)] = "pending"
  <1>1. Head(queue) \in Jobs /\ Head(queue) = queue[1] /\ 1 \in 1 .. Len(queue)
    BY HeadTailProperties, EmptySeq DEF TypeOK
  <1> QED
    BY <1>1 DEF QueuePlaced

(* The job goes from the queue to a worker that had none. *)
LEMMA TakeCore ==
  ASSUME Core, NEW w \in Workers, Take(w)
  PROVE  Core'
  <1> USE ConstantsAssumption DEF Take, lockVars, futureVars, workerVars, threadVars
  <1>0. /\ Head(queue) \in Jobs /\ Head(queue) = queue[1] /\ 1 \in 1 .. Len(queue)
        /\ queue' \in Seq(Jobs) /\ Len(queue') = Len(queue) - 1 /\ Len(queue) \in Nat
        /\ \A n \in 1 .. Len(queue') : queue'[n] = queue[n + 1]
    BY HeadTailProperties, LenProperties, EmptySeq DEF Core, TypeOK
  <1>a. fut[Head(queue)] = "pending"
    BY <1>0 DEF Core, Placement, QueuePlaced
  <1>1. TypeOK'
    BY <1>0 DEF Core, TypeOK, FutureStates
  <1>2. HandlersPlaced'
    BY <1>0, <1>a DEF Core, TypeOK, Placement, HandlersPlaced, WorkersPlaced, QueuePlaced
  <1>3. QueuePlaced'
    BY <1>0, <1>a DEF Core, TypeOK, Placement, HandlersPlaced, QueuePlaced, WorkersPlaced
  <1>4. WorkersPlaced'
    BY <1>0, <1>a DEF Core, TypeOK, Placement, HandlersPlaced, WorkersPlaced, QueuePlaced
  <1>5. JobsPlaced'
    BY <1>0, <1>a DEF Core, TypeOK, Placement, HandlersPlaced, WorkersPlaced, JobsPlaced
  <1> QED
    BY <1>1, <1>2, <1>3, <1>4, <1>5 DEF Core, Placement

(* The worker passes the lock, so its job's callback is attached by now. *)
LEMMA RunJobStartCore ==
  ASSUME Core, NEW w \in Workers, RunJobStart(w)
  PROVE  Core'
  <1> USE ConstantsAssumption DEF RunJobStart, MayStart, lockVars, futureVars, workerVars, threadVars
  <1>1. TypeOK'
    <2>1. wjob[w] \in Jobs
      BY DEF Core, Placement, WorkersPlaced
    <2>2. active' \in [Keys -> ActiveRecord \cup {NoRecord}]
      BY <2>1 DEF Core, TypeOK, ActiveRecord
    <2> QED
      BY <2>2 DEF Core, TypeOK
  <1>2. HandlersPlaced'
    BY DEF Core, TypeOK, Placement, HandlersPlaced, WorkersPlaced, QueuePlaced
  <1>3. QueuePlaced'
    BY DEF Core, TypeOK, Placement, HandlersPlaced, QueuePlaced, WorkersPlaced
  <1>4. WorkersPlaced'
    BY DEF Core, TypeOK, Placement, HandlersPlaced, WorkersPlaced, QueuePlaced
  <1>5. JobsPlaced'
    BY DEF Core, TypeOK, Placement, HandlersPlaced, WorkersPlaced, JobsPlaced
  <1> QED
    BY <1>1, <1>2, <1>3, <1>4, <1>5 DEF Core, Placement

(* The job that ends has its callback attached, so the worker runs it       *)
(* next.                                                                    *)
LEMMA RunJobEndCore ==
  ASSUME Core, NEW w \in Workers, RunJobEnd(w)
  PROVE  Core'
  <1> USE ConstantsAssumption DEF RunJobEnd, lockVars, futureVars, workerVars, threadVars
  <1>1. TypeOK'
    BY DEF Core, TypeOK, FutureStates, Placement, WorkersPlaced
  <1>2. HandlersPlaced'
    BY DEF Core, TypeOK, Placement, HandlersPlaced, WorkersPlaced, QueuePlaced
  <1>3. QueuePlaced'
    BY DEF Core, TypeOK, Placement, HandlersPlaced, QueuePlaced, WorkersPlaced
  <1>4. WorkersPlaced'
    BY DEF Core, TypeOK, Placement, HandlersPlaced, WorkersPlaced, QueuePlaced
  <1>5. JobsPlaced'
    BY DEF Core, TypeOK, Placement, HandlersPlaced, WorkersPlaced, JobsPlaced
  <1> QED
    BY <1>1, <1>2, <1>3, <1>4, <1>5 DEF Core, Placement

(* The callback retires the job of its worker and of no other. *)
LEMMA DoneCore ==
  ASSUME Core, NEW w \in Workers, Done(w)
  PROVE  Core'
  <1> USE ConstantsAssumption DEF Done, lockVars, futureVars, workerVars, threadVars
  <1>0. wjob[w] \in Jobs /\ jobKey[wjob[w]] \in Keys
    BY DEF Core, Placement, WorkersPlaced, JobsPlaced
  <1>1. TypeOK'
    <2>1. recentFailed' \in Seq(FailedRecord) /\ Len(recentFailed') <= RecentLimit
      <3> DEFINE r == [key |-> jobKey[wjob[w]],
                       remote |-> IF active[jobKey[wjob[w]]] = NoRecord THEN "key" ELSE "url"]
      <3>1. r \in FailedRecord
        BY <1>0 DEF FailedRecord
      <3>2. CASE fut[wjob[w]] = "ok"
        BY <3>2 DEF Core, TypeOK
      <3>3. CASE fut[wjob[w]] # "ok"
        <4>1. recentFailed' = LastOf(Append(recentFailed, r))
          BY <3>3
        <4>2. Append(recentFailed, r) \in Seq(FailedRecord)
          BY <3>1, AppendProperties DEF Core, TypeOK
        <4> QED
          BY <4>1, <4>2, LastOfBounded
      <3> QED
        BY <3>2, <3>3
    <2>2. free' \in Nat /\ completed' \in Nat /\ failed' \in Nat
      BY DEF Core, TypeOK, SlotBack
    <2>3. active' \in [Keys -> ActiveRecord \cup {NoRecord}]
      BY DEF Core, TypeOK, ForgetRecord
    <2> QED
      BY <1>0, <2>1, <2>2, <2>3 DEF Core, TypeOK, FutureStates
  <1>2. HandlersPlaced'
    BY DEF Core, TypeOK, Placement, HandlersPlaced, WorkersPlaced, QueuePlaced
  <1>3. QueuePlaced'
    BY DEF Core, TypeOK, Placement, HandlersPlaced, QueuePlaced, WorkersPlaced
  <1>4. WorkersPlaced'
    BY DEF Core, TypeOK, Placement, HandlersPlaced, WorkersPlaced, QueuePlaced
  <1>5. JobsPlaced'
    BY DEF Core, TypeOK, Placement, HandlersPlaced, WorkersPlaced, JobsPlaced
  <1> QED
    BY <1>1, <1>2, <1>3, <1>4, <1>5 DEF Core, Placement

(* The candidates of a retry are a copy of entries of the recent list. *)
LEMMA RetryFailedCore ==
  ASSUME Core, NEW t \in Threads, NEW f \in Filters, RetryFailed(t, f)
  PROVE  Core'
  <1>1. Selected(f) \subseteq DOMAIN recentFailed
    BY DEF Selected, Distinct
  <1>2. DOMAIN recentFailed \subseteq 1 .. RecentLimit
    BY LenProperties, ConstantsAssumption DEF Core, TypeOK
  <1>3. \A i \in DOMAIN recentFailed : recentFailed[i] \in FailedRecord
    BY LenProperties DEF Core, TypeOK
  <1>4. IsTodo(todo')
    BY <1>1, <1>2, <1>3 DEF Core, TypeOK, IsTodo, RetryFailed
  <1>5. UNCHANGED <<lock, lockVars, futureVars, workerVars, pc, cur, shutdown, overlapped>>
    BY DEF RetryFailed
  <1>6. TypeOK'
    BY <1>4, <1>5 DEF Core, TypeOK, lockVars, futureVars, workerVars
  <1>7. Placement'
    BY <1>5 DEF Core, Placement, HandlersPlaced, QueuePlaced, WorkersPlaced, JobsPlaced,
                lockVars, futureVars, workerVars
  <1> QED
    BY <1>6, <1>7 DEF Core

(* What is left to resubmit is part of what was copied. *)
LEMMA TodoWithoutIsTodo ==
  ASSUME Core, NEW t \in Threads, NEW i
  PROVE  IsTodo(TodoWithout(t, i))
  BY DEF Core, TypeOK, IsTodo, TodoWithout

(* Skipping a bare key moves no job. *)
LEMMA RetryUnmappableCore ==
  ASSUME Core, NEW t \in Threads, RetryUnmappable(t)
  PROVE  Core'
  <1>1. IsTodo(todo')
    BY TodoWithoutIsTodo DEF RetryUnmappable
  <1>2. UNCHANGED <<lock, lockVars, futureVars, workerVars, pc, cur, shutdown, overlapped>>
    BY DEF RetryUnmappable
  <1>3. TypeOK'
    BY <1>1, <1>2 DEF Core, TypeOK, lockVars, futureVars, workerVars
  <1>4. Placement'
    BY <1>2 DEF Core, Placement, HandlersPlaced, QueuePlaced, WorkersPlaced, JobsPlaced,
                lockVars, futureVars, workerVars
  <1> QED
    BY <1>3, <1>4 DEF Core

(* A retry is an ordinary submission. *)
LEMMA RetryNextCore ==
  ASSUME Core, NEW t \in Threads, RetryNext(t)
  PROVE  Core'
  <1>1. PICK i \in DOMAIN todo[t] : Submit(t, todo[t][i].key, TodoWithout(t, i))
    BY DEF RetryNext
  <1>2. todo[t][i].key \in Keys
    BY DEF Core, TypeOK, IsTodo, FailedRecord
  <1> QED
    BY <1>1, <1>2, TodoWithoutIsTodo, SubmitCore DEF RetryNext

(* A shutdown moves no job. *)
LEMMA ShutdownCore ==
  ASSUME Core, Shutdown \/ UNCHANGED vars
  PROVE  Core'
  <1> USE DEF Shutdown, vars, lockVars, futureVars, workerVars, threadVars
  <1>1. TypeOK'
    BY DEF Core, TypeOK
  <1>2. Placement'
    BY DEF Core, Placement, HandlersPlaced, QueuePlaced, WorkersPlaced, JobsPlaced
  <1> QED
    BY <1>1, <1>2 DEF Core

(* The core invariant is inductive. *)
LEMMA StepCore == Core /\ [Next]_vars => Core'
  <1> SUFFICES ASSUME Core, [Next]_vars PROVE Core'
    OBVIOUS
  <1>1. ASSUME NEW t \in Threads, NEW k \in Keys, Request(t, k) PROVE Core'
    BY <1>1, SubmitCore DEF Request, Core, TypeOK
  <1>2. ASSUME NEW t \in Threads, Enqueue(t) PROVE Core'
    BY <1>2, EnqueueCore
  <1>3. ASSUME NEW t \in Threads, EnqueueRefused(t) PROVE Core'
    BY <1>3, EnqueueRefusedCore
  <1>4. ASSUME NEW t \in Threads, Register(t) PROVE Core'
    BY <1>4, RegisterCore
  <1>5. ASSUME NEW t \in Threads, NEW f \in Filters, RetryFailed(t, f) PROVE Core'
    BY <1>5, RetryFailedCore
  <1>6. ASSUME NEW t \in Threads, RetryNext(t) PROVE Core'
    BY <1>6, RetryNextCore
  <1>7. ASSUME NEW t \in Threads, RetryUnmappable(t) PROVE Core'
    BY <1>7, RetryUnmappableCore
  <1>8. ASSUME NEW w \in Workers, Take(w) PROVE Core'
    BY <1>8, TakeCore
  <1>9. ASSUME NEW w \in Workers, RunJobStart(w) PROVE Core'
    BY <1>9, RunJobStartCore
  <1>10. ASSUME NEW w \in Workers, RunJobEnd(w) PROVE Core'
    BY <1>10, RunJobEndCore
  <1>11. ASSUME NEW w \in Workers, Done(w) PROVE Core'
    BY <1>11, DoneCore
  <1>12. CASE Shutdown \/ UNCHANGED vars
    BY <1>12, ShutdownCore
  <1> QED
    BY <1>1, <1>2, <1>3, <1>4, <1>5, <1>6, <1>7, <1>8, <1>9, <1>10, <1>11, <1>12 DEF Next

(* Every job is in exactly one place, and the thread inside submit() is     *)
(* the one that holds the lock, at every moment.                            *)
THEOREM CoreInvariant == Spec => []Core
  BY InitCore, StepCore, PTL DEF Spec

(* Every variable of the scheduler keeps its type, whatever the number of   *)
(* keys, jobs, handler threads and workers.                                 *)
THEOREM TypeCorrect == Spec => []TypeOK
  BY CoreInvariant, PTL DEF Core

(* The lock of submit() is never waited for by the thread that holds it:    *)
(* add_done_callback() never finds the future finished.                     *)
THEOREM NoSelfDeadlockHolds == Spec => []NoSelfDeadlock
  <1>1. Core => NoSelfDeadlock
    BY DEF Core, Placement, HandlersPlaced, NoSelfDeadlock
  <1> QED
    BY <1>1, CoreInvariant, PTL

-----------------------------------------------------------------------------
(* The books the scheduler keeps by key. *)

(* A worker that has passed the lock has marked its job's record, if it is  *)
(* still there, as started.                                                 *)
RecordsTimely ==
  \A k \in Keys : \A w \in Workers :
    active[k] # NoRecord /\ ~active[k].started /\ wjob[w] = active[k].of
      => wpc[w] = "start"

Books ==
  EntriesBelongToUnretiredJobs /\ RecordsTimely /\ Registered /\ BareFailuresOnlyAfterOverlap

(* At the start there are no entries. *)
LEMMA InitBooks == Init => Books
  BY ConstantsAssumption DEF Init, Books, EntriesBelongToUnretiredJobs, Registered,
     InFlight, BareFailuresOnlyAfterOverlap, NoRecord, RecordsTimely

(* A step that leaves entries, futures, threads and failures alone          *)
(* preserves the books.                                                     *)
LEMMA QuietBooks ==
  ASSUME Books, shutdown => shutdown',
         UNCHANGED <<pending, active, fut, jobKey, pc, cur, recentFailed, overlapped>>,
         UNCHANGED <<wpc, wjob>>
  PROVE  Books'
  <1>1. \A k \in Keys : ShownAs(active[k]) \subseteq ShownAs(active[k])'
    BY DEF ShownAs
  <1>2. EntriesBelongToUnretiredJobs'
    BY <1>1 DEF Books, EntriesBelongToUnretiredJobs
  <1> QED
    BY <1>2 DEF Books, RecordsTimely, Registered, InFlight, BareFailuresOnlyAfterOverlap

(* An accepted job gets a record of its own; a finished one it displaces    *)
(* puts the key among the overlapped.                                       *)
LEMMA AcceptBooks ==
  ASSUME Core, Books, NEW t \in Threads, NEW k \in Keys, NEW rest,
         pc[t] = "idle", lock = Nobody, ~AlreadyQueued(k), Accept(t, k, rest)
  PROVE  Books'
  <1> USE ConstantsAssumption
  <1>1. PICK j \in Jobs :
          /\ fut[j] = "unused"
          /\ fut' = [fut EXCEPT ![j] = "held"]
          /\ jobKey' = [jobKey EXCEPT ![j] = k]
          /\ active' = [active EXCEPT ![k] = [of |-> j, started |-> FALSE]]
          /\ cur' = [cur EXCEPT ![t] = j]
    BY DEF Accept
  <1>2. /\ pc' = [pc EXCEPT ![t] = "enqueue"]
        /\ UNCHANGED <<pending, recentFailed, wpc, wjob, shutdown>>
        /\ overlapped' = IF AlreadyDone(k) THEN overlapped \cup {k} ELSE overlapped
    BY DEF Accept, workerVars
  <1>3. k \notin overlapped' => pending[k] = NoJob
    BY <1>2 DEF AlreadyDone, AlreadyQueued
  <1>4. EntriesBelongToUnretiredJobs'
    <2> SUFFICES ASSUME NEW h \in Keys
                 PROVE  /\ pending'[h] # NoJob =>
                             /\ jobKey'[pending'[h]] = h
                             /\ fut'[pending'[h]] \in {"pending", "running", "ok", "failed"}
                        /\ active'[h] # NoRecord =>
                             /\ jobKey'[active'[h].of] = h
                             /\ fut'[active'[h].of] \in ShownAs(active'[h])
      BY <1>2 DEF EntriesBelongToUnretiredJobs, ShownAs
    <2>1. /\ pending[h] # NoJob =>
               /\ jobKey[pending[h]] = h
               /\ fut[pending[h]] \in {"pending", "running", "ok", "failed"}
          /\ active[h] # NoRecord =>
               jobKey[active[h].of] = h /\ fut[active[h].of] \in ShownAs(active[h])
      BY DEF Books, EntriesBelongToUnretiredJobs
    <2>2. \A r : "unused" \notin ShownAs(r)
      BY DEF ShownAs
    <2>4. CASE h = k
      <3>1. active'[h] = [of |-> j, started |-> FALSE] /\ fut'[j] = "held" /\ jobKey'[j] = k
        BY <1>1, <2>4 DEF Core, TypeOK
      <3>2. "held" \in ShownAs([of |-> j, started |-> FALSE])
        BY DEF ShownAs
      <3> QED
        BY <1>1, <1>2, <2>1, <2>4, <3>1, <3>2 DEF Core, TypeOK
    <2>5. CASE h # k
      <3>1. active'[h] = active[h] /\ pending'[h] = pending[h]
        BY <1>1, <1>2, <2>5 DEF Core, TypeOK
      <3> QED
        BY <1>1, <2>1, <2>2, <3>1 DEF Core, TypeOK
    <2> QED
      BY <2>4, <2>5
  <1>5. Registered'
    <2> SUFFICES ASSUME NEW h \in Keys \ overlapped', NEW i \in Jobs,
                        InFlight(i)', jobKey'[i] = h
                 PROVE  /\ active'[h] # NoRecord
                        /\ \/ pending'[h] = i
                           \/ /\ pending'[h] = NoJob
                              /\ \E u \in Threads : pc'[u] # "idle" /\ cur'[u] = i
      BY DEF Registered
    <2>1. h \in Keys \ overlapped
      BY <1>2
    <2>2. CASE i = j
      BY <1>1, <1>2, <1>3, <2>2 DEF Core, TypeOK, NoRecord
    <2>3. CASE i # j
      <3>1. InFlight(i) /\ jobKey[i] = h
        BY <1>1, <2>3 DEF InFlight
      <3>2. /\ active[h] # NoRecord
            /\ pending[h] = i
        BY <2>1, <3>1 DEF Books, Registered, Core, Placement, HandlersPlaced
      <3> QED
        BY <1>1, <1>2, <3>2 DEF Core, TypeOK, NoRecord
    <2> QED
      BY <2>2, <2>3
  <1>7. RecordsTimely'
    <2>1. \A w \in Workers : wjob[w] # j
      BY <1>1 DEF Core, TypeOK, Placement, WorkersPlaced
    <2> QED
      BY <1>1, <1>2, <2>1 DEF Core, TypeOK, Books, RecordsTimely
  <1>6. BareFailuresOnlyAfterOverlap'
    BY <1>2 DEF Books, BareFailuresOnlyAfterOverlap
  <1> QED
    BY <1>4, <1>5, <1>6, <1>7 DEF Books

(* A refused or deduplicated call touches no entry. *)
LEMMA SubmitBooks ==
  ASSUME Core, Books, NEW t \in Threads, NEW k \in Keys, NEW rest,
         pc[t] = "idle", Submit(t, k, rest)
  PROVE  Books'
  <1>1. CASE Deduplicate(k, rest)
    BY <1>1, QuietBooks DEF Deduplicate, futureVars, workerVars
  <1>2. CASE Reject(k, rest)
    BY <1>2, QuietBooks DEF Reject, futureVars, workerVars
  <1>3. CASE Accept(t, k, rest)
    BY <1>3, AcceptBooks DEF Submit, Accept
  <1> QED
    BY <1>1, <1>2, <1>3 DEF Submit

(* Entries stay right when the job they stand for moves to a state that     *)
(* they may show.                                                           *)
LEMMA MoveEntries ==
  ASSUME Core, EntriesBelongToUnretiredJobs, NEW j \in Jobs, NEW s,
         fut' = [fut EXCEPT ![j] = s], UNCHANGED <<pending, active, jobKey, shutdown>>,
         s \in {"pending", "running", "ok", "failed"},
         \A k \in Keys : active[k] # NoRecord /\ active[k].of = j => s \in ShownAs(active[k])
  PROVE  EntriesBelongToUnretiredJobs'
  <1>1. \A i : fut'[i] = fut[i] \/ i = j
    BY DEF Core, TypeOK
  <1>2. fut'[j] = s
    BY DEF Core, TypeOK
  <1>3. \A x : ShownAs(x)' = ShownAs(x)
    BY DEF ShownAs
  <1> QED
    BY <1>1, <1>2, <1>3 DEF EntriesBelongToUnretiredJobs, ShownAs

(* A job on the queue is still the one being submitted. *)
LEMMA EnqueueBooks ==
  ASSUME Core, Books, NEW t \in Threads, Enqueue(t)
  PROVE  Books'
  <1> USE ConstantsAssumption DEF Enqueue, futureVars, lockVars, workerVars
  <1>1. EntriesBelongToUnretiredJobs'
    <2>1. cur[t] \in Jobs /\ fut[cur[t]] = "held"
      BY DEF Core, Placement, HandlersPlaced
    <2>2. \A k \in Keys : active[k] # NoRecord /\ active[k].of = cur[t]
                           => "pending" \in ShownAs(active[k])
      BY <2>1 DEF Books, EntriesBelongToUnretiredJobs, ShownAs
    <2> QED
      BY <2>1, <2>2, MoveEntries DEF Books
  <1>2. Registered'
    BY DEF Core, TypeOK, Placement, HandlersPlaced, JobsPlaced, WorkersPlaced, Books,
           EntriesBelongToUnretiredJobs, Registered, InFlight, FutureStates
  <1>3. BareFailuresOnlyAfterOverlap'
    BY DEF Books, BareFailuresOnlyAfterOverlap
  <1>4. RecordsTimely'
    BY DEF Core, TypeOK, Placement, WorkersPlaced, Books, RecordsTimely
  <1> QED
    BY <1>1, <1>2, <1>3, <1>4 DEF Books

(* A refused job is in flight no longer; its record stays, with its slot. *)
LEMMA EnqueueRefusedBooks ==
  ASSUME Core, Books, NEW t \in Threads, EnqueueRefused(t)
  PROVE  Books'
  <1> USE ConstantsAssumption DEF EnqueueRefused, futureVars, lockVars, workerVars
  <1>1. EntriesBelongToUnretiredJobs'
    BY DEF Core, TypeOK, Placement, HandlersPlaced, JobsPlaced, WorkersPlaced, Books,
           EntriesBelongToUnretiredJobs, ShownAs, RecordsTimely, FutureStates
  <1>2. Registered'
    BY DEF Core, TypeOK, Placement, HandlersPlaced, JobsPlaced, WorkersPlaced, Books,
           EntriesBelongToUnretiredJobs, Registered, InFlight, FutureStates
  <1>3. BareFailuresOnlyAfterOverlap'
    BY DEF Books, BareFailuresOnlyAfterOverlap
  <1>4. RecordsTimely'
    BY DEF Core, TypeOK, Placement, WorkersPlaced, Books, RecordsTimely
  <1> QED
    BY <1>1, <1>2, <1>3, <1>4 DEF Books

(* The job that was being submitted becomes the registered one. *)
LEMMA RegisterBooks ==
  ASSUME Core, Books, NEW t \in Threads, Register(t)
  PROVE  Books'
  <1> USE ConstantsAssumption DEF Register, Finished, futureVars, lockVars, workerVars
  <1>1. EntriesBelongToUnretiredJobs'
    BY DEF Core, TypeOK, Placement, HandlersPlaced, JobsPlaced, WorkersPlaced, Books,
           EntriesBelongToUnretiredJobs, ShownAs, RecordsTimely, FutureStates
  <1>2. Registered'
    BY DEF Core, TypeOK, Placement, HandlersPlaced, JobsPlaced, WorkersPlaced, Books,
           EntriesBelongToUnretiredJobs, Registered, InFlight, FutureStates
  <1>3. BareFailuresOnlyAfterOverlap'
    BY DEF Books, BareFailuresOnlyAfterOverlap
  <1>4. RecordsTimely'
    BY DEF Core, TypeOK, Placement, WorkersPlaced, Books, RecordsTimely
  <1> QED
    BY <1>1, <1>2, <1>3, <1>4 DEF Books

(* Running is in flight like waiting. *)
LEMMA TakeBooks ==
  ASSUME Core, Books, NEW w \in Workers, Take(w)
  PROVE  Books'
  <1> USE ConstantsAssumption DEF Take, futureVars, lockVars, workerVars
  <1>0. Head(queue) \in Jobs /\ fut[Head(queue)] = "pending"
    BY HeadOfQueue DEF Core, Placement
  <1>1. EntriesBelongToUnretiredJobs'
    BY <1>0 DEF Core, TypeOK, Placement, HandlersPlaced, JobsPlaced, WorkersPlaced, Books,
           EntriesBelongToUnretiredJobs, ShownAs, RecordsTimely, FutureStates
  <1>2. Registered'
    <2>1. \A i \in Jobs : InFlight(i)' => InFlight(i)
      BY <1>0, ConstantsAssumption DEF Core, TypeOK, Placement, WorkersPlaced, InFlight
    <2>2. UNCHANGED <<pending, active, jobKey, pc, cur, overlapped>>
      BY DEF threadVars
    <2> QED
      BY <2>1, <2>2 DEF Books, Registered
  <1>3. BareFailuresOnlyAfterOverlap'
    BY DEF Books, BareFailuresOnlyAfterOverlap
  <1>4. RecordsTimely'
    BY <1>0 DEF Core, TypeOK, Placement, WorkersPlaced, Books, RecordsTimely
  <1> QED
    BY <1>1, <1>2, <1>3, <1>4 DEF Books

(* The worker writes the record of its own job. *)
LEMMA RunJobStartBooks ==
  ASSUME Core, Books, NEW w \in Workers, RunJobStart(w)
  PROVE  Books'
  <1> USE ConstantsAssumption
  <1> DEFINE j == wjob[w]
             r == [of |-> j, started |-> TRUE]
  <1>1. j \in Jobs /\ fut[j] = "running" /\ jobKey[j] \in Keys
    BY DEF RunJobStart, MayStart, Core, Placement, WorkersPlaced, JobsPlaced
  <1>2. /\ active' = [active EXCEPT ![jobKey[j]] = r]
        /\ UNCHANGED <<pending, fut, jobKey, pc, cur, recentFailed, overlapped, shutdown, wjob>>
        /\ wpc' = [wpc EXCEPT ![w] = "mirror"] /\ wpc[w] = "start"
    BY DEF RunJobStart, MayStart, futureVars, threadVars
  <1>3. r # NoRecord /\ r.of = j /\ r.started
    BY <1>1 DEF NoRecord
  <1>4. fut[j] \in ShownAs(r)
    BY <1>1, <1>3 DEF ShownAs
  <1>5. \A k \in Keys : active'[k] = IF k = jobKey[j] THEN r ELSE active[k]
    <2>1. DOMAIN active = Keys
      BY DEF Core, TypeOK
    <2> HIDE DEF r, j
    <2> QED
      BY <1>2, <2>1
  <1>9. RecordsTimely'
    <2>1. \A k \in Keys : active[k] # NoRecord => jobKey[active[k].of] = k
      BY DEF Books, EntriesBelongToUnretiredJobs
    <2> SUFFICES ASSUME NEW k \in Keys, NEW v \in Workers, active'[k] # NoRecord,
                        ~active'[k].started, wjob'[v] = active'[k].of
                 PROVE  wpc'[v] = "start"
      BY DEF RecordsTimely
    <2>2. k # jobKey[j] /\ active'[k] = active[k] /\ wjob[v] = active[k].of
      <3> HIDE DEF r, j
      <3> QED
        BY <1>2, <1>3, <1>5
    <2>3. v # w
      BY <2>1, <2>2 DEF j
    <2> QED
      BY <1>2, <2>2, <2>3 DEF Core, TypeOK, Books, RecordsTimely
  <1> HIDE DEF r, j
  <1>6. EntriesBelongToUnretiredJobs'
    BY <1>2, <1>3, <1>4, <1>5 DEF Books, EntriesBelongToUnretiredJobs, ShownAs
  <1>7. Registered'
    BY <1>2, <1>3, <1>5 DEF Books, Registered, InFlight
  <1>8. BareFailuresOnlyAfterOverlap'
    BY <1>2 DEF Books, BareFailuresOnlyAfterOverlap
  <1> QED
    BY <1>6, <1>7, <1>8, <1>9 DEF Books

(* A finished job is in flight until its callback. *)
LEMMA RunJobEndBooks ==
  ASSUME Core, Books, NEW w \in Workers, RunJobEnd(w)
  PROVE  Books'
  <1> USE ConstantsAssumption DEF RunJobEnd, futureVars, lockVars, workerVars
  <1>1. EntriesBelongToUnretiredJobs'
    <2>1. PICK outcome \in {"ok", "failed"} : fut' = [fut EXCEPT ![wjob[w]] = outcome]
      OBVIOUS
    <2>2. wjob[w] \in Jobs
      BY DEF Core, Placement, WorkersPlaced
    <2>3. \A k \in Keys : active[k] # NoRecord /\ active[k].of = wjob[w]
                           => outcome \in ShownAs(active[k])
      BY DEF Books, RecordsTimely, ShownAs
    <2>4. UNCHANGED <<pending, active, jobKey, shutdown>>
      OBVIOUS
    <2> HIDE DEF RunJobEnd
    <2> QED
      BY <2>1, <2>2, <2>3, <2>4, MoveEntries DEF Books
  <1>2. Registered'
    <2>1. \A i \in Jobs : InFlight(i)' => InFlight(i)
      BY ConstantsAssumption DEF Core, TypeOK, Placement, WorkersPlaced, InFlight
    <2>2. UNCHANGED <<pending, active, jobKey, pc, cur, overlapped>>
      BY DEF threadVars
    <2> QED
      BY <2>1, <2>2 DEF Books, Registered
  <1>3. BareFailuresOnlyAfterOverlap'
    BY DEF Books, BareFailuresOnlyAfterOverlap
  <1>4. RecordsTimely'
    <2>1. \A k \in Keys : active[k] # NoRecord => active[k].of \in Jobs
      BY DEF Core, TypeOK, ActiveRecord
    <2> QED
      BY <2>1 DEF Core, TypeOK, Placement, WorkersPlaced, Books, RecordsTimely
  <1> QED
    BY <1>1, <1>2, <1>3, <1>4 DEF Books

(* Cutting the recent list adds no failure. *)
LEMMA LastOfRange ==
  ASSUME NEW s \in Seq(FailedRecord), NEW i \in DOMAIN LastOf(s)
  PROVE  \E n \in DOMAIN s : LastOf(s)[i] = s[n]
  <1> USE ConstantsAssumption
  <1>1. CASE Len(s) <= RecentLimit
    BY <1>1 DEF LastOf
  <1>2. CASE Len(s) > RecentLimit
    <2> DEFINE m == Len(s) - RecentLimit + 1
    <2>1. LastOf(s) = SubSeq(s, m, Len(s))
      BY <1>2, LenProperties DEF LastOf
    <2>2. m \in 1 .. Len(s) /\ Len(s) \in Nat /\ DOMAIN s = 1 .. Len(s)
      BY <1>2, LenProperties
    <2>3. \A n \in m .. Len(s) : s[n] \in FailedRecord
      BY <2>2, LenProperties
    <2>4. /\ SubSeq(s, m, Len(s)) \in Seq(FailedRecord)
          /\ Len(SubSeq(s, m, Len(s))) = Len(s) - m + 1
          /\ \A n \in 1 .. Len(s) - m + 1 : SubSeq(s, m, Len(s))[n] = s[m + n - 1]
      BY <2>2, <2>3, SubSeqProperties
    <2>5. i \in 1 .. Len(s) - m + 1
      BY <2>1, <2>4, LenProperties
    <2>6. m + i - 1 \in DOMAIN s
      BY <2>2, <2>5
    <2> QED
      BY <2>1, <2>4, <2>5, <2>6
  <1> QED
    BY <1>1, <1>2, LenProperties

(* The callback clears the entries of a key outside the overlapped only     *)
(* for the key's own job.                                                   *)
LEMMA DoneBooks ==
  ASSUME Core, Books, NEW w \in Workers, Done(w)
  PROVE  Books'
  <1> USE ConstantsAssumption
  <1> DEFINE j == wjob[w]
             k == jobKey[j]
             r == [key |-> k, remote |-> IF active[k] = NoRecord THEN "key" ELSE "url"]
  <1>1. j \in Jobs /\ fut[j] \in {"ok", "failed"} /\ k \in Keys
    BY DEF Done, Core, Placement, WorkersPlaced, JobsPlaced
  <1>2. /\ active' = [active EXCEPT ![k] = NoRecord]
        /\ pending' = [pending EXCEPT ![k] = NoJob]
        /\ fut' = [fut EXCEPT ![j] = "retired"]
        /\ recentFailed' = IF fut[j] = "ok" THEN recentFailed
                           ELSE LastOf(Append(recentFailed, r))
        /\ UNCHANGED <<jobKey, pc, cur, overlapped, shutdown>>
        /\ wpc' = [wpc EXCEPT ![w] = "idle"] /\ wjob' = [wjob EXCEPT ![w] = NoJob]
    BY DEF Done, threadVars, ForgetRecord
  <1>3. \A t \in Threads : pc[t] = "idle"
    BY DEF Done, Core, Placement, HandlersPlaced
  <1>4. InFlight(j)
    BY <1>1 DEF InFlight
  <1>5. r \in FailedRecord /\ r.key = k /\ (r.remote = "key" => active[k] = NoRecord)
    BY <1>1 DEF FailedRecord
  <1> HIDE DEF r, k
  <1>6. EntriesBelongToUnretiredJobs'
    <2> SUFFICES ASSUME NEW h \in Keys
                 PROVE  /\ pending'[h] # NoJob =>
                             /\ jobKey[pending'[h]] = h
                             /\ fut'[pending'[h]] \in {"pending", "running", "ok", "failed"}
                        /\ active'[h] # NoRecord =>
                             jobKey[active'[h].of] = h /\ fut'[active'[h].of] \in ShownAs(active'[h])
      BY <1>2 DEF EntriesBelongToUnretiredJobs, ShownAs
    <2>1. CASE h = k
      BY <1>2, <2>1 DEF Core, TypeOK
    <2>2. CASE h # k
      <3>1. active'[h] = active[h] /\ pending'[h] = pending[h]
        BY <1>2, <2>2 DEF Core, TypeOK
      <3>2. jobKey[j] = k
        BY DEF k
      <3> QED
        BY <1>1, <1>2, <2>2, <3>1, <3>2
           DEF Books, EntriesBelongToUnretiredJobs, Core, TypeOK
    <2> QED
      BY <2>1, <2>2
  <1>7. Registered'
    <2> SUFFICES ASSUME NEW h \in Keys \ overlapped, NEW i \in Jobs,
                        InFlight(i)', jobKey[i] = h
                 PROVE  active'[h] # NoRecord /\ pending'[h] = i
      BY <1>2 DEF Registered
    <2>1. i # j /\ InFlight(i)
      BY <1>1, <1>2 DEF InFlight, Core, TypeOK
    <2>2. active[h] # NoRecord /\ pending[h] = i
      BY <1>3, <2>1 DEF Books, Registered
    <2>3. h # k
      BY <1>1, <1>3, <1>4, <2>1, <2>2 DEF Books, Registered, k
    <2> QED
      BY <1>2, <2>2, <2>3 DEF Core, TypeOK
  <1>8. BareFailuresOnlyAfterOverlap'
    <2>1. r.remote = "key" => k \in overlapped
      BY <1>1, <1>4, <1>5 DEF Books, Registered, k
    <2>2. CASE fut[j] = "ok"
      BY <1>2, <2>2 DEF Books, BareFailuresOnlyAfterOverlap
    <2>3. CASE fut[j] # "ok"
      <3> DEFINE a == Append(recentFailed, r)
      <3>1. a \in Seq(FailedRecord)
        BY <1>5, AppendProperties DEF Core, TypeOK
      <3>2. \A n \in DOMAIN a : a[n].remote = "key" => a[n].key \in overlapped
        <4> SUFFICES ASSUME NEW n \in DOMAIN a, a[n].remote = "key"
                     PROVE  a[n].key \in overlapped
          OBVIOUS
        <4>1. /\ n \in 1 .. Len(recentFailed) + 1 /\ Len(recentFailed) \in Nat
              /\ DOMAIN recentFailed = 1 .. Len(recentFailed)
              /\ \A m \in 1 .. Len(recentFailed) : a[m] = recentFailed[m]
              /\ a[Len(recentFailed) + 1] = r
          BY <1>5, <3>1, AppendProperties, LenProperties DEF Core, TypeOK
        <4>2. CASE n = Len(recentFailed) + 1
          BY <1>5, <2>1, <4>1, <4>2
        <4>3. CASE n \in 1 .. Len(recentFailed)
          BY <4>1, <4>3 DEF Books, BareFailuresOnlyAfterOverlap
        <4> QED
          BY <4>1, <4>2, <4>3
      <3>3. recentFailed' = LastOf(a)
        BY <1>2, <2>3
      <3> HIDE DEF a
      <3> QED
        BY <1>2, <3>1, <3>2, <3>3, LastOfRange DEF BareFailuresOnlyAfterOverlap
    <2> QED
      BY <2>2, <2>3
  <1>9. RecordsTimely'
    <2>1. \A h \in Keys : active[h] # NoRecord => active[h].of \in Jobs
      BY DEF Core, TypeOK, ActiveRecord
    <2> QED
      BY <1>1, <1>2, <2>1 DEF Core, TypeOK, Books, RecordsTimely
  <1> QED
    BY <1>6, <1>7, <1>8, <1>9 DEF Books

(* The books are preserved by every step from a state of the core           *)
(* invariant.                                                               *)
LEMMA StepBooks == Core /\ Books /\ [Next]_vars => Books'
  <1> SUFFICES ASSUME Core, Books, [Next]_vars PROVE Books'
    OBVIOUS
  <1>1. ASSUME NEW t \in Threads, NEW k \in Keys, Request(t, k) PROVE Books'
    BY <1>1, SubmitBooks DEF Request
  <1>2. ASSUME NEW t \in Threads, Enqueue(t) PROVE Books'
    BY <1>2, EnqueueBooks
  <1>3. ASSUME NEW t \in Threads, EnqueueRefused(t) PROVE Books'
    BY <1>3, EnqueueRefusedBooks
  <1>4. ASSUME NEW t \in Threads, Register(t) PROVE Books'
    BY <1>4, RegisterBooks
  <1>5. ASSUME NEW t \in Threads, NEW f \in Filters, RetryFailed(t, f) PROVE Books'
    BY <1>5, QuietBooks DEF RetryFailed, lockVars, futureVars, workerVars
  <1>6. ASSUME NEW t \in Threads, RetryNext(t) PROVE Books'
    <2>1. PICK i \in DOMAIN todo[t] : Submit(t, todo[t][i].key, TodoWithout(t, i))
      BY <1>6 DEF RetryNext
    <2>2. todo[t][i].key \in Keys
      BY DEF Core, TypeOK, IsTodo, FailedRecord
    <2> QED
      BY <1>6, <2>1, <2>2, SubmitBooks DEF RetryNext
  <1>7. ASSUME NEW t \in Threads, RetryUnmappable(t) PROVE Books'
    BY <1>7, QuietBooks DEF RetryUnmappable, lockVars, futureVars, workerVars
  <1>8. ASSUME NEW w \in Workers, Take(w) PROVE Books'
    BY <1>8, TakeBooks
  <1>9. ASSUME NEW w \in Workers, RunJobStart(w) PROVE Books'
    BY <1>9, RunJobStartBooks
  <1>10. ASSUME NEW w \in Workers, RunJobEnd(w) PROVE Books'
    BY <1>10, RunJobEndBooks
  <1>11. ASSUME NEW w \in Workers, Done(w) PROVE Books'
    BY <1>11, DoneBooks
  <1>12. CASE Shutdown \/ UNCHANGED vars
    BY <1>12, QuietBooks DEF Shutdown, vars, lockVars, futureVars, workerVars, threadVars
  <1> QED
    BY <1>1, <1>2, <1>3, <1>4, <1>5, <1>6, <1>7, <1>8, <1>9, <1>10, <1>11, <1>12 DEF Next

(* Entries, registrations and filed failures agree with the jobs they       *)
(* stand for, at every moment.                                              *)
THEOREM BooksInvariant == Spec => []Books
  BY InitBooks, StepBooks, CoreInvariant, PTL DEF Spec

(* _pending names only jobs of its key whose _done is still to come, and so *)
(* does _active_jobs, but for a job that was refused after a shutdown.      *)
THEOREM EntriesStayCurrent == Spec => []EntriesBelongToUnretiredJobs
  BY BooksInvariant, PTL DEF Books

(* A failure loses its repository's URL only for a key that was accepted    *)
(* again before the _done of its finished job.                              *)
THEOREM FailuresKeepUrl == Spec => []BareFailuresOnlyAfterOverlap
  BY BooksInvariant, PTL DEF Books

(* submit() admits a second job of a key next to a live one only if the key *)
(* was accepted, at some time, before the _done of its finished job.        *)
THEOREM DeduplicationHolds == Spec => []DuplicatesOnlyAfterOverlap
  <1>1. Core /\ Books => DuplicatesOnlyAfterOverlap
    <2> SUFFICES ASSUME Core, Books, NEW i \in Live, NEW j \in Live, i # j,
                        jobKey[i] = jobKey[j], jobKey[i] \notin overlapped
                 PROVE  FALSE
      BY DEF DuplicatesOnlyAfterOverlap
    <2> DEFINE k == jobKey[i]
    <2>1. i \in Jobs /\ j \in Jobs /\ InFlight(i) /\ InFlight(j) /\ k \in Keys \ overlapped
      BY DEF Live, InFlight, Core, Placement, JobsPlaced
    <2>2. pending[k] = NoJob
      BY <2>1, ConstantsAssumption DEF Books, Registered
    <2>3. PICK t \in Threads : pc[t] # "idle" /\ cur[t] = i
      BY <2>1, <2>2, ConstantsAssumption DEF Books, Registered
    <2>4. PICK u \in Threads : pc[u] # "idle" /\ cur[u] = j
      BY <2>1, <2>2, ConstantsAssumption DEF Books, Registered
    <2>5. t = u
      BY <2>3, <2>4 DEF Core, Placement, HandlersPlaced
    <2> QED
      BY <2>3, <2>4, <2>5
  <1> QED
    BY <1>1, CoreInvariant, BooksInvariant, PTL

-----------------------------------------------------------------------------
(* Slots of the semaphore and totals. *)

(* The jobs that hold a slot can be counted. *)
LEMMA HoldsSlotFinite ==
  /\ IsFiniteSet(HoldsSlot)
  /\ Cardinality(HoldsSlot) \in Nat
  BY FS_Subset, FS_CardinalityType, ConstantsAssumption DEF HoldsSlot

(* A step that changes neither counters nor the set of holders preserves    *)
(* the account.                                                             *)
LEMMA QuietSlots ==
  ASSUME SlotsAccounted, HoldsSlot' = HoldsSlot,
         UNCHANGED <<free, submitted, completed, failed>>
  PROVE  SlotsAccounted'
  BY DEF SlotsAccounted

(* An accepted job takes one slot and is one more holder. *)
LEMMA SubmitSlots ==
  ASSUME Core, SlotsAccounted, NEW t \in Threads, NEW k \in Keys, NEW rest,
         Submit(t, k, rest)
  PROVE  SlotsAccounted'
  <1>1. CASE Deduplicate(k, rest) \/ Reject(k, rest)
    BY <1>1, QuietSlots DEF Deduplicate, Reject, futureVars, HoldsSlot
  <1>2. CASE Accept(t, k, rest)
    <2>1. PICK j \in Jobs : fut[j] = "unused" /\ fut' = [fut EXCEPT ![j] = "held"]
      BY <1>2 DEF Accept
    <2>2. HoldsSlot' = HoldsSlot \cup {j} /\ j \notin HoldsSlot
      BY <2>1 DEF HoldsSlot, Core, TypeOK
    <2>3. Cardinality(HoldsSlot') = Cardinality(HoldsSlot) + 1
      BY <2>2, HoldsSlotFinite, FS_AddElement
    <2>4. /\ free' = free - 1 /\ free \in Nat
          /\ submitted' = submitted + 1 /\ submitted \in Nat
          /\ UNCHANGED <<completed, failed>> /\ completed \in Nat /\ failed \in Nat
      BY <1>2 DEF Accept, Core, TypeOK
    <2> QED
      BY <2>3, <2>4, HoldsSlotFinite, ConstantsAssumption DEF SlotsAccounted
  <1> QED
    BY <1>1, <1>2 DEF Submit

(* The callback gives one slot back and retires one holder. *)
LEMMA DoneSlots ==
  ASSUME Core, SlotsAccounted, NEW w \in Workers, Done(w)
  PROVE  SlotsAccounted'
  <1> DEFINE j == wjob[w]
  <1>1. j \in Jobs /\ fut[j] \in {"ok", "failed"} /\ fut' = [fut EXCEPT ![j] = "retired"]
    BY DEF Done, Core, Placement, WorkersPlaced
  <1>2. HoldsSlot' = HoldsSlot \ {j} /\ j \in HoldsSlot
    BY <1>1 DEF HoldsSlot, Core, TypeOK
  <1>3. Cardinality(HoldsSlot') = Cardinality(HoldsSlot) - 1
    BY <1>2, HoldsSlotFinite, FS_RemoveElement
  <1>4. /\ free' = free + 1 /\ free \in Nat
        /\ submitted' = submitted /\ submitted \in Nat
        /\ completed \in Nat /\ failed \in Nat
    BY DEF Done, SlotBack, Core, TypeOK
  <1>5. \/ completed' = completed + 1 /\ failed' = failed
        \/ completed' = completed /\ failed' = failed + 1
    BY DEF Done
  <1>6. free' + Cardinality(HoldsSlot') = MaxPending
    <2>1. free + Cardinality(HoldsSlot) = MaxPending
      BY DEF SlotsAccounted
    <2> QED
      BY <1>3, <1>4, <2>1, HoldsSlotFinite, ConstantsAssumption
  <1>7. submitted' = completed' + failed' + Cardinality(HoldsSlot')
    <2>1. submitted = completed + failed + Cardinality(HoldsSlot)
      BY DEF SlotsAccounted
    <2> QED
      BY <1>3, <1>4, <1>5, <2>1, HoldsSlotFinite
  <1> QED
    BY <1>6, <1>7 DEF SlotsAccounted

(* The account is preserved by every step from a state of the core          *)
(* invariant.                                                               *)
LEMMA StepSlots == Core /\ SlotsAccounted /\ [Next]_vars => SlotsAccounted'
  <1> SUFFICES ASSUME Core, SlotsAccounted, [Next]_vars PROVE SlotsAccounted'
    OBVIOUS
  <1> USE DEF lockVars, futureVars
  <1>1. ASSUME NEW t \in Threads, NEW k \in Keys, Request(t, k) PROVE SlotsAccounted'
    BY <1>1, SubmitSlots DEF Request
  <1>2. ASSUME NEW t \in Threads, Enqueue(t) PROVE SlotsAccounted'
    <2>1. HoldsSlot' = HoldsSlot
      BY <1>2 DEF Enqueue, HoldsSlot, Core, TypeOK, Placement, HandlersPlaced
    <2> QED
      BY <1>2, <2>1, QuietSlots DEF Enqueue
  <1>3. ASSUME NEW t \in Threads, EnqueueRefused(t) PROVE SlotsAccounted'
    <2>1. HoldsSlot' = HoldsSlot
      BY <1>3 DEF EnqueueRefused, HoldsSlot, Core, TypeOK, Placement, HandlersPlaced
    <2> QED
      BY <1>3, <2>1, QuietSlots DEF EnqueueRefused
  <1>4. ASSUME NEW t \in Threads, Register(t) PROVE SlotsAccounted'
    BY <1>4, QuietSlots DEF Register, HoldsSlot
  <1>5. ASSUME NEW t \in Threads, NEW f \in Filters, RetryFailed(t, f) PROVE SlotsAccounted'
    BY <1>5, QuietSlots DEF RetryFailed, HoldsSlot
  <1>6. ASSUME NEW t \in Threads, RetryNext(t) PROVE SlotsAccounted'
    <2>1. PICK i \in DOMAIN todo[t] : Submit(t, todo[t][i].key, TodoWithout(t, i))
      BY <1>6 DEF RetryNext
    <2>2. todo[t][i].key \in Keys
      BY DEF Core, TypeOK, IsTodo, FailedRecord
    <2> QED
      BY <2>1, <2>2, SubmitSlots
  <1>7. ASSUME NEW t \in Threads, RetryUnmappable(t) PROVE SlotsAccounted'
    BY <1>7, QuietSlots DEF RetryUnmappable, HoldsSlot
  <1>8. ASSUME NEW w \in Workers, Take(w) PROVE SlotsAccounted'
    <2>1. HoldsSlot' = HoldsSlot
      BY <1>8, HeadOfQueue DEF Take, HoldsSlot, Core, TypeOK, Placement
    <2> QED
      BY <1>8, <2>1, QuietSlots DEF Take
  <1>9. ASSUME NEW w \in Workers, RunJobStart(w) PROVE SlotsAccounted'
    BY <1>9, QuietSlots DEF RunJobStart, HoldsSlot
  <1>10. ASSUME NEW w \in Workers, RunJobEnd(w) PROVE SlotsAccounted'
    <2>1. HoldsSlot' = HoldsSlot
      BY <1>10 DEF RunJobEnd, HoldsSlot, Core, TypeOK, Placement, WorkersPlaced
    <2> QED
      BY <1>10, <2>1, QuietSlots DEF RunJobEnd
  <1>11. ASSUME NEW w \in Workers, Done(w) PROVE SlotsAccounted'
    BY <1>11, DoneSlots
  <1>12. CASE Shutdown \/ UNCHANGED vars
    BY <1>12, QuietSlots DEF Shutdown, vars, HoldsSlot
  <1> QED
    BY <1>1, <1>2, <1>3, <1>4, <1>5, <1>6, <1>7, <1>8, <1>9, <1>10, <1>11, <1>12 DEF Next

(* The semaphore and the totals are exact: release() in _done never exceeds *)
(* the initial value, and no slot is lost but those of refused jobs.        *)
THEOREM SlotsConserved == Spec => []SlotsAccounted
  <1>1. Init => SlotsAccounted
    <2> SUFFICES ASSUME Init PROVE SlotsAccounted
      OBVIOUS
    <2>1. HoldsSlot = {}
      BY DEF Init, HoldsSlot
    <2> QED
      BY <2>1, FS_EmptySet, ConstantsAssumption DEF Init, SlotsAccounted
  <1> QED
    BY <1>1, StepSlots, CoreInvariant, PTL DEF Spec

-----------------------------------------------------------------------------
(* Refinement. *)

StageOf == [j \in Jobs |-> Stage(fut[j])]

(* BoundedJobs counts like this module. *)
LEMMA SameCardinality == \A S : Abstract!Cardinality(S) = Cardinality(S)
  BY DEF Cardinality, Abstract!Cardinality

(* What is admitted seen from outside is what holds a slot. *)
LEMMA AdmittedHoldsSlot == TypeOK => Abstract!Admitted = HoldsSlot
  BY DEF TypeOK, FutureStates, Abstract!Admitted, HoldsSlot, Stage

(* A job that is being worked on has a worker of its own. *)
LEMMA BusyBound ==
  ASSUME Core, NEW w \in Workers, wpc[w] = "idle"
  PROVE  Cardinality(Abstract!Busy) < Cardinality(Workers)
  <1> DEFINE B == Abstract!Busy
             Of(j) == CHOOSE v \in Workers : wjob[v] = j
             f == [j \in B |-> Of(j)]
  <1>1. \A j \in B : j \in Jobs /\ fut[j] \in {"running", "ok", "failed"}
    BY DEF Core, TypeOK, FutureStates, Abstract!Busy, Stage
  <1>2. \A j \in B : Of(j) \in Workers /\ wjob[Of(j)] = j
    BY <1>1 DEF Core, Placement, JobsPlaced
  <1>3. \A j \in B : Of(j) # w
    BY <1>1, <1>2, ConstantsAssumption DEF Core, Placement, WorkersPlaced
  <1> HIDE DEF B, Of
  <1>4. f \in Injection(B, Workers \ {w})
    BY <1>2, <1>3 DEF Injection, IsInjective
  <1> HIDE DEF f
  <1>5. /\ IsFiniteSet(Workers \ {w})
        /\ Cardinality(Workers \ {w}) = Cardinality(Workers) - 1
    BY FS_RemoveElement, ConstantsAssumption
  <1>6. IsFiniteSet(B) /\ Cardinality(B) <= Cardinality(Workers \ {w})
    BY <1>4, <1>5, FS_Injection
  <1> QED
    BY <1>5, <1>6, FS_CardinalityType, ConstantsAssumption DEF B

(* A step that leaves the futures alone is a stutter of BoundedJobs. *)
LEMMA StageUnchanged ==
  ASSUME fut' = fut
  PROVE  UNCHANGED StageOf
  BY DEF StageOf

(* A change of one future is a move of that job's stage. *)
LEMMA StageMove ==
  ASSUME TypeOK, NEW j \in Jobs, NEW s \in FutureStates, fut' = [fut EXCEPT ![j] = s]
  PROVE  /\ Abstract!Move(j, Stage(fut[j]), Stage(s))
         /\ Stage(s) = Stage(fut[j]) => UNCHANGED StageOf
  BY DEF StageOf, TypeOK, Abstract!Move

(* The stage of each state of a future. *)
LEMMA Stages ==
  /\ Stage("unused") = "new" /\ Stage("held") = "waiting" /\ Stage("pending") = "waiting"
  /\ Stage("running") = "running" /\ Stage("ok") = "finished" /\ Stage("failed") = "finished"
  /\ Stage("retired") = "retired" /\ Stage("abandoned") = "lost"
  BY DEF Stage

(* A submission admits a job while there is room, or is a stutter. *)
LEMMA SubmitRefines ==
  ASSUME Core, SlotsAccounted, NEW t \in Threads, NEW k \in Keys, NEW rest,
         Submit(t, k, rest)
  PROVE  Abstract!Next \/ UNCHANGED StageOf
  <1>1. CASE Deduplicate(k, rest) \/ Reject(k, rest)
    BY <1>1, StageUnchanged DEF Deduplicate, Reject, futureVars
  <1>2. CASE Accept(t, k, rest)
    <2>1. PICK j \in Jobs : fut[j] = "unused" /\ fut' = [fut EXCEPT ![j] = "held"]
      BY <1>2 DEF Accept
    <2>2. Cardinality(Abstract!Admitted) < MaxPending
      BY <1>2, AdmittedHoldsSlot, HoldsSlotFinite, ConstantsAssumption
         DEF Accept, CapacityLeft, SlotsAccounted, Core, TypeOK
    <2>3. Abstract!Admit(j)
      BY <2>1, <2>2, StageMove, Stages, SameCardinality
         DEF Abstract!Admit, FutureStates, Core
    <2> QED
      BY <2>3 DEF Abstract!Next
  <1> QED
    BY <1>1, <1>2 DEF Submit

(* Every step of the scheduler is a step of BoundedJobs or a stutter. *)
LEMMA StepRefines ==
  Core /\ SlotsAccounted /\ [Next]_vars => Abstract!Next \/ UNCHANGED StageOf
  <1> SUFFICES ASSUME Core, SlotsAccounted, [Next]_vars
               PROVE  Abstract!Next \/ UNCHANGED StageOf
    OBVIOUS
  <1> DEFINE Goal == Abstract!Next \/ UNCHANGED StageOf
  <1> USE DEF futureVars
  <1>1. ASSUME NEW t \in Threads, NEW k \in Keys, Request(t, k) PROVE Goal
    BY <1>1, SubmitRefines DEF Request
  <1>2. ASSUME NEW t \in Threads, Enqueue(t) PROVE Goal
    <2>1. cur[t] \in Jobs /\ fut[cur[t]] = "held"
      BY <1>2 DEF Enqueue, Core, Placement, HandlersPlaced
    <2>2. StageOf' = StageOf
      BY <1>2, <2>1, StageMove, Stages DEF Enqueue, FutureStates, Core
    <2> QED
      BY <2>2
  <1>3. ASSUME NEW t \in Threads, EnqueueRefused(t) PROVE Goal
    <2>1. cur[t] \in Jobs /\ fut[cur[t]] = "held"
      BY <1>3 DEF EnqueueRefused, Core, Placement, HandlersPlaced
    <2>2. Abstract!Lose(cur[t])
      BY <1>3, <2>1, StageMove, Stages
         DEF EnqueueRefused, Abstract!Lose, FutureStates, Core
    <2> QED
      BY <2>1, <2>2 DEF Abstract!Next
  <1>4. ASSUME NEW t \in Threads, Register(t) PROVE Goal
    BY <1>4, StageUnchanged DEF Register
  <1>5. ASSUME NEW t \in Threads, NEW f \in Filters, RetryFailed(t, f) PROVE Goal
    BY <1>5, StageUnchanged DEF RetryFailed
  <1>6. ASSUME NEW t \in Threads, RetryNext(t) PROVE Goal
    <2>1. PICK i \in DOMAIN todo[t] : Submit(t, todo[t][i].key, TodoWithout(t, i))
      BY <1>6 DEF RetryNext
    <2>2. todo[t][i].key \in Keys
      BY DEF Core, TypeOK, IsTodo, FailedRecord
    <2> QED
      BY <2>1, <2>2, SubmitRefines
  <1>7. ASSUME NEW t \in Threads, RetryUnmappable(t) PROVE Goal
    BY <1>7, StageUnchanged DEF RetryUnmappable
  <1>8. ASSUME NEW w \in Workers, Take(w) PROVE Goal
    <2> DEFINE j == Head(queue)
    <2>1. j \in Jobs /\ fut[j] = "pending"
      BY <1>8, HeadOfQueue DEF Take, Core, Placement
    <2>2. Cardinality(Abstract!Busy) < Cardinality(Workers)
      BY <1>8, BusyBound DEF Take
    <2>3. Abstract!Start(j)
      BY <1>8, <2>1, <2>2, StageMove, Stages, SameCardinality
         DEF Take, Abstract!Start, FutureStates, Core
    <2> QED
      BY <2>1, <2>3 DEF Abstract!Next
  <1>9. ASSUME NEW w \in Workers, RunJobStart(w) PROVE Goal
    BY <1>9, StageUnchanged DEF RunJobStart
  <1>10. ASSUME NEW w \in Workers, RunJobEnd(w) PROVE Goal
    <2>1. wjob[w] \in Jobs /\ fut[wjob[w]] = "running"
      BY <1>10 DEF RunJobEnd, Core, Placement, WorkersPlaced
    <2>2. PICK outcome \in {"ok", "failed"} : fut' = [fut EXCEPT ![wjob[w]] = outcome]
      BY <1>10 DEF RunJobEnd
    <2>3. Abstract!Finish(wjob[w])
      BY <2>1, <2>2, StageMove, Stages
         DEF Abstract!Finish, FutureStates, Core
    <2> QED
      BY <2>1, <2>3 DEF Abstract!Next
  <1>11. ASSUME NEW w \in Workers, Done(w) PROVE Goal
    <2>1. /\ wjob[w] \in Jobs /\ fut[wjob[w]] \in {"ok", "failed"}
          /\ fut' = [fut EXCEPT ![wjob[w]] = "retired"]
      BY <1>11 DEF Done, Core, Placement, WorkersPlaced
    <2>2. Abstract!Retire(wjob[w])
      BY <2>1, StageMove, Stages
         DEF Abstract!Retire, FutureStates, Core
    <2> QED
      BY <2>1, <2>2 DEF Abstract!Next
  <1>12. CASE Shutdown \/ UNCHANGED vars
    BY <1>12, StageUnchanged DEF Shutdown, vars
  <1> QED
    BY <1>1, <1>2, <1>3, <1>4, <1>5, <1>6, <1>7, <1>8, <1>9, <1>10, <1>11, <1>12 DEF Next

(* The scheduler implements BoundedJobs: for any capacity and any number of *)
(* workers, admission is bounded by the first, work by the second, and no   *)
(* job is run or retired twice.                                             *)
THEOREM Refinement == Spec => ImplementsBoundedJobs
  <1>1. Init => Abstract!Init
    BY DEF Init, Abstract!Init, Stage
  <1>2. Core /\ SlotsAccounted /\ [Next]_vars => [Abstract!Next]_StageOf
    BY StepRefines
  <1> QED
    BY <1>1, <1>2, CoreInvariant, SlotsConserved, PTL
       DEF Spec, ImplementsBoundedJobs, Abstract!Spec, StageOf

=============================================================================
