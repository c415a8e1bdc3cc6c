------------------------ MODULE MirrorPipeline_proofs ------------------------
(***************************************************************************)
(* Proofs of the properties of MirrorPipeline, for any processes, readers, *)
(* refs, batch size, number of attempts and number of upstream changes.    *)
(***************************************************************************)
EXTENDS MirrorPipeline, TLAPS

-----------------------------------------------------------------------------
(* The inductive invariant, in parts. *)

Checked == {"project", "list", "push", "finish", "stamp", "stamped"}
Created == {"list", "push", "finish", "stamp", "stamped"}

(* A process is in the protected part of mirror_once() exactly while it     *)
(* holds the repository's flock.                                            *)
LockHeld == \A p \in Procs : pc[p] \in InLock <=> holder = p

(* What is on disk for whom.  Only a mirror that knows what to fetch has    *)
(* refs, and what the holder of the lock has found there stays, because     *)
(* nobody else touches the directory.                                       *)
DiskPlaced ==
  /\ localDir # "repo" => localRefs = Absent
  /\ \A p \in Procs :
       /\ pc[p] = "clone" => localDir = "none"
       /\ pc[p] = "cleanup" => localRefs = Absent
       /\ pc[p] \in {"update", "check"} => localDir \in {"bare", "repo"}
       /\ pc[p] \in Checked => LocalHasRefs

(* Every attempt but the running one was a fault of its own.                *)
AttemptsCounted ==
  \A p \in Procs :
    /\ pc[p] \in {"clone", "update", "push"} => faults[p] + 1 = attempt[p]
    /\ pc[p] = "cleanup" => faults[p] = attempt[p]

(* What a job goes on with was fetched after it was asked for.              *)
FetchedSince ==
  /\ localAsOf <= now
  /\ \A p \in Procs :
       /\ startedAt[p] <= now
       /\ pc[p] = "check" /\ localDir = "repo" => localAsOf >= startedAt[p]
       /\ pc[p] \in Checked => localAsOf >= startedAt[p]

(* What is not left to push is on GitLab as it is in the local mirror.      *)
PushedSoFar ==
  \A p \in Procs :
    /\ pc[p] = "push" =>
         /\ todo[p] \subseteq Refspecs
         /\ \A r \in Refspecs \ todo[p] : gl[r] = localRefs[r]
    /\ pc[p] \in {"finish", "stamp", "stamped"} => Synced
    /\ pc[p] \in {"push", "finish", "stamp", "stamped"} => Refspecs # {}

(* Every value in the local mirror and on GitLab was one of the upstream,   *)
(* and the three are ordered: GitLab never has a later state of a ref than  *)
(* the local mirror, nor that a later one than the upstream.                *)
ValuesOrdered ==
  \A r \in Refs :
    /\ past[r] \subseteq 0 .. now
    /\ up[r] \in past[r]
    /\ up[r] # 0 => \A v \in past[r] : v <= up[r]
    /\ localRefs[r] # 0 => localRefs[r] \in past[r]
    /\ gl[r] \notin {0, Readme} => gl[r] \in past[r]
    /\ localRefs[r] # 0 /\ gl[r] # Readme => gl[r] <= localRefs[r]

(* GitLab has refs only in a project, and a project is there before refs    *)
(* are pushed.                                                              *)
ProjectFirst ==
  /\ ~project => gl = Absent
  /\ \A p \in Procs : pc[p] \in Created => project

PipelineInv ==
  /\ TypeOK
  /\ LockHeld
  /\ DiskPlaced
  /\ AttemptsCounted
  /\ FetchedSince
  /\ PushedSoFar
  /\ ValuesOrdered
  /\ ProjectFirst
  /\ FailsOnlyWithReason
  /\ FreshMeansServable

-----------------------------------------------------------------------------
(* Facts the steps need. *)

(* A ref that is pushed is safe, and its value is one of the upstream's.    *)
LEMMA RefspecValues ==
  ASSUME TypeOK
  PROVE  \A r \in Refspecs : /\ r \in SafeRefs
                            /\ localRefs[r] \in Versions
                            /\ localRefs[r] \notin {0, Readme}
  BY PipelineAssumption DEF TypeOK, Refspecs, Versions

(* A batch is taken from what is left to push.                              *)
LEMMA BatchOf == \A s : NextBatch(s) \subseteq s
  BY DEF NextBatch

-----------------------------------------------------------------------------
(* Every step of a process, of a reader and of the world around. *)

(* A process that asks for a mirror notes the moment and waits.             *)
LEMMA BeginInv ==
  ASSUME PipelineInv, NEW p \in Procs, Begin(p)
  PROVE  PipelineInv'
  <1> USE PipelineAssumption DEF PipelineInv, TypeOK, Begin, Goto, upVars, localVars,
                                 gitlabVars
  <1>1. TypeOK'
    BY DEF Versions
  <1>2. LockHeld' /\ DiskPlaced'
    BY DEF LockHeld, DiskPlaced, InLock, LocalHasRefs, Checked
  <1>3. AttemptsCounted' /\ FetchedSince' /\ FailsOnlyWithReason'
    BY DEF AttemptsCounted, FetchedSince, FailsOnlyWithReason, Checked, LocalHasRefs
  <1>4. ProjectFirst' /\ PushedSoFar' /\ ValuesOrdered' /\ FreshMeansServable'
    BY DEF ProjectFirst, PushedSoFar, ValuesOrdered, FreshMeansServable, Created, Synced,
           Refspecs
  <1> QED
    BY <1>1, <1>2, <1>3, <1>4

(* The lock was free, so nobody else is in the protected part.              *)
LEMMA AcquireInv ==
  ASSUME PipelineInv, NEW p \in Procs, Acquire(p)
  PROVE  PipelineInv'
  <1> USE PipelineAssumption DEF PipelineInv, TypeOK, Acquire, Goto, LockFree, upVars,
                                 localVars, gitlabVars
  <1>1. TypeOK'
    BY DEF InLock
  <1>2. LockHeld' /\ DiskPlaced'
    BY DEF LockHeld, DiskPlaced, InLock, Checked
  <1>3. AttemptsCounted' /\ FetchedSince' /\ FailsOnlyWithReason'
    BY DEF AttemptsCounted, FetchedSince, FailsOnlyWithReason, Checked, LocalHasRefs
  <1>4. ProjectFirst' /\ PushedSoFar' /\ ValuesOrdered' /\ FreshMeansServable'
    BY DEF ProjectFirst, PushedSoFar, ValuesOrdered, FreshMeansServable, Created, LockHeld
  <1> QED
    BY <1>1, <1>2, <1>3, <1>4

(* What is no repository is removed, and had no refs to lose.               *)
LEMMA InspectLocalInv ==
  ASSUME PipelineInv, NEW p \in Procs, InspectLocal(p)
  PROVE  PipelineInv'
  <1> USE PipelineAssumption DEF PipelineInv, TypeOK, InspectLocal, Goto, FreshCommand,
                                 JunkRemoved, upVars, gitlabVars
  <1>1. TypeOK'
    BY DEF Versions, InLock, Absent
  <1>2. LockHeld' /\ DiskPlaced'
    BY DEF LockHeld, DiskPlaced, InLock, Checked
  <1>3. AttemptsCounted' /\ FetchedSince' /\ FailsOnlyWithReason'
    BY DEF AttemptsCounted, FetchedSince, FailsOnlyWithReason, Checked, LocalHasRefs
  <1>4. ProjectFirst' /\ PushedSoFar' /\ ValuesOrdered' /\ FreshMeansServable'
    BY DEF ProjectFirst, PushedSoFar, ValuesOrdered, FreshMeansServable, Created,
           LockHeld, DiskPlaced
  <1> QED
    BY <1>1, <1>2, <1>3, <1>4

(* A clone takes the place of nothing and fetches everything.               *)
LEMMA CloneInv ==
  ASSUME PipelineInv, NEW p \in Procs, Clone(p)
  PROVE  PipelineInv'
  <1> USE PipelineAssumption DEF PipelineInv, TypeOK, Clone, Goto, FetchAll, upVars,
                                 gitlabVars
  <1>1. TypeOK'
    BY DEF Versions, InLock
  <1>2. LockHeld' /\ DiskPlaced'
    BY DEF LockHeld, DiskPlaced, InLock, Checked
  <1>3. AttemptsCounted' /\ FetchedSince' /\ FailsOnlyWithReason'
    BY DEF AttemptsCounted, FetchedSince, FailsOnlyWithReason
  <1>4. ProjectFirst' /\ PushedSoFar' /\ ValuesOrdered' /\ FreshMeansServable'
    BY DEF ProjectFirst, PushedSoFar, ValuesOrdered, FreshMeansServable, Created, LockHeld
  <1> QED
    BY <1>1, <1>2, <1>3, <1>4

(* Whatever a failed clone leaves has no refs.                              *)
LEMMA CloneFailsInv ==
  ASSUME PipelineInv, NEW p \in Procs, CloneFails(p)
  PROVE  PipelineInv'
  <1> USE PipelineAssumption DEF PipelineInv, TypeOK, CloneFails, Goto, Leftovers,
                                 upVars, gitlabVars
  <1>1. TypeOK'
    BY DEF InLock, AttemptsCounted
  <1>2. LockHeld' /\ DiskPlaced'
    BY DEF LockHeld, DiskPlaced, InLock, Checked
  <1>3. AttemptsCounted' /\ FetchedSince' /\ FailsOnlyWithReason'
    BY DEF AttemptsCounted, FetchedSince, FailsOnlyWithReason, DiskPlaced, Checked
  <1>4. ProjectFirst' /\ PushedSoFar' /\ ValuesOrdered' /\ FreshMeansServable'
    BY DEF ProjectFirst, PushedSoFar, ValuesOrdered, FreshMeansServable, Created, LockHeld
  <1> QED
    BY <1>1, <1>2, <1>3, <1>4

(* Only what has no refs is cleaned away; after it a clone finds its way    *)
(* free, or the last attempt was a fault of its own.                        *)
LEMMA CleanupInv ==
  ASSUME PipelineInv, NEW p \in Procs, Cleanup(p)
  PROVE  PipelineInv'
  <1> USE PipelineAssumption DEF PipelineInv, TypeOK, Cleanup, Goto, CleansUp,
                                 RetryOrFail, MayRetry, upVars, gitlabVars
  <1>1. TypeOK'
    BY DEF InLock
  <1>2. LockHeld' /\ DiskPlaced'
    BY DEF LockHeld, DiskPlaced, InLock, LocalHasRefs, HasRefs, Absent, Checked
  <1>3. AttemptsCounted' /\ FetchedSince' /\ FailsOnlyWithReason'
    BY DEF AttemptsCounted, FetchedSince, FailsOnlyWithReason, LockHeld, Checked
  <1>4. ProjectFirst' /\ PushedSoFar' /\ ValuesOrdered' /\ FreshMeansServable'
    BY DEF ProjectFirst, PushedSoFar, ValuesOrdered, FreshMeansServable, Created, LockHeld
  <1> QED
    BY <1>1, <1>2, <1>3, <1>4

(* A mirror that knows what to fetch is as the upstream is now; any other   *)
(* stays without refs.                                                      *)
LEMMA UpdateInv ==
  ASSUME PipelineInv, NEW p \in Procs, Update(p)
  PROVE  PipelineInv'
  <1> USE PipelineAssumption DEF PipelineInv, TypeOK, Update, Goto, FetchAll,
                                 FetchNothing, upVars, localVars, gitlabVars
  <1>1. TypeOK'
    BY DEF Versions, InLock
  <1>2. LockHeld' /\ DiskPlaced'
    BY DEF LockHeld, DiskPlaced, InLock, Checked
  <1>3. AttemptsCounted' /\ FetchedSince' /\ FailsOnlyWithReason'
    BY DEF AttemptsCounted, FetchedSince, FailsOnlyWithReason, Checked, LocalHasRefs
  <1>4. ProjectFirst' /\ PushedSoFar' /\ ValuesOrdered' /\ FreshMeansServable'
    BY DEF ProjectFirst, PushedSoFar, ValuesOrdered, FreshMeansServable, Created, LockHeld
  <1> QED
    BY <1>1, <1>2, <1>3, <1>4

(* The refs that moved moved to what the upstream has now.                  *)
LEMMA UpdateFailsInv ==
  ASSUME PipelineInv, NEW p \in Procs, UpdateFails(p)
  PROVE  PipelineInv'
  <1> USE PipelineAssumption DEF PipelineInv, TypeOK, UpdateFails, Goto, RetryOrFail,
                                 MayRetry, upVars, gitlabVars
  <1>1. TypeOK'
    BY DEF InLock, AttemptsCounted
  <1>2. LockHeld' /\ DiskPlaced'
    BY DEF LockHeld, DiskPlaced, InLock, Checked
  <1>3. AttemptsCounted' /\ FetchedSince' /\ FailsOnlyWithReason'
    BY DEF AttemptsCounted, FetchedSince, FailsOnlyWithReason, Checked, LocalHasRefs,
           HasRefs
  <1>4. ProjectFirst' /\ PushedSoFar'
    BY DEF ProjectFirst, PushedSoFar, Created, LockHeld
  <1>5. ValuesOrdered'
    BY DEF ValuesOrdered
  <1>6. FreshMeansServable'
    BY DEF FreshMeansServable
  <1> QED
    BY <1>1, <1>2, <1>3, <1>4, <1>5, <1>6

(* Only a mirror with refs passes; it knows what to fetch, so they were     *)
(* fetched just now.                                                        *)
LEMMA CheckRefsInv ==
  ASSUME PipelineInv, NEW p \in Procs, CheckRefs(p)
  PROVE  PipelineInv'
  <1> USE PipelineAssumption DEF PipelineInv, TypeOK, CheckRefs, Goto, FetchedRefs,
                                 upVars, localVars, gitlabVars
  <1>1. TypeOK'
    BY DEF InLock
  <1>2. LockHeld' /\ DiskPlaced'
    BY DEF LockHeld, DiskPlaced, InLock, LocalHasRefs, Checked
  <1>3. AttemptsCounted'
    BY DEF AttemptsCounted
  <1>4. FailsOnlyWithReason'
    <2>1. \A q \in Procs : pc'[q] = "failed" => q = p
      BY DEF LockHeld
    <2>2. pc'[p] = "failed" => ~LocalHasRefs'
      BY DEF LocalHasRefs
    <2>3. pc'[p] = "failed" /\ localDir = "repo" => excused'[p] = TRUE
      OBVIOUS
    <2>4. localDir' = localDir /\ localDir \in {"bare", "repo"}
      BY DEF DiskPlaced
    <2> QED
      BY <2>1, <2>2, <2>3, <2>4 DEF FailsOnlyWithReason
  <1>5. FetchedSince'
    BY DEF FetchedSince, DiskPlaced, Checked, LocalHasRefs, HasRefs, Absent
  <1>6. ProjectFirst' /\ PushedSoFar' /\ ValuesOrdered' /\ FreshMeansServable'
    BY DEF ProjectFirst, PushedSoFar, ValuesOrdered, FreshMeansServable, Created, LockHeld
  <1> QED
    BY <1>1, <1>2, <1>3, <1>4, <1>5, <1>6

(* A project comes into being with the commit GitLab makes, or stays as it  *)
(* is.                                                                      *)
LEMMA EnsureProjectInv ==
  ASSUME PipelineInv, NEW p \in Procs, EnsureProject(p)
  PROVE  PipelineInv'
  <1> USE PipelineAssumption DEF PipelineInv, TypeOK, EnsureProject, Goto,
                                 CreateProject, upVars, localVars
  <1>1. TypeOK'
    BY DEF InLock
  <1>2. LockHeld' /\ DiskPlaced'
    BY DEF LockHeld, DiskPlaced, InLock, LocalHasRefs, Checked
  <1>3. AttemptsCounted' /\ FetchedSince' /\ FailsOnlyWithReason'
    BY DEF AttemptsCounted, FetchedSince, FailsOnlyWithReason, Checked, LocalHasRefs
  <1>4. ProjectFirst' /\ PushedSoFar' /\ ValuesOrdered' /\ FreshMeansServable'
    BY DEF ProjectFirst, PushedSoFar, ValuesOrdered, FreshMeansServable, Absent, LockHeld
  <1> QED
    BY <1>1, <1>2, <1>3, <1>4

(* Whether or not the project was created, the job has an excuse.           *)
LEMMA EnsureProjectFailsInv ==
  ASSUME PipelineInv, NEW p \in Procs, EnsureProjectFails(p)
  PROVE  PipelineInv'
  <1> USE PipelineAssumption DEF PipelineInv, TypeOK, EnsureProjectFails, Goto,
                                 CreateProject, Excuse, upVars, localVars, gitlabVars
  <1>1. TypeOK'
    BY DEF InLock
  <1>2. LockHeld' /\ DiskPlaced'
    BY DEF LockHeld, DiskPlaced, InLock, Checked
  <1>3. AttemptsCounted' /\ FetchedSince' /\ FailsOnlyWithReason'
    BY DEF AttemptsCounted, FetchedSince, FailsOnlyWithReason, Checked, LocalHasRefs
  <1>4. ProjectFirst' /\ PushedSoFar' /\ ValuesOrdered' /\ FreshMeansServable'
    BY DEF ProjectFirst, PushedSoFar, ValuesOrdered, FreshMeansServable, Created, Absent,
           LockHeld
  <1> QED
    BY <1>1, <1>2, <1>3, <1>4

(* Everything safe is left to push.                                         *)
LEMMA ListRefsInv ==
  ASSUME PipelineInv, NEW p \in Procs, ListRefs(p)
  PROVE  PipelineInv'
  <1> USE PipelineAssumption DEF PipelineInv, TypeOK, ListRefs, Goto, NothingSafe,
                                 Excuse, FreshCommand, upVars, localVars, gitlabVars
  <1>1. TypeOK'
    <2>1. Refspecs \in SUBSET Refs
      BY DEF Refspecs
    <2>2. todo' \in [Procs -> SUBSET Refs]
      BY <2>1
    <2>3. pc' \in [Procs -> {"idle", "lock"} \cup InLock]
      BY DEF InLock
    <2>4. excused' \in [Procs -> BOOLEAN]
      OBVIOUS
    <2>5. attempt' \in [Procs -> 1 .. Attempts] /\ faults' \in [Procs -> 0 .. Attempts]
      OBVIOUS
    <2> QED
      BY <2>2, <2>3, <2>4, <2>5
  <1>2. LockHeld' /\ DiskPlaced'
    BY DEF LockHeld, DiskPlaced, InLock, LocalHasRefs, Checked
  <1>3. AttemptsCounted' /\ FetchedSince' /\ FailsOnlyWithReason'
    BY DEF AttemptsCounted, FetchedSince, FailsOnlyWithReason, Checked, LocalHasRefs
  <1>4. ProjectFirst' /\ PushedSoFar' /\ ValuesOrdered' /\ FreshMeansServable'
    BY DEF ProjectFirst, PushedSoFar, ValuesOrdered, FreshMeansServable, Created,
           Refspecs, LockHeld
  <1> QED
    BY <1>1, <1>2, <1>3, <1>4

(* The refs of one batch are as in the local mirror, and no longer left to  *)
(* push.                                                                    *)
LEMMA PushInv ==
  ASSUME PipelineInv, NEW p \in Procs, Push(p)
  PROVE  PipelineInv'
  <1> USE PipelineAssumption DEF PipelineInv, TypeOK, Push, Goto, Pushed, LeftAfter,
                                 Rest, FreshCommand, upVars, localVars
  <1>1. TypeOK'
    BY DEF InLock
  <1>2. LockHeld' /\ DiskPlaced'
    BY DEF LockHeld, DiskPlaced, InLock, LocalHasRefs, Checked
  <1>3. AttemptsCounted' /\ FetchedSince' /\ FailsOnlyWithReason'
    BY DEF AttemptsCounted, FetchedSince, FailsOnlyWithReason, Checked, LocalHasRefs
  <1>4. NextBatch(todo[p]) \subseteq Refspecs
    BY BatchOf DEF PushedSoFar
  <1>5. ProjectFirst'
    BY DEF ProjectFirst, Created
  <1>6. PushedSoFar'
    BY <1>4 DEF PushedSoFar, Synced, Refspecs
  <1>7. ValuesOrdered'
    BY <1>4, RefspecValues DEF ValuesOrdered
  <1>8. FreshMeansServable'
    BY <1>4, RefspecValues DEF FreshMeansServable
  <1> QED
    BY <1>1, <1>2, <1>3, <1>4, <1>5, <1>6, <1>7, <1>8

(* Some refs of the batch are as in the local mirror; all of them are pushed*)
(* again.                                                                   *)
LEMMA PushFailsInv ==
  ASSUME PipelineInv, NEW p \in Procs, PushFails(p)
  PROVE  PipelineInv'
  <1> USE PipelineAssumption DEF PipelineInv, TypeOK, PushFails, Goto, Pushed,
                                 RetryOrFail, MayRetry, upVars, localVars
  <1>1. TypeOK'
    BY DEF InLock, AttemptsCounted
  <1>2. LockHeld' /\ DiskPlaced'
    BY DEF LockHeld, DiskPlaced, InLock, LocalHasRefs, Checked
  <1>3. AttemptsCounted' /\ FetchedSince' /\ FailsOnlyWithReason'
    BY DEF AttemptsCounted, FetchedSince, FailsOnlyWithReason, Checked, LocalHasRefs
  <1>4. NextBatch(todo[p]) \subseteq Refspecs
    BY BatchOf DEF PushedSoFar
  <1>5. ProjectFirst' /\ PushedSoFar'
    BY <1>4 DEF ProjectFirst, PushedSoFar, Created, Refspecs, LockHeld
  <1>6. ValuesOrdered'
    BY <1>4, RefspecValues DEF ValuesOrdered
  <1>7. FreshMeansServable'
    BY <1>4, RefspecValues DEF FreshMeansServable
  <1> QED
    BY <1>1, <1>2, <1>3, <1>4, <1>5, <1>6, <1>7

(* Nothing is left to push.                                                 *)
LEMMA FinishInv ==
  ASSUME PipelineInv, NEW p \in Procs, Finish(p)
  PROVE  PipelineInv'
  <1> USE PipelineAssumption DEF PipelineInv, TypeOK, Finish, Goto, upVars, localVars,
                                 gitlabVars
  <1>1. TypeOK'
    BY DEF InLock
  <1>2. LockHeld' /\ DiskPlaced'
    BY DEF LockHeld, DiskPlaced, InLock, LocalHasRefs, Checked
  <1>3. AttemptsCounted' /\ FetchedSince' /\ FailsOnlyWithReason'
    BY DEF AttemptsCounted, FetchedSince, FailsOnlyWithReason, Checked, LocalHasRefs
  <1>4. ProjectFirst' /\ PushedSoFar' /\ ValuesOrdered' /\ FreshMeansServable'
    BY DEF ProjectFirst, PushedSoFar, ValuesOrdered, FreshMeansServable, Created, Synced,
           Refspecs
  <1> QED
    BY <1>1, <1>2, <1>3, <1>4

(* The refs cannot be listed: the job has an excuse.                        *)
LEMMA ListRefsFailsInv ==
  ASSUME PipelineInv, NEW p \in Procs, ListRefsFails(p)
  PROVE  PipelineInv'
  <1> USE PipelineAssumption DEF PipelineInv, TypeOK, ListRefsFails, Goto, Excuse, upVars,
                                 localVars, gitlabVars
  <1>1. TypeOK'
    BY DEF InLock
  <1>2. LockHeld' /\ DiskPlaced'
    BY DEF LockHeld, DiskPlaced, InLock, Checked
  <1>3. AttemptsCounted' /\ FetchedSince' /\ FailsOnlyWithReason'
    BY DEF AttemptsCounted, FetchedSince, FailsOnlyWithReason, Checked, LocalHasRefs
  <1>4. ProjectFirst' /\ PushedSoFar' /\ ValuesOrdered' /\ FreshMeansServable'
    BY DEF ProjectFirst, PushedSoFar, ValuesOrdered, FreshMeansServable, Created, LockHeld
  <1> QED
    BY <1>1, <1>2, <1>3, <1>4

(* The default branch or LFS fails for a reason of GitLab's.                *)
LEMMA FinishFailsInv ==
  ASSUME PipelineInv, NEW p \in Procs, FinishFails(p)
  PROVE  PipelineInv'
  <1> USE PipelineAssumption DEF PipelineInv, TypeOK, FinishFails, Goto, Excuse, upVars,
                                 localVars, gitlabVars
  <1>1. TypeOK'
    BY DEF InLock
  <1>2. LockHeld' /\ DiskPlaced'
    BY DEF LockHeld, DiskPlaced, InLock, Checked
  <1>3. AttemptsCounted' /\ FetchedSince' /\ FailsOnlyWithReason'
    BY DEF AttemptsCounted, FetchedSince, FailsOnlyWithReason, Checked, LocalHasRefs
  <1>4. ProjectFirst' /\ PushedSoFar' /\ ValuesOrdered' /\ FreshMeansServable'
    BY DEF ProjectFirst, PushedSoFar, ValuesOrdered, FreshMeansServable, Created, LockHeld
  <1> QED
    BY <1>1, <1>2, <1>3, <1>4

(* The stamp is touched when GitLab has all that is safe, and that is       *)
(* something.                                                               *)
LEMMA TouchStampInv ==
  ASSUME PipelineInv, NEW p \in Procs, TouchStamp(p)
  PROVE  PipelineInv'
  <1> USE PipelineAssumption DEF PipelineInv, TypeOK, TouchStamp, Goto, upVars,
                                 localVars, gitlabVars
  <1>1. TypeOK'
    BY DEF InLock
  <1>2. LockHeld' /\ DiskPlaced'
    BY DEF LockHeld, DiskPlaced, InLock, LocalHasRefs, Checked
  <1>3. AttemptsCounted' /\ FetchedSince' /\ FailsOnlyWithReason'
    BY DEF AttemptsCounted, FetchedSince, FailsOnlyWithReason, Checked, LocalHasRefs
  <1>4. ProjectFirst' /\ PushedSoFar' /\ ValuesOrdered'
    BY DEF ProjectFirst, PushedSoFar, ValuesOrdered, Created, Synced, Refspecs
  <1>5. FreshMeansServable'
    <2>1. PICK r \in Refspecs : gl[r] = localRefs[r]
      BY DEF PushedSoFar, Synced
    <2>2. r \in SafeRefs /\ gl[r] \notin {0, Readme}
      BY <2>1, RefspecValues
    <2> QED
      BY <2>2 DEF FreshMeansServable
  <1> QED
    BY <1>1, <1>2, <1>3, <1>4, <1>5

(* A process that has left knows nothing of its run.                        *)
LEMMA ReleaseInv ==
  ASSUME PipelineInv, NEW p \in Procs, Release(p)
  PROVE  PipelineInv'
  <1> USE PipelineAssumption DEF PipelineInv, TypeOK, Release, Goto, Leaves, EndRun,
                                 FreshCommand, upVars, localVars, gitlabVars
  <1>1. TypeOK'
    BY DEF Versions
  <1>2. LockHeld' /\ DiskPlaced'
    BY DEF LockHeld, DiskPlaced, InLock, Checked
  <1>3. AttemptsCounted' /\ FetchedSince' /\ FailsOnlyWithReason'
    BY DEF AttemptsCounted, FetchedSince, FailsOnlyWithReason, Versions, LocalHasRefs
  <1>4. ProjectFirst' /\ PushedSoFar' /\ ValuesOrdered' /\ FreshMeansServable'
    BY DEF ProjectFirst, PushedSoFar, ValuesOrdered, FreshMeansServable, Created, LockHeld
  <1> QED
    BY <1>1, <1>2, <1>3, <1>4

(* A killed process loses its lock; what its clone leaves has no refs.      *)
LEMMA CrashInv ==
  ASSUME PipelineInv, NEW p \in Procs, Crash(p)
  PROVE  PipelineInv'
  <1> USE PipelineAssumption DEF PipelineInv, TypeOK, Crash, Goto, Leftovers, EndRun,
                                 FreshCommand, upVars, gitlabVars
  <1>1. TypeOK'
    BY DEF Versions
  <1>2. LockHeld' /\ DiskPlaced'
    BY DEF LockHeld, DiskPlaced, InLock, LocalHasRefs, Checked
  <1>3. AttemptsCounted' /\ FetchedSince' /\ FailsOnlyWithReason'
    BY DEF AttemptsCounted, FetchedSince, FailsOnlyWithReason, DiskPlaced, Versions,
           LocalHasRefs
  <1>4. ProjectFirst' /\ PushedSoFar' /\ ValuesOrdered' /\ FreshMeansServable'
    BY DEF ProjectFirst, PushedSoFar, ValuesOrdered, FreshMeansServable, Created, Synced,
           Refspecs
  <1> QED
    BY <1>1, <1>2, <1>3, <1>4

(* Readers change nothing a job works on.                                   *)
LEMMA ReaderInv ==
  ASSUME PipelineInv, NEW q \in Readers, ProjectSeen(q) \/ Hit(q) \/ Leave(q)
  PROVE  PipelineInv'
  <1> USE PipelineAssumption DEF PipelineInv, TypeOK, ProjectSeen, Hit, Leave, upVars,
                                 localVars, gitlabVars, jobVars
  <1>1. TypeOK'
    OBVIOUS
  <1>2. LockHeld' /\ DiskPlaced'
    BY DEF LockHeld, DiskPlaced, LocalHasRefs
  <1>3. AttemptsCounted' /\ FetchedSince' /\ FailsOnlyWithReason'
    BY DEF AttemptsCounted, FetchedSince, FailsOnlyWithReason, LocalHasRefs
  <1>4. ProjectFirst' /\ PushedSoFar' /\ ValuesOrdered' /\ FreshMeansServable'
    BY DEF ProjectFirst, PushedSoFar, ValuesOrdered, FreshMeansServable, Synced, Refspecs
  <1> QED
    BY <1>1, <1>2, <1>3, <1>4

(* The new state of a ref is later than all before.                         *)
LEMMA UpstreamChangesInv ==
  ASSUME PipelineInv, UpstreamChanges
  PROVE  PipelineInv'
  <1> USE PipelineAssumption DEF PipelineInv, TypeOK, UpstreamChanges, localVars,
                                 gitlabVars, jobVars
  <1>1. TypeOK'
    BY DEF Versions
  <1>2. LockHeld' /\ DiskPlaced'
    BY DEF LockHeld, DiskPlaced, LocalHasRefs
  <1>3. AttemptsCounted' /\ FetchedSince' /\ FailsOnlyWithReason'
    BY DEF AttemptsCounted, FetchedSince, FailsOnlyWithReason, Versions, LocalHasRefs
  <1>4. ProjectFirst' /\ PushedSoFar' /\ ValuesOrdered' /\ FreshMeansServable'
    BY DEF ProjectFirst, PushedSoFar, ValuesOrdered, FreshMeansServable, Synced, Refspecs
  <1> QED
    BY <1>1, <1>2, <1>3, <1>4

(* A stamp that is no longer fresh promises nothing.                        *)
LEMMA StampAgesInv ==
  ASSUME PipelineInv, StampAges
  PROVE  PipelineInv'
  <1> USE PipelineAssumption DEF PipelineInv, TypeOK, StampAges, upVars, localVars,
                                 gitlabVars, jobVars
  <1>1. TypeOK'
    OBVIOUS
  <1>2. LockHeld' /\ DiskPlaced'
    BY DEF LockHeld, DiskPlaced, LocalHasRefs
  <1>3. AttemptsCounted' /\ FetchedSince' /\ FailsOnlyWithReason'
    BY DEF AttemptsCounted, FetchedSince, FailsOnlyWithReason, LocalHasRefs
  <1>4. ProjectFirst' /\ PushedSoFar' /\ ValuesOrdered' /\ FreshMeansServable'
    BY DEF ProjectFirst, PushedSoFar, ValuesOrdered, FreshMeansServable, Synced, Refspecs
  <1> QED
    BY <1>1, <1>2, <1>3, <1>4

(* The cache is deleted while nobody works on it.                           *)
LEMMA DropCacheInv ==
  ASSUME PipelineInv, DropCache
  PROVE  PipelineInv'
  <1> USE PipelineAssumption DEF PipelineInv, TypeOK, DropCache, upVars, gitlabVars,
                                 jobVars
  <1>1. TypeOK'
    <2>1. localRefs' \in [Refs -> Versions] /\ localAsOf' \in Versions
      BY DEF Absent, Versions
    <2> QED
      BY <2>1
  <1>2. LockHeld' /\ DiskPlaced'
    BY DEF LockHeld, DiskPlaced, Checked
  <1>3. AttemptsCounted' /\ FetchedSince' /\ FailsOnlyWithReason'
    BY DEF AttemptsCounted, FetchedSince, FailsOnlyWithReason, LockHeld, Checked
  <1>4. ProjectFirst' /\ PushedSoFar' /\ ValuesOrdered' /\ FreshMeansServable'
    BY DEF ProjectFirst, PushedSoFar, ValuesOrdered, FreshMeansServable, Absent, LockHeld
  <1> QED
    BY <1>1, <1>2, <1>3, <1>4

-----------------------------------------------------------------------------
(* The invariant holds. *)

(* Nothing is mirrored yet and nobody has begun.                            *)
LEMMA InitInv == Init => PipelineInv
  <1> SUFFICES ASSUME Init PROVE PipelineInv
    OBVIOUS
  <1> USE PipelineAssumption DEF Init, Absent, Versions, InLock
  <1>1. TypeOK
    <2>1. /\ up \in [Refs -> Versions]
          /\ past \in [Refs -> SUBSET Versions]
          /\ localRefs \in [Refs -> Versions]
          /\ gl \in [Refs -> Versions \cup {Readme}]
      OBVIOUS
    <2>2. /\ attempt \in [Procs -> 1 .. Attempts]
          /\ startedAt \in [Procs -> Versions]
          /\ faults \in [Procs -> 0 .. Attempts]
      OBVIOUS
    <2>3. /\ pc \in [Procs -> {"idle", "lock"} \cup InLock]
          /\ todo \in [Procs -> SUBSET Refs]
          /\ excused \in [Procs -> BOOLEAN]
          /\ rpc \in [Readers -> {"idle", "refs", "gitlab"}]
      OBVIOUS
    <2>4. now \in 1 .. MaxChange /\ localAsOf \in Versions
      OBVIOUS
    <2> QED
      BY <2>1, <2>2, <2>3, <2>4 DEF TypeOK
  <1>2. LockHeld /\ DiskPlaced /\ AttemptsCounted /\ FetchedSince
    BY DEF LockHeld, DiskPlaced, AttemptsCounted, FetchedSince, Checked
  <1>3. PushedSoFar /\ ValuesOrdered /\ ProjectFirst
    BY DEF PushedSoFar, ValuesOrdered, ProjectFirst, Created
  <1>4. FailsOnlyWithReason /\ FreshMeansServable
    BY DEF FailsOnlyWithReason, FreshMeansServable
  <1> QED
    BY <1>1, <1>2, <1>3, <1>4 DEF PipelineInv

(* A step that changes no variable.                                         *)
LEMMA StutterInv ==
  ASSUME PipelineInv, UNCHANGED vars
  PROVE  PipelineInv'
  <1> USE DEF PipelineInv, vars, upVars, localVars, gitlabVars, jobVars
  <1>1. TypeOK'
    BY DEF TypeOK
  <1>2. LockHeld' /\ DiskPlaced' /\ AttemptsCounted' /\ FetchedSince'
    BY DEF LockHeld, DiskPlaced, AttemptsCounted, FetchedSince, LocalHasRefs
  <1>3. PushedSoFar' /\ ValuesOrdered' /\ ProjectFirst'
    BY DEF PushedSoFar, ValuesOrdered, ProjectFirst, Synced, Refspecs
  <1>4. FailsOnlyWithReason' /\ FreshMeansServable'
    BY DEF FailsOnlyWithReason, FreshMeansServable, LocalHasRefs
  <1> QED
    BY <1>1, <1>2, <1>3, <1>4

(* Every step keeps the invariant.                                          *)
LEMMA NextInv == PipelineInv /\ [Next]_vars => PipelineInv'
  <1> SUFFICES ASSUME PipelineInv, [Next]_vars PROVE PipelineInv'
    OBVIOUS
  <1>1. ASSUME NEW p \in Procs,
               Begin(p) \/ Acquire(p) \/ InspectLocal(p) \/ Release(p) \/ Crash(p)
        PROVE  PipelineInv'
    BY <1>1, BeginInv, AcquireInv, InspectLocalInv, ReleaseInv, CrashInv
  <1>2. ASSUME NEW p \in Procs,
               Clone(p) \/ CloneFails(p) \/ Cleanup(p) \/ Update(p) \/ UpdateFails(p)
        PROVE  PipelineInv'
    BY <1>2, CloneInv, CloneFailsInv, CleanupInv, UpdateInv, UpdateFailsInv
  <1>3. ASSUME NEW p \in Procs,
               \/ CheckRefs(p) \/ EnsureProject(p) \/ EnsureProjectFails(p)
               \/ ListRefs(p) \/ ListRefsFails(p)
        PROVE  PipelineInv'
    BY <1>3, CheckRefsInv, EnsureProjectInv, EnsureProjectFailsInv, ListRefsInv,
       ListRefsFailsInv
  <1>4. ASSUME NEW p \in Procs,
               Push(p) \/ PushFails(p) \/ Finish(p) \/ FinishFails(p) \/ TouchStamp(p)
        PROVE  PipelineInv'
    BY <1>4, PushInv, PushFailsInv, FinishInv, FinishFailsInv, TouchStampInv
  <1>5. ASSUME NEW q \in Readers, ProjectSeen(q) \/ Hit(q) \/ Leave(q)
        PROVE  PipelineInv'
    BY <1>5, ReaderInv
  <1>6. CASE UpstreamChanges \/ StampAges \/ DropCache
    BY <1>6, UpstreamChangesInv, StampAgesInv, DropCacheInv
  <1>7. CASE UNCHANGED vars
    BY <1>7, StutterInv
  <1> QED
    BY <1>1, <1>2, <1>3, <1>4, <1>5, <1>6, <1>7 DEF Next

(* All parts of the invariant hold in every state: the flock excludes, what *)
(* is on disk is what its holder believes, and the three places a ref is    *)
(* kept in are in order.                                                    *)
THEOREM Invariant == Spec => []PipelineInv
  <1>1. Init => PipelineInv
    BY InitInv
  <1>2. PipelineInv /\ [Next]_vars => PipelineInv'
    BY NextInv
  <1> QED
    BY <1>1, <1>2, PTL DEF Spec

(* The state of every process and of the mirror has its type; in particular *)
(* no git command is met by more failures than it has attempts.             *)
THEOREM TypeCorrect == Spec => []TypeOK
  <1>1. PipelineInv => TypeOK
    BY DEF PipelineInv
  <1> QED
    BY <1>1, Invariant, PTL

(* Whoever reports success has mirrored a state of the upstream that is not *)
(* older than its call, whatever other processes, kills and failed attempts *)
(* came in between.                                                         *)
THEOREM SuccessIsMirrored == Spec => []SuccessMeansMirrored
  <1>1. PipelineInv => SuccessMeansMirrored
    BY DEF PipelineInv, FetchedSince, PushedSoFar, Checked, SuccessMeansMirrored
  <1> QED
    BY <1>1, Invariant, PTL

(* No job is failed by what another one left on disk, but for the one kind  *)
(* of leftover that cleanup_partial_clone() does not see.                   *)
THEOREM FailuresHaveReasons == Spec => []FailsOnlyWithReason
  <1>1. PipelineInv => FailsOnlyWithReason
    BY DEF PipelineInv
  <1> QED
    BY <1>1, Invariant, PTL

(* A young stamp never stands for a mirror that has nothing to serve.       *)
THEOREM FreshIsServable == Spec => []FreshMeansServable
  <1>1. PipelineInv => FreshMeansServable
    BY DEF PipelineInv
  <1> QED
    BY <1>1, Invariant, PTL

-----------------------------------------------------------------------------
(* What a step may do to the project, to the local mirror and to what is    *)
(* served. *)

(* GitLab's project is touched only by the two steps that call the API      *)
(* about it.                                                                *)
LEMMA ProjectSteps ==
  ASSUME Next
  PROVE  \/ UNCHANGED project
         \/ \E p \in Procs : pc[p] = "project" /\ (EnsureProject(p) \/ EnsureProjectFails(p))
  BY DEF Next, gitlabVars, Begin, Acquire, InspectLocal, Clone, CloneFails, Cleanup, Update,
         UpdateFails, CheckRefs, EnsureProject, EnsureProjectFails, ListRefs, ListRefsFails, Push,
         PushFails, Finish, FinishFails, TouchStamp, Release, Crash, ProjectSeen, Hit, Leave,
         UpstreamChanges, StampAges, DropCache

(* A project comes into being only when there are refs to push to it.       *)
THEOREM NoEarlyProject == Spec => NoProjectWithoutLocalMirror
  <1>1. PipelineInv /\ [Next]_vars => [~project /\ project' => LocalHasRefs]_vars
    BY ProjectSteps DEF PipelineInv, DiskPlaced, Checked
  <1> QED
    BY <1>1, Invariant, PTL DEF Spec, NoProjectWithoutLocalMirror

(* The local mirror is changed by the holder of the lock who looks at it or *)
(* fetches, and by whoever deletes the cache.                               *)
LEMMA LocalSteps ==
  ASSUME Next
  PROVE  \/ UNCHANGED localRefs
         \/ \E p \in Procs :
              InspectLocal(p) \/ Clone(p) \/ Update(p) \/ UpdateFails(p)
         \/ DropCache
  BY DEF Next, localVars, Begin, Acquire, CloneFails, Cleanup, CheckRefs, EnsureProject,
         EnsureProjectFails, ListRefs, ListRefsFails, Push, PushFails, Finish, FinishFails,
         TouchStamp, Release, Crash, ProjectSeen, Hit, Leave, UpstreamChanges, StampAges

(* While a job runs no ref is lost that the upstream still has.             *)
THEOREM OnlyPrunes == Spec => RefreshOnlyPrunes
  <1> DEFINE Prunes == \A r \in Refs : localRefs[r] # 0 /\ localRefs'[r] = 0 => up[r] = 0
  <1>1. ASSUME PipelineInv, NEW p \in Procs, InspectLocal(p)
        PROVE  Prunes
    BY <1>1 DEF PipelineInv, DiskPlaced, InspectLocal, JunkRemoved
  <1>2. ASSUME NEW p \in Procs, Clone(p) \/ Update(p)
        PROVE  Prunes
    BY <1>2 DEF Clone, Update, FetchAll, FetchNothing, localVars
  <1>3. ASSUME NEW p \in Procs, UpdateFails(p)
        PROVE  Prunes
    BY <1>3 DEF UpdateFails
  <1>4. PipelineInv /\ [Next]_vars => [holder # Nobody => Prunes]_vars
    BY <1>1, <1>2, <1>3, LocalSteps DEF DropCache
  <1> QED
    BY <1>4, Invariant, PTL DEF Spec, RefreshOnlyPrunes

-----------------------------------------------------------------------------
(* All processes together implement ServedMirror: the initial states are    *)
(* the same, and every step moves what is served as the promise allows or   *)
(* leaves it alone. *)

(* What is pushed from the local mirror is in order with what was there.    *)
LEMMA PushedMoves ==
  ASSUME PipelineInv, project, NEW some \in SUBSET Refspecs, gl' = Pushed(some),
         UNCHANGED <<now, up, past, project>>
  PROVE  Promise!RefsMove \/ UNCHANGED Promise!mirrorVars
  <1> USE PipelineAssumption DEF PipelineInv, TypeOK, Versions
  <1>1. ASSUME NEW r \in Refs, gl'[r] # gl[r]
        PROVE  r \in some /\ gl'[r] = localRefs[r] /\ localRefs[r] # 0
    BY <1>1 DEF Pushed, Refspecs
  <1>2. ASSUME NEW r \in Refs, gl'[r] # gl[r]
        PROVE  /\ r \in SafeRefs
               /\ gl'[r] \in past[r] \ {0}
               /\ Promise!Newer(gl'[r], gl[r])
    <2>1. r \in SafeRefs /\ gl'[r] = localRefs[r] /\ localRefs[r] \in Nat \ {0}
      BY <1>1, <1>2 DEF Refspecs
    <2>2. localRefs[r] \in past[r]
      BY <2>1 DEF ValuesOrdered
    <2>3. gl[r] # Readme => gl[r] \in Nat /\ gl[r] <= localRefs[r]
      BY <2>1 DEF ValuesOrdered
    <2>4. gl[r] # Readme => localRefs[r] > gl[r]
      BY <1>2, <2>1, <2>3
    <2> QED
      BY <2>1, <2>2, <2>4 DEF Promise!Newer
  <1>3. \A r \in Refs : gl'[r] \in 0 .. now \cup {Readme}
    BY <1>2 DEF ValuesOrdered
  <1>4. gl' \in [Refs -> 0 .. now \cup {Readme}]
    BY <1>3 DEF Pushed
  <1> QED
    BY <1>2, <1>4 DEF Promise!RefsMove, Promise!mirrorVars

(* Only a project that was not there begins with GitLab's own commit.       *)
LEMMA CreatedAppears ==
  ASSUME PipelineInv, CreateProject \/ UNCHANGED gitlabVars, UNCHANGED <<now, up, past>>
  PROVE  Promise!ProjectAppears \/ UNCHANGED Promise!mirrorVars
  <1>1. ~project => gl \in [Refs -> {0}]
    BY DEF PipelineInv, TypeOK, ProjectFirst, Absent
  <1>2. Head \in Refs
    BY PipelineAssumption
  <1>3. ~project => gl = [gl EXCEPT ![Head] = 0]
    BY <1>1, <1>2
  <1> QED
    BY <1>3 DEF CreateProject, gitlabVars, Promise!ProjectAppears, Promise!mirrorVars

(* Every step maps to a step of ServedMirror or to a stutter.               *)
LEMMA StepServes == PipelineInv /\ [Next]_vars => [Promise!MirrorNext]_(Promise!mirrorVars)
  <1> SUFFICES ASSUME PipelineInv, Next
               PROVE  Promise!MirrorNext \/ UNCHANGED Promise!mirrorVars
    BY DEF vars, upVars, gitlabVars, Promise!mirrorVars
  <1>1. ASSUME NEW p \in Procs, EnsureProject(p) \/ EnsureProjectFails(p)
        PROVE  Promise!MirrorNext \/ UNCHANGED Promise!mirrorVars
    BY <1>1, CreatedAppears DEF EnsureProject, EnsureProjectFails, upVars, Promise!MirrorNext
  <1>2. ASSUME NEW p \in Procs, Push(p) \/ PushFails(p)
        PROVE  Promise!MirrorNext \/ UNCHANGED Promise!mirrorVars
    <2>1. project /\ NextBatch(todo[p]) \subseteq Refspecs
      BY <1>2, BatchOf DEF PipelineInv, ProjectFirst, Created, PushedSoFar, Push, PushFails
    <2>2. PICK some \in SUBSET NextBatch(todo[p]) : gl' = Pushed(some)
      BY <1>2 DEF Push, PushFails
    <2>3. UNCHANGED <<now, up, past, project>>
      BY <1>2 DEF Push, PushFails, upVars
    <2> QED
      BY <2>1, <2>2, <2>3, PushedMoves DEF Promise!MirrorNext
  <1>3. CASE UpstreamChanges
    BY <1>3 DEF UpstreamChanges, gitlabVars, Promise!UpstreamMoves, Promise!MirrorNext
  <1>4. ASSUME NEW p \in Procs,
               \/ Begin(p) \/ Acquire(p) \/ InspectLocal(p) \/ Clone(p) \/ CloneFails(p)
               \/ Cleanup(p) \/ Update(p) \/ UpdateFails(p) \/ CheckRefs(p) \/ ListRefs(p)
               \/ ListRefsFails(p) \/ Finish(p) \/ FinishFails(p) \/ TouchStamp(p) \/ Release(p) \/ Crash(p)
        PROVE  UNCHANGED Promise!mirrorVars
    BY <1>4 DEF Promise!mirrorVars, upVars, gitlabVars, Begin, Acquire, InspectLocal, Clone, CloneFails,
                Cleanup, Update, UpdateFails, CheckRefs, ListRefs, ListRefsFails, Finish,
                FinishFails, Excuse, Goto, TouchStamp, Release, Crash
  <1>5. ASSUME NEW q \in Readers, ProjectSeen(q) \/ Hit(q) \/ Leave(q)
        PROVE  UNCHANGED Promise!mirrorVars
    BY <1>5 DEF Promise!mirrorVars, upVars, gitlabVars, ProjectSeen, Hit, Leave
  <1>6. CASE StampAges \/ DropCache
    BY <1>6 DEF Promise!mirrorVars, upVars, gitlabVars, StampAges, DropCache
  <1> QED
    BY <1>1, <1>2, <1>3, <1>4, <1>5, <1>6 DEF Next

(* However many processes mirror the repository and however they fail, a    *)
(* project stays, a ref stays, and it only moves to later states of the     *)
(* upstream.                                                                *)
THEOREM Implements == Spec => ImplementsServedMirror
  <1>1. Init => Promise!MirrorInit
    BY DEF Init, Absent, Promise!MirrorInit
  <1>2. PipelineInv /\ [Next]_vars => [Promise!MirrorNext]_(Promise!mirrorVars)
    BY StepServes
  <1> QED
    BY <1>1, <1>2, Invariant, PTL DEF Spec, ImplementsServedMirror, Promise!MirrorSpec

=============================================================================
