---------------------------- MODULE BoundedJobs ----------------------------
(***************************************************************************)
(* What the gateway relies on the mirror scheduler for, seen from outside: *)
(* jobs are admitted up to a capacity, a bounded number of them is worked  *)
(* on at a time, and each goes once through its stages.  A job that is     *)
(* never handed to a worker is lost, and keeps its place.                  *)
(***************************************************************************)
EXTENDS Naturals, FiniteSets

CONSTANTS Jobs, Capacity, Width

VARIABLE stage

Admitted == {j \in Jobs : stage[j] \in {"waiting", "running", "finished", "lost"}}
Busy     == {j \in Jobs : stage[j] \in {"running", "finished"}}

Move(j, from, to) == stage[j] = from /\ stage' = [stage EXCEPT ![j] = to]

Init == stage = [j \in Jobs |-> "new"]

Admit(j)  == Cardinality(Admitted) < Capacity /\ Move(j, "new", "waiting")
Lose(j)   == Move(j, "waiting", "lost")
Start(j)  == Cardinality(Busy) < Width /\ Move(j, "waiting", "running")
Finish(j) == Move(j, "running", "finished")
Retire(j) == Move(j, "finished", "retired")

Next == \E j \in Jobs : Admit(j) \/ Lose(j) \/ Start(j) \/ Finish(j) \/ Retire(j)

Spec == Init /\ [][Next]_stage
=============================================================================
