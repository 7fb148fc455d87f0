------------------------------- MODULE OpenMP -------------------------------
(***************************************************************************)
(* The part of an OpenMP parallel loop that the kernels rely on: every     *)
(* iteration is executed once, by one thread of the team, and each thread  *)
(* executes its own in ascending order.  Which thread gets which iteration *)
(* is left open, so a property checked for every division holds under any  *)
(* static, dynamic or guided schedule and any number of idle threads.      *)
(***************************************************************************)
EXTENDS Integers, FiniteSets

CONSTANT Thread
ASSUME ThreadAssumption == IsFiniteSet(Thread) /\ Thread # {}

\* The ways to divide the iterations in I, as functions from threads to sets.
Schedules(I) == {[t \in Thread |-> {i \in I : who[i] = t}] : who \in [I -> Thread]}

\* The same when a schedule clause hands out chunks; chunk[i] is the chunk
\* that iteration i belongs to.
ChunkSchedules(I, chunk) ==
    {[t \in Thread |-> {i \in I : chunk[i] \in s[t]}] : s \in Schedules({chunk[i] : i \in I})}
=============================================================================
