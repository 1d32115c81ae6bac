------------------------- MODULE MCSchedulerCalls --------------------------
(***************************************************************************)
(* Scheduler used by two processes, or by p2 alone, which then also meets  *)
(* faults and more runs.                                                   *)
(***************************************************************************)
EXTENDS MCScheduler

\* Bound: transactions fail and connections drop for p2 alone, and the two processes
\* together are not followed past the second run that is enqueued.
LessTogether == faults > 0 \/ enqueued > 1 => Absent(p1)

=============================================================================
