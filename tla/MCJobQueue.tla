----------------------------- MODULE MCJobQueue -----------------------------
(***************************************************************************)
(* Instances of JobQueue for TLC.  A cfg names the slots of each worker    *)
(* through one of the layouts below.                                       *)
(***************************************************************************)
EXTENDS JobQueue, TLC

CONSTANTS w1, w2, s1, s2, s3, j1, j2, k1, host

\* One slot on each of two workers.
TwoWorkers == (s1 :> w1) @@ (s2 :> w2)

\* Two workers and a run_once call.
Mixed == TwoWorkers @@ (s3 :> NoWorker)

\* A worker with two slots and one with a single slot.
Concurrent == (s1 :> w1) @@ (s2 :> w1) @@ (s3 :> w2)

\* No job has a dedup key, or all have the same one.
NoKeys == [j \in Jobs |-> NoKey]
OneKey == [j \in Jobs |-> k1]

\* Every process has its own hostname and pid, or all share one (pid 1 in a container
\* that restarts in place).
OwnAddr == [w \in Workers |-> w]
OneAddr == [w \in Workers |-> host]

JobSymmetry == Permutations(Jobs)

=============================================================================
