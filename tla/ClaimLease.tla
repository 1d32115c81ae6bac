----------------------------- MODULE ClaimLease -----------------------------
(***************************************************************************)
(* What the job queue promises about claims, without tables, attempts or   *)
(* workers: a lease service.  A queued job is leased to one slot, only the *)
(* slot that has the lease settles the job, and a lease may be revoked at  *)
(* any time, which puts the job back in the queue.  A slot that lost its   *)
(* lease has no step on the job any more.                                  *)
(***************************************************************************)
CONSTANTS Jobs, Slots

VARIABLES
  life,     \* where each job is in its life
  holders   \* the slots that have a lease on each job

vars == <<life, holders>>

Init ==
  /\ life = [j \in Jobs |-> "unborn"]
  /\ holders = [j \in Jobs |-> {}]

Submit(j) ==
  /\ life[j] = "unborn"
  /\ life' = [life EXCEPT ![j] = "queued"]
  /\ UNCHANGED holders

Take(j, s) ==
  /\ life[j] = "queued"
  /\ life' = [life EXCEPT ![j] = "processing"]
  /\ holders' = [holders EXCEPT ![j] = {s}]

\* The holder settles the job, or puts it back for another attempt.
Finish(j, s) ==
  /\ holders[j] = {s}
  /\ \E l \in {"done", "dead", "gone", "queued"} : life' = [life EXCEPT ![j] = l]
  /\ holders' = [holders EXCEPT ![j] = {}]

\* The slots of S stop without settling their jobs, which stay in processing.
Abandon(S) ==
  /\ holders' = [j \in Jobs |-> holders[j] \ S]
  /\ UNCHANGED life

\* The service takes the jobs of R back, whoever holds them.
Revoke(R) ==
  /\ \A j \in R : life[j] = "processing"
  /\ life' = [j \in Jobs |-> IF j \in R THEN "queued" ELSE life[j]]
  /\ holders' = [j \in Jobs |-> IF j \in R THEN {} ELSE holders[j]]

Cancel(j) ==
  /\ life[j] = "queued"
  /\ life' = [life EXCEPT ![j] = "cancelled"]
  /\ UNCHANGED holders

\* The jobs of R are deleted.
Remove(R) ==
  /\ \A j \in R : life[j] \in {"queued", "processing", "done", "cancelled"}
  /\ life' = [j \in Jobs |-> IF j \in R THEN "gone" ELSE life[j]]
  /\ holders' = [j \in Jobs |-> IF j \in R THEN {} ELSE holders[j]]

Next ==
  \/ \E j \in Jobs : Submit(j) \/ Cancel(j)
  \/ \E j \in Jobs, s \in Slots : Take(j, s) \/ Finish(j, s)
  \/ \E S \in SUBSET Slots : Abandon(S)
  \/ \E R \in SUBSET Jobs : Revoke(R) \/ Remove(R)

Spec == Init /\ [][Next]_vars

=============================================================================
