------------------------------ MODULE JobStore ------------------------------
(***************************************************************************)
(* The PostgreSQL storage backend of Soniq: the tables soniq_jobs,         *)
(* soniq_dead_letter_jobs and soniq_workers, and one action for each       *)
(* transaction that soniq/backends/postgres/__init__.py runs on them.      *)
(* Every action is one committed transaction, hence one atomic step: the   *)
(* row locks of UPDATE and SELECT ... FOR UPDATE make two transactions     *)
(* that touch the same row run one after the other.                        *)
(*                                                                         *)
(* Abstractions.  A job's payload, queue, priority and timestamps are left *)
(* out.  scheduled_at is reduced to "due or not", last_heartbeat to "fresh *)
(* or stale" against heartbeat_timeout.  The status column of              *)
(* soniq_workers is left out because no transaction on a job reads it.     *)
(* Any due row may be claimed: FOR UPDATE SKIP LOCKED may pass over rows   *)
(* that come first in the ORDER BY.                                        *)
(***************************************************************************)
EXTENDS Integers, FiniteSets

CONSTANTS
  Jobs,         \* ids of job rows; an id is a fresh UUID and names one row ever
  Workers,      \* ids of worker processes; a process draws a new one when it starts
  NoWorker,     \* the NULL of soniq_jobs.worker_id
  KeyOf,        \* dedup_key of each job
  NoKey,        \* the NULL of soniq_jobs.dedup_key
  AddrOf,       \* (hostname, pid) of each worker process
  AttemptCap    \* bound: a row with this many attempts is not claimed again

ASSUME StoreAssumption ==
  /\ NoWorker \notin Workers
  /\ AttemptCap \in Nat

VARIABLES
  status,    \* status of each row; "unborn" before INSERT, "gone" after DELETE
  attempts,  \* attempts column
  owner,     \* worker_id column
  due,       \* scheduled_at is NULL or has passed
  dead,      \* ids in soniq_dead_letter_jobs
  beat,      \* soniq_workers: "none" (no row), "fresh" or "stale" last_heartbeat
  alias      \* workers whose row was inserted under "hostname#id"

storeVars == <<status, attempts, owner, due, dead, beat, alias>>
jobVars == <<status, attempts, owner, due, dead>>
workerVars == <<beat, alias>>

-----------------------------------------------------------------------------
RowStates == {"queued", "processing", "done", "cancelled"}
JobStates == RowStates \cup {"unborn", "gone"}
BeatStates == {"none", "fresh", "stale"}

StoreTypeOK ==
  /\ status \in [Jobs -> JobStates]
  /\ attempts \in [Jobs -> Nat]
  /\ owner \in [Jobs -> Workers \cup {NoWorker}]
  /\ due \in [Jobs -> BOOLEAN]
  /\ dead \in SUBSET Jobs
  /\ beat \in [Workers -> BeatStates]
  /\ alias \in SUBSET Workers

StoreInit ==
  /\ status = [j \in Jobs |-> "unborn"]
  /\ attempts = [j \in Jobs |-> 0]
  /\ owner = [j \in Jobs |-> NoWorker]
  /\ due = [j \in Jobs |-> FALSE]
  /\ dead = {}
  /\ beat = [w \in Workers |-> "none"]
  /\ alias = {}

-----------------------------------------------------------------------------
(* Guards that several transactions share.                                 *)

\* Fault: a claim guard that forgets the attempt count.
MatchesStatus(j, n) == status[j] = "processing"

\* WHERE fragment _claim_guard: the row is still at the claim that counted n.
Matches(j, n) == status[j] = "processing" /\ attempts[j] = n

SameKey(j, k) == j # k /\ KeyOf[j] # NoKey /\ KeyOf[j] = KeyOf[k]

\* The partial unique index on dedup_key: the rows of R may become 'queued'.
\* Otherwise the statement raises UniqueViolation and its transaction aborts.
CanQueue(R) ==
  \A j \in R, k \in Jobs : SameKey(j, k) => k \notin R /\ status[k] # "queued"

\* Processing rows whose worker passes the test T, as in the two requeue UPDATEs.
ProcessingOf(T) == {j \in Jobs : status[j] = "processing" /\ owner[j] \in T}

-----------------------------------------------------------------------------
(* Transactions on one job.                                                *)

\* create_job: insert a row, now due or scheduled for later.  When a queued row has the
\* same key, ON CONFLICT DO NOTHING inserts nothing and the caller gets that row's id.
Insert(j) ==
  /\ status[j] = "unborn"
  /\ CanQueue({j})
  /\ status' = [status EXCEPT ![j] = "queued"]
  /\ \E d \in BOOLEAN : due' = [due EXCEPT ![j] = d]
  /\ UNCHANGED <<attempts, owner, dead, workerVars>>

\* scheduled_at passes.
ComeDue(j) ==
  /\ status[j] = "queued"
  /\ ~due[j]
  /\ due' = [due EXCEPT ![j] = TRUE]
  /\ UNCHANGED <<status, attempts, owner, dead, workerVars>>

\* fetch_and_lock_job.  A worker id must have a soniq_workers row (foreign key); run_once
\* passes no worker id, and then worker_id keeps the value it had.
FetchAndLock(j, w) ==
  /\ status[j] = "queued"
  /\ due[j]
  /\ attempts[j] < AttemptCap
  /\ w \in Workers => beat[w] # "none"
  /\ status' = [status EXCEPT ![j] = "processing"]
  /\ attempts' = [attempts EXCEPT ![j] = @ + 1]
  /\ owner' = [owner EXCEPT ![j] = IF w \in Workers THEN w ELSE @]
  /\ UNCHANGED <<due, dead, workerVars>>

\* The row leaves soniq_jobs.  Its columns take their initial values, so that two states
\* that differ only in a deleted row are one state.
Remove(j) ==
  /\ status' = [status EXCEPT ![j] = "gone"]
  /\ attempts' = [attempts EXCEPT ![j] = 0]
  /\ owner' = [owner EXCEPT ![j] = NoWorker]
  /\ due' = [due EXCEPT ![j] = FALSE]

\* mark_job_done: keep the row for result_ttl, or delete it when the ttl is 0.
MarkDone(j, n) ==
  /\ Matches(j, n)
  /\ \/ /\ status' = [status EXCEPT ![j] = "done"]
        /\ UNCHANGED <<attempts, owner, due>>
     \/ Remove(j)
  /\ UNCHANGED <<dead, workerVars>>

\* Fault: a retry writes a status that the schema does not have.
RequeueAsFailed(j, n, k) ==
  /\ Matches(j, n)
  /\ status' = [status EXCEPT ![j] = "failed"]
  /\ attempts' = [attempts EXCEPT ![j] = k]
  /\ \E d \in BOOLEAN : due' = [due EXCEPT ![j] = d]
  /\ UNCHANGED <<owner, dead, workerVars>>

\* mark_job_failed: back to 'queued' with k attempts on the row, due now or after a delay.
\* worker_id keeps its value.
Requeue(j, n, k) ==
  /\ Matches(j, n)
  /\ CanQueue({j})
  /\ status' = [status EXCEPT ![j] = "queued"]
  /\ attempts' = [attempts EXCEPT ![j] = k]
  /\ \E d \in BOOLEAN : due' = [due EXCEPT ![j] = d]
  /\ UNCHANGED <<owner, dead, workerVars>>

\* reschedule_job: the same, with the number of attempts that a snooze leaves.
Reschedule(j, n, k) == Requeue(j, n, k)

\* mark_job_dead_letter: INSERT into the dead-letter table and DELETE, in one transaction.
MarkDeadLetter(j, n) ==
  /\ Matches(j, n)
  /\ Remove(j)
  /\ dead' = dead \cup {j}
  /\ UNCHANGED workerVars

\* An outcome write whose WHERE clause matches no row.
Dropped(j, n) == ~Matches(j, n) /\ UNCHANGED storeVars

\* Faults: nack_job gives the attempt back, does not look at the status, or clears
\* worker_id without a new status.
NackRefunding(j) ==
  IF status[j] = "processing" /\ CanQueue({j})
  THEN /\ status' = [status EXCEPT ![j] = "queued"]
       /\ attempts' = [attempts EXCEPT ![j] = @ - 1]
       /\ owner' = [owner EXCEPT ![j] = NoWorker]
       /\ due' = [due EXCEPT ![j] = TRUE]
       /\ UNCHANGED <<dead, workerVars>>
  ELSE UNCHANGED storeVars

NackAnyStatus(j) ==
  IF status[j] \in RowStates /\ CanQueue({j})
  THEN /\ status' = [status EXCEPT ![j] = "queued"]
       /\ owner' = [owner EXCEPT ![j] = NoWorker]
       /\ due' = [due EXCEPT ![j] = TRUE]
       /\ UNCHANGED <<attempts, dead, workerVars>>
  ELSE UNCHANGED storeVars

NackWithoutStatus(j) ==
  IF status[j] = "processing"
  THEN owner' = [owner EXCEPT ![j] = NoWorker]
       /\ UNCHANGED <<status, attempts, due, dead, workerVars>>
  ELSE UNCHANGED storeVars

\* nack_job: its WHERE clause tests the status only, not the claim.
NackJob(j) ==
  IF status[j] = "processing" /\ CanQueue({j})
  THEN /\ status' = [status EXCEPT ![j] = "queued"]
       /\ owner' = [owner EXCEPT ![j] = NoWorker]
       /\ due' = [due EXCEPT ![j] = TRUE]
       /\ UNCHANGED <<attempts, dead, workerVars>>
  ELSE UNCHANGED storeVars

CancelJob(j) ==
  /\ status[j] = "queued"
  /\ status' = [status EXCEPT ![j] = "cancelled"]
  /\ UNCHANGED <<attempts, owner, due, dead, workerVars>>

DeleteJob(j) ==
  /\ status[j] \in RowStates
  /\ Remove(j)
  /\ UNCHANGED <<dead, workerVars>>

\* delete_expired_jobs: the rows of R are the done rows past expires_at.
DeleteExpired(R) ==
  /\ R # {} /\ \A j \in R : status[j] = "done"
  /\ status' = [j \in Jobs |-> IF j \in R THEN "gone" ELSE status[j]]
  /\ attempts' = [j \in Jobs |-> IF j \in R THEN 0 ELSE attempts[j]]
  /\ owner' = [j \in Jobs |-> IF j \in R THEN NoWorker ELSE owner[j]]
  /\ due' = [j \in Jobs |-> IF j \in R THEN FALSE ELSE due[j]]
  /\ UNCHANGED <<dead, workerVars>>

-----------------------------------------------------------------------------
(* Transactions on workers.                                                *)

\* Faults: the sweep gives attempts back, or looks only for workers without a row.
CleanupRefunding ==
  LET R == ProcessingOf({w \in Workers : beat[w] # "fresh"}) IN
  /\ R # {} /\ CanQueue(R)
  /\ status' = [j \in Jobs |-> IF j \in R THEN "queued" ELSE status[j]]
  /\ attempts' = [j \in Jobs |-> IF j \in R THEN attempts[j] - 1 ELSE attempts[j]]
  /\ owner' = [j \in Jobs |-> IF j \in R THEN NoWorker ELSE owner[j]]
  /\ UNCHANGED <<due, dead, workerVars>>

CleanupMissingWorkers ==
  LET R == ProcessingOf({w \in Workers : beat[w] = "none"}) IN
  /\ R # {} /\ CanQueue(R)
  /\ status' = [j \in Jobs |-> IF j \in R THEN "queued" ELSE status[j]]
  /\ owner' = [j \in Jobs |-> IF j \in R THEN NoWorker ELSE owner[j]]
  /\ UNCHANGED <<attempts, due, dead, workerVars>>

\* cleanup_stale_workers: requeue every processing row whose worker has no fresh heartbeat,
\* in one UPDATE: one clash on the unique index aborts the whole sweep.
CleanupStaleWorkers ==
  LET R == ProcessingOf({w \in Workers : beat[w] # "fresh"}) IN
  /\ R # {} /\ CanQueue(R)
  /\ status' = [j \in Jobs |-> IF j \in R THEN "queued" ELSE status[j]]
  /\ owner' = [j \in Jobs |-> IF j \in R THEN NoWorker ELSE owner[j]]
  /\ UNCHANGED <<attempts, due, dead, workerVars>>

\* Rows with w's hostname and pid and a stale heartbeat: what register_worker takes over.
DeadPeers(w) ==
  {v \in Workers : v \notin alias /\ AddrOf[v] = AddrOf[w] /\ beat[v] = "stale"}

\* A live row holds w's hostname and pid.
AddrTaken(w) ==
  \E v \in Workers : v \notin alias /\ AddrOf[v] = AddrOf[w] /\ beat[v] = "fresh"

\* register_worker: requeue what dead processes with our hostname and pid held, delete their
\* rows (worker_id ON DELETE SET NULL), and insert ours, under "hostname#id" when taken.
RegisterWorker(w) ==
  LET T == DeadPeers(w)
      R == ProcessingOf(T)
  IN /\ beat[w] = "none"
     /\ CanQueue(R)
     /\ status' = [j \in Jobs |-> IF j \in R THEN "queued" ELSE status[j]]
     /\ owner' = [j \in Jobs |-> IF owner[j] \in T THEN NoWorker ELSE owner[j]]
     /\ beat' = [v \in Workers |-> IF v = w THEN "fresh"
                                   ELSE IF v \in T THEN "none" ELSE beat[v]]
     /\ alias' = IF AddrTaken(w) THEN alias \cup {w} ELSE alias
     /\ UNCHANGED <<attempts, due, dead>>

\* UPDATE soniq_workers SET last_heartbeat = NOW(), in update_heartbeat and
\* mark_worker_stopped.
Touch(w) ==
  /\ beat[w] # "none"
  /\ beat' = [beat EXCEPT ![w] = "fresh"]
  /\ UNCHANGED <<jobVars, alias>>

\* heartbeat_timeout passes after w's last heartbeat.
BeatExpires(w) ==
  /\ beat[w] = "fresh"
  /\ beat' = [beat EXCEPT ![w] = "stale"]
  /\ UNCHANGED <<jobVars, alias>>

=============================================================================
