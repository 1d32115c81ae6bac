----------------------------- MODULE Producers ------------------------------
(***************************************************************************)
(* Enqueueing: Soniq.enqueue and enqueue_many (soniq/app.py) over the      *)
(* inserts of soniq/backends/postgres/__init__.py.  A deduplicated enqueue *)
(* is a loop of two statements, "insert unless it conflicts" and "find the *)
(* queued duplicate", and workers claim and requeue rows in between.  The  *)
(* statements run on a pool connection, where each commits by itself, or   *)
(* in a transaction of the caller, which may end in a rollback.            *)
(*                                                                         *)
(* Abstractions.  A job is its dedup key: dedup_key, or (job_name,         *)
(* args_hash) of a unique job.  Queue, priority, validation and schedule   *)
(* time are left out; a call whose arguments are refused changes nothing.  *)
(***************************************************************************)
EXTENDS Integers, FiniteSets

CONSTANTS
  Jobs,           \* job ids; an id is a fresh UUID
  Keys,           \* dedup keys, and NoKey, that calls ask for
  NoKey,          \* neither dedup_key nor unique
  NoJob,          \* an enqueue that has returned no id
  Callers,        \* concurrent callers of enqueue
  Transacting,    \* callers that may pass connection=, inside a transaction
  DedupAttempts,  \* _DEDUP_ATTEMPTS
  MaxFaults       \* bound: statements that fail

ASSUME ProducersAssumption ==
  /\ NoJob \notin Jobs
  /\ Transacting \subseteq Callers
  /\ DedupAttempts \in Nat \ {0}
  /\ MaxFaults \in Nat

VARIABLES
  row,    \* soniq_jobs: state and key of each row
  open,   \* rows that the open transaction of each caller has inserted
  call,   \* the enqueue call of each caller: phase, key, tx (connection= given), round, id
  last,   \* the id that the last call of each caller returned
  left,   \* history: rows that left 'queued' since that call began
  faults  \* failed statements so far

producerVars == <<row, open, call, last, left, faults>>

-----------------------------------------------------------------------------
RowStates == {"unborn", "uncommitted", "queued", "processing", "settled", "gone"}
RowTypes == [state : RowStates, key : Keys \cup {NoKey}]
Unborn == [state |-> "unborn", key |-> NoKey]
Phases == {"idle", "inserting", "finding", "notifying"}
NoCall == [phase |-> "idle", key |-> NoKey, tx |-> FALSE, round |-> 0,
           id |-> NoJob]
CallTypes == [phase : Phases, key : Keys \cup {NoKey}, tx : BOOLEAN,
              round : 0 .. DedupAttempts, id : Jobs \cup {NoJob}]

ProducersTypeOK ==
  /\ row \in [Jobs -> RowTypes]
  /\ open \in [Callers -> SUBSET Jobs]
  /\ call \in [Callers -> CallTypes]
  /\ last \in [Callers -> Jobs \cup {NoJob}]
  /\ left \in [Callers -> SUBSET Jobs]
  /\ faults \in 0 .. MaxFaults

ProducersInit ==
  /\ row = [j \in Jobs |-> Unborn]
  /\ open = [c \in Callers |-> {}]
  /\ call = [c \in Callers |-> NoCall]
  /\ last = [c \in Callers |-> NoJob]
  /\ left = [c \in Callers |-> {}]
  /\ faults = 0

\* The caller's connection sees the row as queued.
SeesQueued(c, j) == row[j].state = "queued" \/ j \in open[c]

\* Rows that clash with key k on the partial unique index, and those among them of other
\* transactions that are still open: an INSERT waits for these.
Clashing(c, k) == {j \in Jobs : k # NoKey /\ row[j].key = k /\ SeesQueued(c, j)}
Blocking(c, k) == {j \in Jobs : k # NoKey /\ row[j].key = k
                                 /\ row[j].state = "uncommitted" /\ j \notin open[c]}

-----------------------------------------------------------------------------
(* One enqueue.                                                            *)

\* enqueue, once its arguments are accepted.  With connection= there must be an open
\* transaction; callers with an open one are taken to use it until it ends.
Begin(c) ==
  /\ call[c] = NoCall
  /\ \E k \in Keys, tx \in BOOLEAN :
       /\ tx => c \in Transacting
       /\ open[c] # {} => tx
       /\ call' = [call EXCEPT ![c] =
            [phase |-> "inserting", key |-> k, tx |-> tx, round |-> 1, id |-> NoJob]]
  /\ last' = [last EXCEPT ![c] = NoJob]
  /\ left' = [left EXCEPT ![c] = {}]
  /\ UNCHANGED <<row, open, faults>>

\* The INSERT finds no conflict.  In a transaction others do not see the row yet.
Insert(c) ==
  LET k == call[c].key IN
  /\ call[c].phase = "inserting"
  /\ Clashing(c, k) = {} /\ Blocking(c, k) = {}
  /\ \E j \in Jobs :
       /\ row[j] = Unborn
       /\ row' = [row EXCEPT ![j] =
            [state |-> IF call[c].tx THEN "uncommitted" ELSE "queued", key |-> k]]
       /\ open' = IF call[c].tx THEN [open EXCEPT ![c] = @ \cup {j}] ELSE open
       /\ call' = [call EXCEPT ![c].phase = "notifying", ![c].id = j]
  /\ UNCHANGED <<last, left, faults>>

\* ON CONFLICT DO NOTHING.
Conflict(c) ==
  /\ call[c].phase = "inserting"
  /\ Clashing(c, call[c].key) # {}
  /\ call' = [call EXCEPT ![c].phase = "finding"]
  /\ UNCHANGED <<row, open, last, left, faults>>

\* The call raises.
End(c) ==
  /\ call' = [call EXCEPT ![c] = NoCall]
  /\ left' = [left EXCEPT ![c] = {}]

\* Faults: the lookup takes a row in any status, or the loop does not count its rounds.
FindAny(c) ==
  LET found == {j \in Jobs : /\ row[j].key = call[c].key
                             /\ SeesQueued(c, j) \/ row[j].state = "processing"} IN
  /\ call[c].phase = "finding"
  /\ \/ /\ \E j \in found :
             call' = [call EXCEPT ![c].phase = "notifying", ![c].id = j]
        /\ UNCHANGED left
     \/ found = {} /\ End(c)
  /\ UNCHANGED <<row, open, last, faults>>

FindForever(c) ==
  /\ call[c].phase = "finding"
  /\ \/ \E j \in Clashing(c, call[c].key) :
          call' = [call EXCEPT ![c].phase = "notifying", ![c].id = j]
     \/ /\ Clashing(c, call[c].key) = {}
        /\ call' = [call EXCEPT ![c].phase = "inserting"]
  /\ UNCHANGED <<row, open, last, left, faults>>

\* _FIND_DUPLICATE_SQL: the queued duplicate, or, when it has been claimed meanwhile,
\* another round; after the last round the call raises RuntimeError.
Find(c) ==
  LET found == Clashing(c, call[c].key) IN
  /\ call[c].phase = "finding"
  /\ \/ /\ \E j \in found :
             call' = [call EXCEPT ![c].phase = "notifying", ![c].id = j]
        /\ UNCHANGED left
     \/ /\ found = {} /\ call[c].round < DedupAttempts
        /\ call' = [call EXCEPT ![c].phase = "inserting", ![c].round = @ + 1]
        /\ UNCHANGED left
     \/ found = {} /\ call[c].round = DedupAttempts /\ End(c)
  /\ UNCHANGED <<row, open, last, faults>>

\* pg_notify, a statement of its own, and the return of the id.
Notify(c) ==
  /\ call[c].phase = "notifying"
  /\ last' = [last EXCEPT ![c] = call[c].id]
  /\ call' = [call EXCEPT ![c] = NoCall]
  /\ left' = [left EXCEPT ![c] = @ \cap {call[c].id}]
  /\ UNCHANGED <<row, open, faults>>

\* What the open transaction of c has inserted disappears.
Undo(c) ==
  /\ row' = [j \in Jobs |-> IF j \in open[c] THEN Unborn ELSE row[j]]
  /\ open' = [open EXCEPT ![c] = {}]

\* A statement of the call fails and the call raises.  On a pool connection a row it has
\* inserted stays; the transaction of a caller can only be rolled back.
Raise(c) ==
  /\ call[c] # NoCall
  /\ faults < MaxFaults
  /\ faults' = faults + 1
  /\ End(c)
  /\ Undo(c)
  /\ UNCHANGED last

\* The caller's transaction ends between two of its calls.
Commit(c) ==
  /\ call[c] = NoCall /\ open[c] # {}
  /\ row' = [j \in Jobs |-> IF j \in open[c] THEN [row[j] EXCEPT !.state = "queued"]
                            ELSE row[j]]
  /\ open' = [open EXCEPT ![c] = {}]
  /\ UNCHANGED <<call, last, left, faults>>

Rollback(c) ==
  /\ call[c] = NoCall /\ open[c] # {}
  /\ Undo(c)
  /\ last' = [last EXCEPT ![c] = IF @ \in open[c] THEN NoJob ELSE @]
  /\ UNCHANGED <<call, left, faults>>

\* Each of two transactions waits for a row of the other: PostgreSQL aborts one.
BreakDeadlock(c) ==
  /\ call[c].phase = "inserting"
  /\ \E d \in Callers \ {c} :
       /\ Blocking(c, call[c].key) \cap open[d] # {}
       /\ call[d].phase = "inserting"
       /\ Blocking(d, call[d].key) \cap open[c] # {}
  /\ End(c)
  /\ Undo(c)
  /\ UNCHANGED <<last, faults>>

\* create_jobs_bulk: one statement inserts all rows, without keys.
InsertAll(S) ==
  /\ \A j \in S : row[j] = Unborn
  /\ row' = [j \in Jobs |-> IF j \in S THEN [state |-> "queued", key |-> NoKey] ELSE row[j]]

\* enqueue_many.  Its notify may fail unseen.
EnqueueMany(c, S) ==
  /\ call[c] = NoCall /\ open[c] = {}
  /\ InsertAll(S)
  /\ UNCHANGED <<open, call, last, left, faults>>

-----------------------------------------------------------------------------
(* Workers and operators, as far as producers see them.                    *)

\* Rows that are never queued again lose their key, which nothing reads any more.
Settled == [state |-> "settled", key |-> NoKey]
Removed == [state |-> "gone", key |-> NoKey]

Leave(j, r) ==
  /\ row[j].state = "queued"
  /\ row' = [row EXCEPT ![j] = r]
  /\ left' = [c \in Callers |->
                IF call[c] # NoCall \/ last[c] = j THEN left[c] \cup {j} ELSE left[c]]
  /\ UNCHANGED <<open, call, last, faults>>

\* fetch_and_lock_job; cancel_job.
Claim(j) == Leave(j, [row[j] EXCEPT !.state = "processing"])
Cancel(j) == Leave(j, Settled)

\* mark_job_done.
Finish(j) ==
  /\ row[j].state = "processing"
  /\ row' = [row EXCEPT ![j] = Settled]
  /\ UNCHANGED <<open, call, last, left, faults>>

\* A retry, snooze, nack or sweep, unless the unique index refuses it.
Requeue(j) ==
  /\ row[j].state = "processing"
  /\ ~\E k \in Jobs : /\ row[j].key # NoKey /\ row[k].key = row[j].key
                       /\ row[k].state \in {"queued", "uncommitted"}
  /\ row' = [row EXCEPT ![j].state = "queued"]
  /\ UNCHANGED <<open, call, last, left, faults>>

-----------------------------------------------------------------------------
CallStep(c) ==
  \/ Begin(c) \/ Insert(c) \/ Conflict(c) \/ Find(c) \/ Notify(c) \/ Raise(c)
  \/ Commit(c) \/ Rollback(c) \/ BreakDeadlock(c)
  \/ \E S \in SUBSET Jobs : S # {} /\ EnqueueMany(c, S)

RowStep(j) == Claim(j) \/ Cancel(j) \/ Finish(j) \/ Requeue(j)

ProducersNext ==
  \/ \E c \in Callers : CallStep(c)
  \/ \E j \in Jobs : RowStep(j)

\* Statements answer, an INSERT that waits for another transaction gets its turn, and
\* callers end their transactions; nothing is asked of workers.
ProducersFairness ==
  \A c \in Callers :
    /\ SF_producerVars(Conflict(c) \/ Insert(c)) /\ WF_producerVars(Find(c))
    /\ WF_producerVars(Notify(c)) /\ WF_producerVars(BreakDeadlock(c))
    /\ SF_producerVars(Commit(c) \/ Rollback(c))

ProducersSpec ==
  ProducersInit /\ [][ProducersNext]_producerVars /\ ProducersFairness

-----------------------------------------------------------------------------
(* Properties.                                                             *)

\* The id that enqueue returns, be it of the caller's own row or of a duplicate, names a
\* job that still waits or has been claimed or cancelled since the call began: never one
\* that had started before and may have missed what the caller wrote first
\* (_create_job_on_conn).  Nor is it a row of somebody else's open transaction.
ReturnedJobStarts ==
  \A c \in Callers : last[c] # NoJob =>
    SeesQueued(c, last[c]) \/ last[c] \in left[c]

\* Bound: an INSERT that neither clashes nor waits finds no id left.
OutOfIds ==
  /\ \A j \in Jobs : row[j] # Unborn
  /\ \E c \in Callers :
       /\ call[c].phase = "inserting"
       /\ Clashing(c, call[c].key) = {} /\ Blocking(c, call[c].key) = {}

\* Every enqueue returns or raises, also while workers claim and requeue the duplicate
\* between its statements (_DEDUP_ATTEMPTS), and when two transactions wait for each other's
\* rows; that no id is left excuses nobody who waits.
EveryCallEnds ==
  \A c \in Callers : []<>(call[c] = NoCall \/ OutOfIds)

=============================================================================
