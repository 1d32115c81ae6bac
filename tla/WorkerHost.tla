----------------------------- MODULE WorkerHost -----------------------------
(***************************************************************************)
(* What the slots of one worker process share (soniq/core/worker.py and    *)
(* processor.py): the connection pool, which also serves the listener and  *)
(* the maintenance leader; the permits of the sync handler pool; and the   *)
(* means to sleep until there is work: the notification event, the poll    *)
(* and the deadlines of short retries.                                     *)
(*                                                                         *)
(* Abstractions.  There is no clock: a job comes due, a deadline passes    *)
(* and a poll interval elapses as steps of their own, in any order that    *)
(* clocks allow.  The heartbeat is left out: it borrows a connection for   *)
(* one statement and waits for nothing meanwhile.  A job here is its place *)
(* in this process; claims, lost outcomes and shutdown are in JobQueue.    *)
(***************************************************************************)
EXTENDS Integers, FiniteSets, FiniteSetsExt

CONSTANTS
  Slots,        \* worker tasks; their number is the concurrency
  Jobs,         \* jobs that producers enqueue
  SyncJobs,     \* jobs whose handler is a plain function
  NoJob,        \* a slot without a job
  PoolMax,      \* pool_max_size
  Headroom,     \* pool_headroom
  SyncPool,     \* sync_handler_pool_size
  MaxAttempts   \* bound: runs of each job

ASSUME WorkerHostAssumption ==
  /\ SyncJobs \subseteq Jobs /\ NoJob \notin Jobs
  /\ IsFiniteSet(Slots) /\ Headroom \in Nat /\ SyncPool \in Nat \ {0}
  /\ MaxAttempts \in [Jobs -> Nat \ {0}]

\* A maximum of 0 turns the check off.
PoolSizingError(concurrency) == PoolMax > 0 /\ concurrency + Headroom > PoolMax

\* run_worker raises the error, and asyncpg makes no pool without connections.
ASSUME PoolSizing == PoolMax \in Nat \ {0} /\ ~PoolSizingError(Cardinality(Slots))

VARIABLES
  job,        \* place of each job
  runs,       \* attempts of each job so far
  wake,       \* wake_at: deadlines <<job, attempt>> of short retries
  passed,     \* deadlines that have passed
  note,       \* a notification is on its way
  event,      \* notification_event
  listening,  \* the listener's connection works
  slot,       \* phase of each slot, its job, and the deadlines it sleeps for
  permits,    \* value of sync_pool_semaphore
  orphans,    \* threads whose job has timed out
  releasing   \* releases that finished threads have posted to the loop

vars == <<job, runs, wake, passed, note, event, listening, slot, permits, orphans,
          releasing>>
jobVars == <<job, runs, wake, passed>>
wakeVars == <<note, event, listening>>
syncVars == <<permits, orphans, releasing>>

-----------------------------------------------------------------------------
Deadlines == UNION {{j} \X (1 .. MaxAttempts[j]) : j \in Jobs}
Outcomes == {"settled", "queued", "soon"}
Phases == {"wantFetch", "fetching", "empty", "starting", "asleep", "async", "permit",
           "submitted", "threaded", "wantWrite", "writing", "wrote", "cycle", "wantLock",
           "trying", "wantPrune", "pruning", "wantSweep", "sweeping"}
SlotTypes == [phase : Phases, job : Jobs \cup {NoJob}, outcome : Outcomes,
              until : SUBSET Deadlines]
Ready == [phase |-> "wantFetch", job |-> NoJob, outcome |-> "settled", until |-> {}]
Awake == [Ready EXCEPT !.phase = "cycle"]

TypeOK ==
  /\ job \in [Jobs -> {"unborn", "queued", "held", "soon", "settled"}]
  /\ runs \in [Jobs -> Nat] /\ \A j \in Jobs : runs[j] <= MaxAttempts[j]
  /\ passed \subseteq wake /\ wake \subseteq Deadlines
  /\ note \in BOOLEAN /\ event \in BOOLEAN /\ listening \in BOOLEAN
  /\ slot \in [Slots -> SlotTypes]
  /\ permits \in 0 .. SyncPool /\ orphans \in Nat /\ releasing \in Nat

\* The worker has registered, listens and starts its tasks.
Init ==
  /\ job = [j \in Jobs |-> "unborn"]
  /\ runs = [j \in Jobs |-> 0]
  /\ wake = {} /\ passed = {}
  /\ note = FALSE /\ event = FALSE /\ listening = TRUE
  /\ slot = [s \in Slots |-> Ready]
  /\ permits = SyncPool /\ orphans = 0 /\ releasing = 0

\* Pool connections in use: the listener pins one, also when it is broken; the maintenance
\* leader holds the lock's connection while it borrows another.
ConnsOf(s) ==
  CASE slot[s].phase \in {"fetching", "writing", "trying", "wantPrune", "wantSweep"} -> 1
    [] slot[s].phase \in {"pruning", "sweeping"} -> 2
    [] OTHER -> 0
InUse == 1 + MapThenSumSet(ConnsOf, Slots)
Lendable == InUse < PoolMax

At(s, phase) == slot[s].phase = phase
GoTo(s, phase) == slot' = [slot EXCEPT ![s].phase = phase]

-----------------------------------------------------------------------------
(* Connections.                                                            *)

\* The pool lends a connection to a slot that waits for one.
Lent == [wantFetch |-> "fetching", wantWrite |-> "writing", wantLock |-> "trying",
         wantPrune |-> "pruning", wantSweep |-> "sweeping"]
Acquire(s) ==
  /\ slot[s].phase \in DOMAIN Lent /\ Lendable
  /\ GoTo(s, Lent[slot[s].phase])
  /\ UNCHANGED <<jobVars, wakeVars, syncVars>>

-----------------------------------------------------------------------------
(* Fetch and sleep.                                                        *)

\* fetch_and_lock_job takes a job that is due; the connection goes back.
Fetch(s, j) ==
  /\ At(s, "fetching") /\ job[j] = "queued"
  /\ job' = [job EXCEPT ![j] = "held"]
  /\ runs' = [runs EXCEPT ![j] = @ + 1]
  /\ slot' = [slot EXCEPT ![s].phase = IF j \in SyncJobs THEN "permit" ELSE "async",
                          ![s].job = j]
  /\ UNCHANGED <<wake, passed, wakeVars, syncVars>>

FetchNothing(s) ==
  /\ At(s, "fetching") /\ \A j \in Jobs : job[j] # "queued"
  /\ GoTo(s, "empty")
  /\ UNCHANGED <<jobVars, wakeVars, syncVars>>

Fetched(s) == FetchNothing(s) \/ \E j \in Jobs : Fetch(s, j)

\* The statement fails: "Worker error", and another turn after error_retry_delay.
FetchFails(s) ==
  /\ At(s, "fetching")
  /\ GoTo(s, "wantFetch")
  /\ UNCHANGED <<jobVars, wakeVars, syncVars>>

\* Fault: a deadline that has passed is popped, and the sleep goes on to the next one.
IdleTimeoutSleepsOn(s) ==
  /\ slot' = [slot EXCEPT ![s].phase = "starting", ![s].until = wake \ passed]
  /\ wake' = wake \ passed
  /\ passed' = {}

\* idle_timeout: deadlines that have passed are popped and end the sleep at once; otherwise
\* it lasts until the first of those that are left, or the poll interval.
IdleTimeout(s) ==
  IF passed # {}
  THEN /\ slot' = [slot EXCEPT ![s].phase = "starting", ![s].until = passed]
       /\ wake' = wake \ passed
       /\ passed' = {}
  ELSE /\ slot' = [slot EXCEPT ![s].phase = "starting", ![s].until = wake]
       /\ UNCHANGED <<wake, passed>>

\* After the empty fetch the event is cleared, whatever has set it since, and the tasks that
\* wait are created.
Doze(s) ==
  /\ At(s, "empty")
  /\ event' = FALSE
  /\ IdleTimeout(s)
  /\ UNCHANGED <<job, runs, note, listening, syncVars>>

\* The task that waits for the event starts: it returns at once if the event is set.
StartWait(s) ==
  /\ At(s, "starting")
  /\ slot' = [slot EXCEPT ![s] = IF event THEN Awake ELSE [@ EXCEPT !.phase = "asleep"]]
  /\ UNCHANGED <<jobVars, wakeVars, syncVars>>

\* Fault: a worker with a listener sleeps until a deadline or a notification, without a poll.
TimeOutWithoutPoll(s) ==
  /\ At(s, "asleep") /\ ~(slot[s].until \subseteq wake \ passed)
  /\ slot' = [slot EXCEPT ![s] = Awake]
  /\ UNCHANGED <<jobVars, wakeVars, syncVars>>

\* asyncio.wait returns: a deadline the slot sleeps for has passed, or the poll interval.
TimeOut(s) ==
  /\ At(s, "asleep")
  /\ slot' = [slot EXCEPT ![s] = Awake]
  /\ UNCHANGED <<jobVars, wakeVars, syncVars>>

-----------------------------------------------------------------------------
(* Handlers.                                                               *)

\* Fault: the last attempt is retried as well.
EndedUncounted(s, outcome) ==
  /\ outcome # "settled" => runs[slot[s].job] <= MaxAttempts[slot[s].job]
  /\ slot' = [slot EXCEPT ![s].phase = "wantWrite", ![s].outcome = outcome]

\* The handler has returned, raised, or been cut off by job_timeout: the outcome is a final
\* one, a retry at once, or a retry or snooze after a delay below poll_interval.  One after a
\* longer delay is like a job whose notification is lost.
Ended(s, outcome) ==
  /\ outcome # "settled" => runs[slot[s].job] < MaxAttempts[slot[s].job]
  /\ slot' = [slot EXCEPT ![s].phase = "wantWrite", ![s].outcome = outcome]

RunAsync(s, outcome) ==
  /\ At(s, "async")
  /\ Ended(s, outcome)
  /\ UNCHANGED <<jobVars, wakeVars, syncVars>>

\* The semaphore is acquired before the future is submitted.
Submit(s) ==
  /\ At(s, "permit") /\ permits > 0
  /\ permits' = permits - 1
  /\ GoTo(s, "submitted")
  /\ UNCHANGED <<jobVars, wakeVars, orphans, releasing>>

Threads == orphans + Cardinality({s \in Slots : At(s, "threaded")})

StartThread(s) ==
  /\ At(s, "submitted") /\ Threads < SyncPool
  /\ GoTo(s, "threaded")
  /\ UNCHANGED <<jobVars, wakeVars, syncVars>>

\* The thread ends; its callback posts the release to the event loop.
EndThread(s, outcome) ==
  /\ At(s, "threaded")
  /\ Ended(s, outcome)
  /\ releasing' = releasing + 1
  /\ UNCHANGED <<jobVars, wakeVars, permits, orphans>>

EndOrphan ==
  /\ orphans > 0
  /\ orphans' = orphans - 1
  /\ releasing' = releasing + 1
  /\ UNCHANGED <<jobVars, wakeVars, slot, permits>>

Release ==
  /\ releasing > 0
  /\ releasing' = releasing - 1
  /\ permits' = permits + 1
  /\ UNCHANGED <<jobVars, wakeVars, slot, orphans>>

\* Fault: the permit is handed back by the call that has waited for the thread.
JobTimesOutReleasing(s, outcome) ==
  /\ \/ At(s, "permit") /\ UNCHANGED <<orphans, releasing>>
     \/ At(s, "submitted") /\ releasing' = releasing + 1 /\ UNCHANGED orphans
     \/ At(s, "threaded") /\ orphans' = orphans + 1 /\ releasing' = releasing + 1
  /\ Ended(s, outcome)
  /\ UNCHANGED <<jobVars, wakeVars, permits>>

\* job_timeout.  A call that waits for a permit gives up; a future that has not started is
\* cancelled, which is one way to be done; a thread that runs goes on by itself.
JobTimesOut(s, outcome) ==
  /\ \/ At(s, "permit") /\ UNCHANGED <<orphans, releasing>>
     \/ At(s, "submitted") /\ releasing' = releasing + 1 /\ UNCHANGED orphans
     \/ At(s, "threaded") /\ orphans' = orphans + 1 /\ UNCHANGED releasing
  /\ Ended(s, outcome)
  /\ UNCHANGED <<jobVars, wakeVars, permits>>

\* The outcome is written; the connection goes back.
Write(s) ==
  /\ At(s, "writing")
  /\ job' = [job EXCEPT ![slot[s].job] = slot[s].outcome]
  /\ slot' = [slot EXCEPT ![s] = 
       IF @.outcome = "soon"
       THEN [Awake EXCEPT !.phase = "wrote", !.until = {<<slot[s].job, runs[slot[s].job]>>}]
       ELSE Awake]
  /\ UNCHANGED <<runs, wake, passed, wakeVars, syncVars>>

\* on_reschedule: the deadline of a delay below poll_interval is pushed.
PushDeadline(s) ==
  /\ At(s, "wrote")
  /\ wake' = wake \cup slot[s].until
  /\ slot' = [slot EXCEPT ![s] = Awake]
  /\ UNCHANGED <<job, runs, passed, wakeVars, syncVars>>

-----------------------------------------------------------------------------
(* _maybe_cleanup.                                                         *)

\* It is due or not; several slots may find it due at once, since the time of the last run
\* is written at its end.
MaybeCleanup(s) ==
  /\ At(s, "cycle")
  /\ \E phase \in {"wantFetch", "wantLock"} : GoTo(s, phase)
  /\ UNCHANGED <<jobVars, wakeVars, syncVars>>

Leads(s) == slot[s].phase \in {"wantPrune", "pruning", "wantSweep", "sweeping"}

\* Fault: the lock is waited for on a connection of the pool.
TryLockWaiting(s) ==
  /\ At(s, "trying")
  /\ \A t \in Slots : ~Leads(t)
  /\ GoTo(s, "wantPrune")
  /\ UNCHANGED <<jobVars, wakeVars, syncVars>>

\* pg_try_advisory_lock: another worker may be the leader, or another slot is.
TryLock(s) ==
  /\ At(s, "trying")
  /\ \/ (\A t \in Slots : ~Leads(t)) /\ GoTo(s, "wantPrune")
     \/ GoTo(s, "wantFetch")
  /\ UNCHANGED <<jobVars, wakeVars, syncVars>>

\* delete_expired_jobs and cleanup_stale_workers borrow a connection each; after the second,
\* or when one fails, the lock's connection goes back as well.
Prune(s) ==
  /\ At(s, "pruning")
  /\ \E phase \in {"wantSweep", "wantFetch"} : GoTo(s, phase)
  /\ UNCHANGED <<jobVars, wakeVars, syncVars>>

Sweep(s) ==
  /\ At(s, "sweeping")
  /\ GoTo(s, "wantFetch")
  /\ UNCHANGED <<jobVars, wakeVars, syncVars>>

-----------------------------------------------------------------------------
(* Outside.                                                                *)

\* A producer's job and its pg_notify, which reaches a listener that works.
Arrive(j) ==
  /\ job[j] = "unborn"
  /\ job' = [job EXCEPT ![j] = "queued"]
  /\ note' = listening
  /\ UNCHANGED <<runs, wake, passed, event, listening, slot, syncVars>>

\* on_notification sets the event, which wakes every slot that waits for it.
Deliver ==
  /\ note
  /\ note' = FALSE /\ event' = TRUE
  /\ slot' = [s \in Slots |-> IF At(s, "asleep") THEN Awake ELSE slot[s]]
  /\ UNCHANGED <<jobVars, listening, syncVars>>

\* The listener's connection drops; nobody opens another.
ListenerDies ==
  /\ listening
  /\ listening' = FALSE /\ note' = FALSE
  /\ UNCHANGED <<jobVars, event, slot, syncVars>>

ComeDue(j) ==
  /\ job[j] = "soon"
  /\ job' = [job EXCEPT ![j] = "queued"]
  /\ UNCHANGED <<runs, wake, passed, wakeVars, slot, syncVars>>

\* A deadline is taken after the write, so the row is due before it passes.
Pass(d) ==
  /\ d \in wake \ passed
  /\ ~(job[d[1]] = "soon" /\ runs[d[1]] = d[2])
  /\ passed' = passed \cup {d}
  /\ UNCHANGED <<job, runs, wake, wakeVars, slot, syncVars>>

-----------------------------------------------------------------------------
SlotStep(s) ==
  \/ Acquire(s) \/ Fetched(s) \/ FetchFails(s) \/ Doze(s) \/ StartWait(s)
  \/ Submit(s) \/ StartThread(s) \/ Write(s) \/ PushDeadline(s) \/ MaybeCleanup(s)
  \/ TryLock(s) \/ Prune(s) \/ Sweep(s) \/ TimeOut(s)
  \/ \E o \in Outcomes : RunAsync(s, o) \/ EndThread(s, o) \/ JobTimesOut(s, o)

World ==
  \/ EndOrphan \/ Release \/ Deliver \/ ListenerDies
  \/ \E j \in Jobs : Arrive(j) \/ ComeDue(j)
  \/ \E d \in wake : Pass(d)

Next == World \/ \E s \in Slots : SlotStep(s)

\* Statements are answered, and a fetch does not fail for ever; handlers end or time out,
\* sleeps end, the pool serves its waiters in turn.  A thread that has outlived its job may
\* run for ever, and a notification may take as long.
Fairness == \A s \in Slots : SF_vars(SlotStep(s)) /\ SF_vars(Fetched(s))

Spec == Init /\ [][Next]_vars /\ Fairness

-----------------------------------------------------------------------------
(* Properties.                                                             *)

\* Every permit of the sync pool is free, or belongs to a future that is not done, or is on
\* its way back: none is lost or handed back twice, by whatever race of the job's timeout
\* with the thread ("active sync execution <= sync_handler_pool_size",
\* _execute_job_safely).
PermitsMatchThreads ==
  permits + orphans + releasing
    + Cardinality({s \in Slots : slot[s].phase \in {"submitted", "threaded"}}) = SyncPool

\* When all slots sleep, each short retry that waits or has come due has a slot that sleeps
\* no longer than to its deadline, or one is about to wake (on_reschedule, idle_timeout):
\* also when the retry comes due between a slot's empty fetch and its sleep, or another slot
\* pops its deadline.
Sleepless(s) == ~(slot[s].until \subseteq wake \ passed)
ShortRetriesHaveAWaker ==
  (\A s \in Slots : At(s, "asleep")) =>
    \/ \E s \in Slots : Sleepless(s)
    \/ \A j \in Jobs :
         job[j] \in {"soon", "queued"} /\ runs[j] > 0 =>
           \E s \in Slots : <<j, runs[j]>> \in slot[s].until

\* A due job is taken, although the notification may be lost, with the listener or between
\* an empty fetch and the clearing of the event, and although the permits of the sync pool
\* may all be held by threads that never end (_run_continuous).
DueJobsAreTaken == \A j \in Jobs : job[j] = "queued" ~> job[j] # "queued"

\* Who waits for a connection gets one, the maintenance leader with its second connection
\* included: a pool of the size that _pool_sizing_error asks for does not lock up, given two
\* slots or a headroom of two.
WaitersAreServed ==
  \A s \in Slots : slot[s].phase \in DOMAIN Lent ~> slot[s].phase \notin DOMAIN Lent

=============================================================================
