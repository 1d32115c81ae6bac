# Verification of Soniq

TLA+ models of Soniq, a PostgreSQL-backed job queue for Python, with TLC runs on small
instances and TLAPS proofs for every instance. Source paths below are relative to the
repository.

## 1. The system

| Component | State | Operations | Hard behaviour | What makes it correct |
|---|---|---|---|---|
| **Job store** `soniq/backends/postgres/__init__.py`, `migrations/0001_core.sql` | `soniq_jobs` (status, attempts, worker_id, scheduled_at, dedup_key), `soniq_workers` (last_heartbeat, hostname+pid) | one transaction per method: insert, claim, three outcomes, snooze, nack, cancel, delete, register, heartbeat, stale sweep, expiry | transactions of many processes in any order; one UPDATE over many rows that fails as a whole | one live claim per row; final rows stay final; nothing is lost in `processing` |
| **Job processor** `soniq/core/processor.py` | the claimed record, the in-flight slot | claim, reject, dispatch, record the outcome | outcome writes that arrive after the claim was revoked, that clash or fail | a late outcome is dropped; no attempt runs twice |
| **Worker process** `soniq/core/worker.py`, `utils/signals.py` | slots (`worker_task`), heartbeat task, shutdown phase | start, heartbeat, maintenance, drain, force timeout, nack, grace, stop; `run_once` | cancellation between a claim and its dispatch, crash, stall, sync threads that can't be cancelled | a dead or stopped worker's jobs come back; a running worker forgets a row only for a write that raised |
| **Enqueue and deduplication** `soniq/app.py`, `create_job`, `migrations/0006_sql_api.sql` | the partial unique indexes, open transactions of callers | insert or find a duplicate, three attempts; enqueue many | the duplicate may be claimed between conflict and lookup; callers' rollbacks and deadlocks | at most one queued job per key; the id returned is of a job that had not started; every call ends |
| **Dead-letter service and statistics** `soniq/features/dead_letter.py`, `get_queue_stats` | `soniq_dead_letter_jobs` | move, replay, delete, purge, tags, counts | replay against purge; read-merge-write of tags; a count in two statements | no job is overlooked by a count; tags are lost to overlapping calls only |
| **Scheduler** `soniq/features/scheduler.py` | `soniq_recurring_jobs`, each process's cache | add, pause, resume, remove, tick | compare-and-swap between schedulers with stale caches | one enqueue per due time, save for an add that overlaps it |
| **Webhooks** `soniq/features/webhooks.py` | endpoint caches, bounded queues, the tables of endpoints and deliveries | register, change, dispatch, deliver, retry scan, save, start, stop | full queue, duplicate scans, stale caches, attempts that raise, crash before the save | records say what has happened; only known causes forget a delivery; none stays pending for good |
| **Sync handler pool** `processor.py` 70-230, `app.py` | semaphore permits, executor threads | acquire, submit, time out, release on thread end | threads that outlive their job | threads never exceed the permits; every permit returns |
| **Leadership and pool** `core/leadership.py`, `app.py` | advisory locks, pool connections | try lock, maintenance, unlock | the lock pins a connection while more are asked for | no deadlock with the headroom that `app.py` demands |
| **Wakeups** `worker.py` 182-289 | notification event, retry deadlines | notify, clear, wait, poll | a notification between the empty fetch and `clear()` | a due job is fetched after at most one poll |
| **Application lifecycle** `app.py`, `PostgresBackend.initialize`, `close` | `_initialized`, `_closed`, the pool | first use, setup, status, close | several first users, close against open and against held connections | one pool per process, every call ends |
| **Migrations** `migration_runner.py` | `soniq_migrations`, schema | run, lock, record, report | concurrent runners of different releases, crash between files | each file once, in order; reports stay true |
| **SQLite and in-memory backends** `backends/sqlite.py`, `testing/memory_backend.py` | the same tables in one process; `_write_lock` | the same protocol | all coroutines share one transaction | no accepted job is lost, one matching claim, one untouched job per key |
| **Retry policy** `core/retry.py` | none | delay function | bounds, jitter, overflow of the exponent | delay within its bounds |
| Registry, naming, discovery, middleware, settings, CLI, dashboard, plugins, integrations, logging, metrics, signing | filled at start or read-only | | | no transitions of their own |

How they interact. Producers, workers, schedulers and operators are separate processes that
share nothing but the database: every interaction is a transaction on its tables, plus
`pg_notify` as a hint. Inside a worker the slots, the heartbeat and the shutdown machine are
coroutines of one event loop that share the in-flight slots and the shutdown event.
Recovery is cooperative: a worker that still runs puts the jobs of dead ones back.

## 2. Modules

| Module | Models |
|---|---|
| `JobStore.tla` | the tables and one action per transaction of the PostgreSQL backend |
| `JobQueue.tla` | worker processes with slots, `run_once` calls, producers and operators, over `JobStore` |
| `ClaimLease.tla` | abstract specification: a lease service for jobs |
| `WorkerHost.tla` | what the slots of one worker share: connection pool, sync threads, wakeups |
| `Producers.tla` | enqueue, statement by statement, on pool connections and in callers' transactions |
| `DeadLetters.tla` | the dead-letter table, its operators and `get_queue_stats`, over `Producers` |
| `EmbeddedStores.tla` | the SQLite and the in-memory backend |
| `Scheduler.tla` | one recurring schedule: its row, the caches, calls and tick loops of several processes |
| `Webhooks.tla` | endpoints, deliveries, queues and retry scans of several processes |
| `Setup.tla` | opening and closing an app, and migrations by several processes and releases |
| `MC*.tla` | instances for TLC |
| `JobQueue_proofs`, `WorkerHost_proofs`, `Producers_proofs`, `DeadLetters_proofs`, `EmbeddedStores_proofs`, `Scheduler_proofs`, `Webhooks_proofs`, `Setup_proofs` | theorems |

`JobQueue` EXTENDS `JobStore` and `DeadLetters` EXTENDS `Producers`: they compose the
transactions of one with the processes that run them. The others stand alone, since they meet
the rest of the system in a single step: all `Scheduler` does to `soniq_jobs` is an insert
inside its claim, and a job in `WorkerHost` is its place in one process.

**JobStore.** `status`, `attempts`, `owner` (= worker_id) are columns. `due` is
`scheduled_at <= NOW()`; `beat` is `last_heartbeat` against `heartbeat_timeout`; `alias` marks
worker rows inserted as `hostname#id` because a live row holds the address. A row is `unborn`
before its INSERT and `gone` after its DELETE; the columns of a deleted row are set back to
their initial values to keep the state space small. The status column of `soniq_workers` is
left out: no transaction on a job reads it. `KeyOf` stands for `dedup_key`; `(job_name,
args_hash)` of a `unique` job is guarded by an index of the same form. Each action is one
committed transaction; READ COMMITTED with row locks makes transactions on one row sequential,
and the WHERE clause is evaluated again on the locked row. The order of claims is any order,
since SKIP LOCKED may pass over rows. Left out is `SONIQ_SKIP_UPDATE_LOCK` (PG 145-152), which
drops `FOR UPDATE SKIP LOCKED` from the claim in debug mode and in tests.

**JobQueue.** A slot is a `worker_task` or a `run_once` call. Its `pc` is `idle`, `claimed`
(after `fetch_and_lock_job`, in-flight slot still empty), `running` (dispatched), `recorded`
(outcome written, in-flight slot not cleared yet: hooks and metrics run here), `exited`.
`token` is the claim's `claimed_attempts`. `proc` is the shutdown contract's state: `up` =
RUNNING, `draining`, `forced` = FORCE_TIMEOUT_PATH, `stopped`. `spent` is a history variable
that only properties read. `Drain` abstracts the signal handler; a second signal and
KeyboardInterrupt, which ends the event loop, are covered by `Crash`. A registration that
raises makes the start fail: that worker never becomes `up`. A handler that swallows its
cancellation and returns at once is covered by an outcome written just before the timeout.

**ClaimLease.** `Holders` maps each job to the slots whose claim the row is at, `Life` maps the
two tables to one life. A late outcome, nack or sweep must be a legal lease step.

**WorkerHost.** `slot[s].phase` is the await at which a slot stands: waiting for a connection
(`want...`), using it, asleep on event, deadline or poll, waiting for a permit, before and
after its thread starts. A connection is lent per phase (`Lent`), the listener pins one, the
maintenance leader holds the lock's and asks for another, once to prune (`wantPrune`) and once
to sweep (`wantSweep`). `permits`, `orphans` and
`releasing` are the semaphore, threads that outlived their job and releases posted to the loop.
There is no clock: coming due, a deadline and a poll are steps of their own, in the order
that clocks allow (`Pass`). Claims, lost outcomes and shutdown are in `JobQueue`.

**Producers.** One `call` per caller with phase (`inserting`, `finding`, `notifying`), key,
round (`_DEDUP_ATTEMPTS`) and whether `connection=` was given. `open` are the rows of a
caller's transaction, which others cannot see and whose index entries they wait for
(`Blocking`); two callers may wait for each other, and PostgreSQL then fails one
(`BreakDeadlock`). Workers are any claim, requeue, finish and cancel between the statements;
`Cancel` also takes the dashboard's form, whose guard is the same. A job has one key: a call that
gives `dedup_key` and is `unique` too meets two indexes of the same form, and the model one.

**DeadLetters.** `dlq` is the second table, `op` what an operator is in the middle of: a tag
call between its read and its write, a bulk replay over its list, a count between its two
statements. A filter or an age selects any set of rows (`Matching`). `Delete` is the library's, which deletes
in any state; `DeleteIdle` the dashboard's, which leaves running rows. A replay of a missing row
or of a job nobody has registered returns None and changes nothing; `MaxReplays` is a bound of
the model, the code counts on. `set_tags` reads nothing of a missing row and goes on.

**EmbeddedStores.** For SQLite every statement is a step on `db`, the tables as the one
connection sees them; `disk` is the last commit, and a commit of any coroutine commits what all
have done. `create_job` and `fetch_and_lock_job` hold `lock`. A call that raises or is
cancelled (`Abort`) leaves its statements in the open transaction. For the in-memory backend
the same calls are one step each. The initial state chooses the backend.

**Scheduler.** `row` is the row of `soniq_recurring_jobs`. `loaded`, `cache`, `loop` are
`_loaded`, the entry of `_cache` and `_running` of each process. `op` is the call of the public
API that a process has under way and how far it has come at its awaits: `called` (before
`_ensure_loaded` returns), `composed` (the new entry of `add` exists, the upsert does not),
`written` (row written, cache not). `tick` is the `_tick` under way: `scan` (lock won, time
read), `claim` (`_execute_due` has computed what it will write), `fired` (transaction
committed, object not updated). A tick works on an object of the cache; when `add` or `remove`
replaces that object, `own` turns false and `obj` keeps the detached one. `leader` is the
holder of the advisory lock, whose connection may drop while the tick goes on. `enqueued` and
`served` are history variables; an upsert takes out of `served` the run times after the time its
`add` took (`op[p].at`), which it may bring back. A process runs one API call at a time beside its loop,
and all processes read one clock. The cron parser is a set of times, of which `NextRun` takes
the next. An update or delete that finds its row gone returns False and changes nothing. Left
out: rows that were inserted by hand with a NULL `next_run`, the in-process store of the
embedded backends, and the builders in `schedules.py`.

**Webhooks.** `cache`, `writing`, `loading` are the registry of a process: every call changes
the cache and then awaits the write, which may fail. A delivery has no row before its first
request is answered (`Save`); until then it is a copy in `queue` or in a `lane` (delivery
worker). `Scan` copies due rows and marks nothing, so copies multiply, also across processes.
`Raise` is the `except` of `_delivery_worker`: a secret that can't be decrypted, a payload that is
no JSON or a transport's exception ends the attempt, whose copy is dropped and whose number is
not recorded. The 5 s that the worker sleeps then are a delay of its next `Take`.
`acked` and `refused` record what receivers did, `excused` the causes for which an unrecorded
delivery is given up: full queue, unknown endpoint, exception, failed save, stop, crash. `LIMIT 100`
is above the rows of an instance.

**Setup.** `app` and `pools` are the Soniq object and the pools its process really has;
`call[c].phase` follows a coroutine through `_ensure_initialized`, the runner (`waiting` for
the advisory lock, `reading`, `running` a file, `recording` it), `get_migration_status` and
`close`. A file is its version, and running it counts in `schema`. `told` is what a call has
reported. A release is the set of files it ships. A pool that fails to close (`DrainFails`) stays
with the object, which calls itself closed.

## 3. Runs

| Run | Question | Bounds | Result |
|---|---|---|---|
| `claims` | Can a late outcome touch a newer claim, an attempt run twice, a final row move? | 1 job that may snooze; 2 workers with one address, 1 slot each; 1 `run_once` slot; stalls, crash, stop; 4 attempts; 1 lost write | 544 k states, holds |
| `shutdown` | Does the fleet implement the lease through shutdown? Does a running worker forget a row only for a write that raised? | 1 async job that may snooze and 1 sync job with one key; 2 + 1 slots; stop, crash, stall; 2 attempts; 1 lost write | 489 k states, holds |
| `settle` | Does every queued job get an outcome, and every dead worker's job come back? | 2 jobs, 2 workers with one address, one may stop or crash; 5 attempts; 1 lost write | 117 k states, holds under fairness |
| `dedup_sweep` | Does the sweep do what reliability.md says? | 2 jobs with one key | counterexample, section 6 |
| `worker_host` | Do permits match threads, do short retries have a waker, are due jobs taken, does everybody get a connection? | 2 slots, pool of 3 with headroom 1 (the least allowed), 1 permit; a sync job with 2 attempts, an async one with 1 | 99 k states, holds under fairness |
| `producers` | Is the id that enqueue returns of a job that had not started? Does every call end? | 2 callers with transactions, 2 jobs, 2 keys, 2 rounds, 1 failure | 301 k states, holds under fairness |
| `dead_letters` | Does a count overlook a job, a tag vanish without an overlapping call? | 2 operators, one only tags; 2 jobs, 2 tags, 1 resurrection, 1 failure | 153 k states up to symmetry, holds |
| `embedded_stores` | Can an interleaving, an aborted call or a crash lose a job, give two matching claims, queue a key twice? | 2 coroutines, 2 jobs with one key, one of them with 2 claims; 2 lives, 1 fault | 1.2 M states up to symmetry, holds |
| `setup` | Does each file run once and in order, do reports hold, is there one pool, does every call end? | an old release with 2 coroutines, a new one with a third file and a plugin's; 1 failure or crash | 46 k states, holds under fairness |
| `webhooks` | Are records earned, what forgets a delivery, does any stay pending though its process can send? | 2 processes with 1 worker and a queue of 1; 1 endpoint, 2 deliveries, one refusable; 2 attempts; 2 faults | 219 k states, holds under fairness |
| `sched_fleet` | Is a run time ever enqueued twice but for an add that overlapped it, are missed runs collapsed, does a due run leave the row? | 2 processes that register one cron schedule, one stops or dies at any point; clock 0 .. 4; 1 fault | 95 k states, holds, the last under fairness |
| `sched_calls` | With calls in a process whose cache is stale, is a run counted without having happened? Does a process by itself agree with the row? | 1 scheduler, 1 process that adds another definition, pauses, resumes, removes, ticks, stops and dies; clock 0 .. 2; 1 fault when that process is alone, 2 runs when it is not | 1.7 M states, holds |

Why the bounds are enough. Every race on a claim is between it and its successor, so two
workers and one job reach all of them; the second job is there for the two index clashes and
for the two shutdown branches. `MaxAttempts = 2` gives a first attempt, a retry and the
give-up; `AttemptCap` bounds claims, at least one more than `MaxAttempts`, so that a job is
also claimed past its attempts. `MaxFaults` bounds lost writes and failed statements
everywhere. `CanStop`, `CanCrash` and `CanStall` name which workers do what: each run leaves
out the combinations another run has. Deadlock checking is off where the system may end for
good: worker ids, job ids or delivery ids are used once, and a store may rest.

For the scheduler, `Horizon` is the last instant. The cron schedule runs at every other one, so
a horizon of 4 has two run times, of which one can be missed, and 2 is one run time with the
calls around it. In `sched_calls` the constraint `LessTogether` keeps failed transactions, and
what follows the second run, to the states in which `p1` has not used the scheduler: it is a
bound like the others. The second run itself is checked for both processes, and `sched_fleet` has faults with two processes.

For webhooks a queue of one is full as soon as anything is in it, two processes give duplicate
scans, and two deliveries let one be dropped while another is queued. For enqueueing, two rounds
are one retry and the last one, and two keys are what a deadlock needs. For the embedded
stores two coroutines share the transaction, and a second life follows a crash. In
`worker_host` the least pool the check at start allows is also the hardest; with one slot and
a headroom of one the property `WaitersAreServed` does not hold, see section 6.

`OneRowPerLostWrite` and `EveryJobSettles` say what is left of a row whose outcome could not be
written, because the connection failed or its dedup key was enqueued again: it stays
`processing`, no more rows do than writes raised, and it gets its outcome once the worker that
forgot it has stopped. `shutdown` has both causes, `settle` the first. `EveryCallEnds` of
`producers` excuses only a call that no id is left for (`OutOfIds`); two callers in a deadlock
are not excused. `CountsAreRuns` bounds the row's `run_count` from above, since it may fall behind
(section 6).

Each property of a passing run has a mutant in `PROJECT.json`: a definition changed as a
plausible bug would, under which TLC finds the property violated. Mutated forms are the
definitions marked `Fault:` in the modules.

## 4. Fairness

`Fairness` in `JobQueue` is what the scheduling of the program gives:

- delays pass, and a slot of a running worker fetches again at the latest after
  `poll_interval`, so claims are weakly fair. `run_once` calls are made by users and are not.
- A handler ends: `job_timeout` (300 s by default) cancels async handlers and abandons sync
  ones. So outcomes are weakly fair. Snooze is left out: a handler may snooze forever.
- Heartbeats, the shutdown timeout and nacks are driven by timers and loops.
- `Sweep` is strongly fair: `_maybe_cleanup` runs between two jobs of a slot each
  `cleanup_interval`, so it is enabled again and again and not continuously.
- Producers, cancel, delete, signals, crashes and lost writes are not fair: they may never
  happen.

`WorkerHost`: the steps of a slot are strongly fair, for the pool serves its waiters in turn,
sleeps end by the poll and handlers by the timeout; so is a fetch that succeeds, as the
database does not fail for ever. A thread that outlived its job, the release it posts, the
delivery of a notification and the listener owe nothing, so the liveness properties hold
without them.

`Producers`: statements answer. An INSERT that waits for another transaction, and a commit that
a deadlock may take away, are strongly fair: each is enabled again and again. Callers end their
transactions. Nothing is asked of workers, who may claim the duplicate between any two
statements. `Setup`: a coroutine's next step is strongly fair, since PostgreSQL and asyncio
queue those who wait for a lock. Failures, crashes and new calls are not fair.

`Webhooks`: delivery workers, scans and due dates are weakly fair: tasks of a running process
run again, and a request ends by its timeout, be it with an exception. Registry calls, events, stops, crashes and
failures are not, and `PendingSettles` asks for a process that stays up with the endpoint
active in its cache and where, from some time on, attempts at this delivery raise no more.

`Scheduler`: time passes, and the steps of a call or a tick that is under way are
weakly fair, since coroutines that wait for the database go on. `BeginTick` is strongly fair:
the loop tries the lock in each check interval and another process may hold it at that moment.
`Start` is strongly fair for processes that neither stop nor die: the service starts its
scheduler. Calls, stops, crashes and faults are not fair. `DueRunsLeave` excuses a reliable
process whose cached `next_run` lies past the horizon (`OutOfTime`): it would look at the row at
that time, which the run no longer contains. No process pauses or resumes in `SchedFleet`;
section 6 says what happens when they do.

## 5. Proofs

Proved by TLAPS for all values of the constants, from the assumptions on them that the modules
state: types, elements that are not members of sets, positive bounds; for the scheduler that
an interval is positive and a cron expression has a first time after each instant of the
horizon; for webhooks that endpoints and deliveries are finitely many; for `Setup` that
there is one closer for each process and that releases grow (`ReleasesGrow`: a release ships
every core file below one of its own that another release has).

| Module | Theorem | Property |
|---|---|---|
| `JobQueue_proofs` | `TypeCorrect` | `Spec => []TypeOK` |
| | `ClaimsInvariant` | `Spec => []ClaimInv` |
| | `ClaimFence` | `Spec => []OneHolder` |
| | `EachAttemptOnce` | `Spec => []AttemptRunsOnce` |
| | `SettledRowsFinal` | `Spec => SettledIsFinal` |
| | `LostClaims` | `Spec => LostClaimStaysLost` |
| | `LostWritesStrandOneRowEach` | `FleetOnly => (Spec => []OneRowPerLostWrite)` |
| | `LeaseRefinement` | `Spec => ImplementsLease` |
| `WorkerHost_proofs` | `WorkerTypes` | `Spec => []TypeOK` |
| | `PermitsConserved` | `Spec => []PermitsMatchThreads` |
| | `ShortRetriesAreSleptFor` | `Spec => []ShortRetriesHaveAWaker` |
| `Producers_proofs` | `EnqueuedJobsStart` | `ProducersSpec => []ReturnedJobStarts` |
| `DeadLetters_proofs` | `DeadTypes` | `Spec => []TypeOK` |
| | `CountsOverlookNothing` | `Spec => []NoJobOverlooked` |
| | `TagsAreLostOnlyToOverlap` | `Spec => OnlyOverlapLosesTags` |
| | `ReturnedJobStartsDespiteOperators` | `Spec => []ReturnedJobStarts` |
| `EmbeddedStores_proofs` | `EmbeddedTypes` | `Spec => []TypeOK` |
| | `EmbeddedLosesNothing` | `Spec => []NoJobLost` |
| | `EmbeddedOneHolder` | `Spec => []OneHolder` |
| | `EmbeddedOnePerKey` | `Spec => []OneUntouchedPerKey` |
| `Scheduler_proofs` | `ScheduleTypes` | `Spec => []TypeOK` |
| | `RunTimesAdvance` | `Spec => []SlotsAdvance` |
| | `RunsServedOnce` | `Spec => OneRunPerSlot` |
| | `CountsAreLowerBounds` | `Spec => []CountsAreRuns` |
| | `SoleUserInSync` | `Spec => []SoleProcessInSync` |
| `Webhooks_proofs` | `WebhookTypes` | `Spec => []TypeOK` |
| | `DeliveryRecordsAreEarned` | `Spec => []RecordsAreEarned` |
| | `NoDeliveryForgotten` | `Spec => []NothingForgotten` |
| | `KnownDeliveriesStayKnown` | `Spec => [][\A d : UnderWay(d) => UnderWay(d)' \/ GivenUp(d)]_vars`, `GivenUp` being seven steps that concern `d` |
| `Setup_proofs` | `SetupTypes` | `Spec => []TypeOK` |
| | `MigrationsRunOnce` | `Spec => []FilesRunOnceInOrder` |
| | `ReportsStayTrue` | `Spec => []ReportsHold` |
| | `OnePoolPerProcess` | `Spec => []OnePool` |

The argument for the queue. `OneHolder` is not inductive: a snooze counts a row's attempts
*down*, so a later claim could get the number of an older claim that is still alive. `ClaimInv`
says why it doesn't: live claims of one job have different tokens, none is above the row's `attempts` while
the row is queued or processing, and no executed attempt is either. A claim takes `attempts +
1`, above all of them. Only the slot with `token = attempts`, the highest, can count down by a
snooze, and it ends with that step; so the bound survives. Every other step is *quiet*
(`RowsQuiet`, `SlotsQuiet`): rows keep or raise attempts, slots only stop. One lemma per
transaction shows it is quiet, `QuietStep` shows quiet steps keep `ClaimInv`, and claim, begin,
snooze and enqueue have lemmas of their own. `RowMoves` lists what a step can do to one row;
the two action properties follow from it. The refinement proof maps each step to one lease step
(`HolderFinishes`, `SlotsStop`, `RowsLeave`) or a stutter; it needs `ClaimInv` to know that a
matching slot is the only holder.

`LostWritesStrandOneRowEach` has a hypothesis on the instance: `FleetOnly` says that every slot
belongs to a worker, for a `run_once` claim leaves the row with an earlier worker's id or none.
Nothing is assumed of dedup keys, snoozes, addresses or the number of faults. A row can join
`Forgotten` in three ways: its slot lets go of it, it becomes `processing` without a slot, or its
owner comes up. `OwnersStarted` excludes the third (whoever owns a processing row has been
started, and a worker starts once), `ProcessingBefore` the second (only a claim makes a row
processing, and it fills a slot), and `ForgettingLosesAWrite` says of the first that a slot of a
running worker lets go of a row it owns in `processing` only by a write that raises, which counts
in `faults` and concerns one row.

The argument for one worker. Permits are counted: `PermitsMatchThreads` is a sum over slots, and
each step moves one slot between the two kinds of phases; it is inductive given the types and
`Places` (two slots never work on one job). For the short retries, a deadline passes
through three hands: the slot that has written the retry, the heap `wake`, and the slots that
sleep on it. `Deadlined` says that it is in one of them at any time: one that waits is in the
heap or about to be pushed (`Waiting`), one that has come due is still known or some slot has
yet to look (`Noticed`), and each deadline in the heap has a slot that does not sleep past it or
one that is up (`Watched`). A deadline is of an attempt that has ended, so a slot that pops an
old one takes nothing from a new one.

The argument for the scheduler. `TypeOK` has `Shape` as a conjunct since types alone are not
inductive: a step reads `cache[p].next` only where `Shape` says there is an entry.
`SlotsAdvance` is inductive given `TypeOK`: a claim carries a run time `expected <= at` and a
`next > at` (`NextRun` returns a later time, a lemma), so the compare-and-swap moves the row
past what it serves, and every served time stays below the row. The conjunct about `add` says that
the row to be written lies past the time the call took (`ComposeAdvances`), so the upsert, which
keeps in `served` only what lies at or before that time, keeps the rest below the row
(`UpsertAdvances`). `OneRunPerSlot` follows: the
time that a step serves is the row's `next`, above all served ones. Neither caches nor the lock
appear in the argument: the compare-and-swap alone carries it. `CountsAreRuns` is inductive
given `TypeOK`, because each place a count can be copied from is one of its conjuncts.
`SoleProcessInSync` says when caches can be trusted: a process that alone has used the schedule
agrees with its row between calls. `Agree` says it for every point of a call (row written, entry
not yet), and `Claimed` for a tick between its commit and its copy; `Order` says that there is
no tick without a loop and no loop without a loaded cache. A crash of that process loses
the cache and with it what might differ.

The argument for webhooks. What a row says comes from a worker's memory, whose claim comes from
a copy in a queue, whose attempts come from a row. `Honest` closes the circle: a copy claims
fewer than `MaxAttempts` attempts, all of which were refused; a worker is at most one request
ahead of the refusals; what it is about to save is `Earned`. History only grows
(`EarnedGrows`), so that a copy that lags behind is still true. Nothing is assumed of how
many copies there are. `NothingForgotten` follows from a property of steps, `NoneForgotten`, which is also the theorem
`KnownDeliveriesStayKnown`: a delivery that is `UnderWay` (queued, with a worker or recorded)
stays so unless the step is one of seven in `GivenUp`, about that very delivery: its worker finds
the endpoint off or unknown, delivering it raises, its save fails or is refused, its endpoint is
deleted, its process stops or dies with the copy. Each of them puts it into `excused` unless it
still has a row (`GivenUpIsExcused`), and only a request by a worker, which has the delivery in
hand, adds to `acked` and `refused` (`AnsweredIsKnown`).

The argument for enqueueing. `Returns` says of a call about to return what
`ReturnedJobStarts` says of one that has: its id is visible as queued, or has left that state
since the call began (`left`). A row can stop being visible only by a claim or a cancel, which
`left` records for every caller, or by a rollback, which ends the calls of its own transaction
(`Transactions`: transactions own disjoint uncommitted rows).

The argument for the dead-letter service builds on it: `DeadLetters_proofs` extends
`Producers_proofs`, and each step of an operator leaves the producers' rows alone or is one that
their invariant admits, so `ReturnedJobStarts` survives replay, deletion and purge. `Apart`
(a dead-letter row has no row in the job table) and `Counts` (what a count in progress has
not counted is in the second table or gone) give `NoJobOverlooked`: a job moves from the table
counted first to the one counted second, never back under its id.

The argument for the embedded stores. A coroutine can't rely on the tables between two of
its statements, so the invariant says what it may still rely on. `Numbers`: claims of one job
carry different numbers, none above the row's attempts. `Locked`: under `_write_lock` the
selected row waits for the number that the update will write, and the row to insert clashes with
none. `Durable`: an accepted job is kept in what the connection sees and in what a crash would
leave, and an insert in between is kept by its own commit at the latest. A step of one
coroutine keeps what the others rely on because rows change in few ways, which the lemmas list.

The argument for setup. `Migrating`: under the advisory lock a runner's `pending` is exactly
what it ships and nobody has recorded, since it was read after the lock was won and only the
holder records. The lowest pending file therefore has all lower ones recorded
(`ReleasesGrow`), and an SQL effect and its record are one commit. `Opening`: while
`_init_lock` is held there is no pool, and a pool is closing for the only closer of its
process; `OnePool` and the type of `pools` rest on it.

Only model-checked: liveness (`EveryJobSettles`, `DeadWorkersReleaseJobs`, `DueRunsLeave`,
`PendingSettles`, `DueJobsAreTaken`, `WaitersAreServed`, both `EveryCallEnds`), since the prover
has no rules for fairness and ENABLED. `WaitersAreServed` also depends on the numbers of slots
and connections. All safety properties of the passing runs are proved. The inductive
invariants above were first checked by TLC on the instances of the runs.

## 6. Where documents and code differ

`dedup_sweep` is a run whose property states the document and whose counterexample is what the
code does: one clash on the dedup index aborts every sweep; `PROJECT.json` quotes the lines.

Seen while modelling and read in the code, without a run of their own. Paths without a
directory are those of section 1, `PG` is `backends/postgres/__init__.py`.

Claims, recovery and shutdown:

- A slot records a retry and still has its in-flight entry when the shutdown timeout fires;
  another worker claims the row; the nack, which tests the status only, takes it away (PG 711;
  `shutdown.md:76`).
- A `run_once` claim of a retried job keeps the former worker's id, and the sweep requeues it
  when that worker is dead (PG 1122, against the comment at 1115).
- `asyncio.wait_for` cancels what it waits for, so WAIT_FOR_THREAD never waits (`worker.py` 481;
  `shutdown.md:47`).
- A job claimed and not yet dispatched at the shutdown timeout counts as idle: it is not nacked
  and stays `processing` after the exit (`worker.py` 428; `shutdown.md:50` says all in-flight
  work was completed or nacked). It comes back through a sweep (`DeadWorkersReleaseJobs`).
- After a failed outcome write the worker goes on beating, so no sweep takes its row back
  (`worker.py` 287; `reliability.md:145` says the job is retried).
- A retry whose dedup key was enqueued again can't become `queued` and stays `processing` under
  a live worker (PG 607; `storage-format.md:58` says it goes back to `queued`).
- `delete_job` of the library deletes running rows, the dashboard's leaves them.

The worker process:

- One slot with a headroom of one passes the check at start (`app.py` 154) with a pool of two:
  the listener has one connection, the maintenance leader the other, and it waits for a third
  for ever. The default headroom of two is enough.
- A notification between an empty fetch and `clear()` is lost, which costs up to
  `poll_interval` (`worker.py` 263); so may the short retry of a slot when all others are busy.

Enqueueing and dead letters:

- An enqueue whose `pg_notify` fails raises after its insert has been committed (PG 337).
- A count may see a job twice: the two statements have a snapshot each (PG 846;
  `docs/_internals/contracts/dead_letter.md`). It misses none, which `NoJobOverlooked` states.

Embedded stores:

- The move to the dead-letter table is two statements in a transaction that all coroutines
  share, so a commit of another coroutine in between commits half of it, against the comment
  near `sqlite.py` 370.
- The claim updates by id without the status, so it takes a row that was cancelled or settled
  after the SELECT (`sqlite.py` 281), and the second statement of the move deletes by id
  whatever claim the row is at.
- The sweep marks dead workers and requeues their jobs in two statements; an abort in between
  leaves the jobs in `processing` with a worker that no later sweep selects (`sqlite.py` 608).

Scheduler:

- `add()`, which every scheduler calls at start for decorated schedules, reads the clock and
  then awaits; when the leader enqueues the run in between, the upsert puts `next_run` back to
  the time just served and it is enqueued again (`scheduler.py` 424; `04-scheduling.md:165`).
  `OneRunPerSlot` excepts this overlap and no other.
- `add()` and a tick write the `run_count` of their own cache, so the row's count goes back
  (`scheduler.py` 446, 645; `storage-format.md:176` says it is kept up to date); `add()` also
  undoes a concurrent pause (`scheduler.py` 442).
- A restart computes `next_run` of decorated schedules anew, so a run that came due while no
  scheduler ran is dropped (`scheduler.py` 520; `storage-format.md:165`, `04-scheduling.md:186`).
- A schedule paused by the scheduler's process and resumed by another is never enqueued again:
  the status in the cache is not read again (`scheduler.py` 610; `storage-format.md:165`). The same
  goes for its definition. `SoleProcessInSync` says where caches can be trusted.

Webhooks (`webhooks.py`):

- A new delivery dropped by a full queue has no row, so the retry scan the comment at 471-485
  relies on can't find it (`excused` in the model).
- An exception before the answer, as for a secret that can't be decrypted after a restart without
  `SONIQ_SECRET_KEY` (`features/signing.py` 59-64 warns of it; 119-125), is only logged (520): the
  attempt is not counted. A new delivery is gone; a recorded one stays `pending` and is tried at every
  scan for ever if each process raises, whatever its `max_retries` (`webhook-delivery.md:169`). `PendingSettles` asks for one
  process that does not.
- A copy that lags behind overwrites `delivered` or `failed` with `pending`, and the delivery is
  sent again (644). `PendingSettles` shows that it settles in the end.
- A late upsert of an endpoint brings a row back that another process has unregistered.
- `load_endpoints_from_db` takes the registry lock with a connection in hand (362) and others
  ask for a connection with the lock in hand: a small pool can block both.
- The scan's LIMIT 100 (612) may be filled with rows of inactive endpoints that nobody settles.

Setup:

- `setup` doesn't run plugin files (`app.py` 1211 selects versions by prefix; `authoring.md:150`).
- `close()` whose pool fails to close is logged and leaves the pool with a closed object (`app.py`
  410).
- `close()` while another coroutine initializes leaves an open pool on a closed object, which
  is open again; with two closers and an opener a pool can leak. `Closers` has one for
  each process, and `OnePool` holds for that.

## 7. What is left

Modelled in full or in part: see the components in `PROJECT.json`. Next, in this order: an
abstract specification of the scheduler (a register of run times that each registration restarts
and each enqueue advances), with a proof that `Scheduler` implements it; the embedded stores
against `ClaimLease`.

Not modelled, and why:

- *Retry policy* (`core/retry.py`): a pure function with floating-point jitter; the models let
  any delay pass.
- *`soniq_enqueue` in SQL* (`0006_sql_api.sql`): the loop of `Producers` inside one statement.
- *Registry, naming, discovery, settings, plugins, integrations*: filled or called at start and
  read afterwards; the models take their values as constants.
- *Middleware, hooks, logging, metrics, signing, rate limit*: wrap a step or convert a value and
  change no shared state.
- *CLI and dashboard pages*: parse, print and query; what they change is done by the library's
  operations, except the dashboard's own cancel and delete, which are modelled.
- *Heartbeat in `WorkerHost`*: borrows one connection for one statement and waits for nothing
  meanwhile; `JobQueue` lets it be late (`CanStall`).
