--------------------------- MODULE EmbeddedStores ---------------------------
(***************************************************************************)
(* The stores that live inside one process: soniq/backends/sqlite.py and   *)
(* soniq/testing/memory_backend.py.  The coroutines of a worker share      *)
(* either dictionaries, where a call is one step, or one SQLite            *)
(* connection.  There every statement is a step, all coroutines are in the *)
(* same transaction, a commit of one commits what the others have done so  *)
(* far, and only create_job and fetch_and_lock_job take _write_lock.       *)
(*                                                                         *)
(* Abstractions.  Time is left out: a queued row is due or not, a result   *)
(* expired or not, a heartbeat of a dead worker stale or not.  Queues and  *)
(* priorities are left out: a fetch takes any queued row.  Statistics and  *)
(* lookups change nothing.  One process uses the file at a time.           *)
(***************************************************************************)
EXTENDS Integers, FiniteSets

CONSTANTS
  Jobs,         \* job ids; an id is a fresh UUID
  KeyOf,        \* dedup key, or (job_name, args_hash), that a job is created with
  Tasks,        \* coroutines: worker slots, maintenance, producers and operators
  NoTask,       \* _write_lock is free
  NoJob,        \* a coroutine that runs no job
  MaxLives,     \* bound: workers that start one after the other
  MaxAttempts,  \* bound: claims of each job
  MaxFaults     \* bound: calls that end half way, and sweeps of a worker that runs

ASSUME EmbeddedAssumption ==
  /\ NoTask \notin Tasks /\ NoJob \notin Jobs
  /\ MaxLives \in Nat \ {0} /\ MaxAttempts \in [Jobs -> Nat] /\ MaxFaults \in Nat

VARIABLES
  backend,  \* "sqlite" or "memory"
  db,       \* the tables as the connection sees them, or the dictionaries
  disk,     \* the tables as of the last commit
  lock,     \* holder of _write_lock
  call,     \* the call each coroutine is in
  claim,    \* the claim each coroutine works on
  life,     \* the worker that has registered last
  running,  \* that worker takes jobs
  acked,    \* history: jobs whose create_job has returned
  removed,  \* history: jobs that somebody deleted or let expire
  faults    \* calls that ended half way

vars == <<backend, db, disk, lock, call, claim, life, running, acked, removed, faults>>

-----------------------------------------------------------------------------
Lives == 1 .. MaxLives
RowTypes == [state : {"none", "queued", "processing", "done", "cancelled"},
             attempts : Nat, worker : 0 .. MaxLives]
NoRow == [state |-> "none", attempts |-> 0, worker |-> 0]
Tables == [row : [Jobs -> RowTypes], dead : SUBSET Jobs,
           worker : [Lives -> {"absent", "active", "stopped"}]]
Steps == {"idle", "insert", "update", "copy", "drop", "stop", "requeue", "commit"}
NoClaim == [job |-> NoJob, n |-> 0]
Claims == [job : Jobs \cup {NoJob}, n : Nat]
NoCall == [step |-> "idle", job |-> NoJob, then |-> NoClaim, stale |-> {}]
\* then: the claim of the coroutine once the call has returned.
Calls == [step : Steps, job : Jobs \cup {NoJob}, then : Claims, stale : SUBSET Lives]

TypeOK ==
  /\ backend \in {"sqlite", "memory"}
  /\ db \in Tables /\ disk \in Tables
  /\ lock \in Tasks \cup {NoTask}
  /\ call \in [Tasks -> Calls]
  /\ claim \in [Tasks -> Claims]
  /\ life \in Lives /\ running \in BOOLEAN
  /\ acked \subseteq Jobs /\ removed \subseteq Jobs
  /\ faults \in 0 .. MaxFaults

Empty == [row |-> [j \in Jobs |-> NoRow], dead |-> {},
          worker |-> [l \in Lives |-> IF l = 1 THEN "active" ELSE "absent"]]

\* A worker has initialized the store and registered.
Init ==
  /\ backend \in {"sqlite", "memory"}
  /\ db = Empty /\ disk = Empty
  /\ lock = NoTask
  /\ call = [t \in Tasks |-> NoCall]
  /\ claim = [t \in Tasks |-> NoClaim]
  /\ life = 1 /\ running = TRUE
  /\ acked = {} /\ removed = {} /\ faults = 0

-----------------------------------------------------------------------------
(* What one statement does to the tables.                                  *)

Duplicates(j) == {k \in Jobs : db.row[k].state = "queued" /\ KeyOf[k] = KeyOf[j]}

Inserted(d, j) == [d EXCEPT !.row[j] = [NoRow EXCEPT !.state = "queued"]]

\* UPDATE ... WHERE id = ?: whatever has become of the row since it was selected.
Taken(d, j) ==
  IF d.row[j].state = "none" THEN d
  ELSE [d EXCEPT !.row[j] = [state |-> "processing", attempts |-> @.attempts + 1,
                             worker |-> life]]

\* Faults: the guard tests the status alone; a snooze hands back one attempt too many; an
\* id is returned before the commit; the lock is not taken.
StatusOnly(d, c) == d.row[c.job].state = "processing"

SnoozedTwice(r, n) == {[r EXCEPT !.state = "queued", !.attempts = n - 2]}

\* _CLAIM_GUARD; _still_claimed.
StillClaimed(d, c) ==
  d.row[c.job].state = "processing" /\ d.row[c.job].attempts = c.n

\* What each outcome makes of the row: mark_job_done with and without a result to keep,
\* mark_job_failed, reschedule_job.
Finished(r) == {[r EXCEPT !.state = "done"], NoRow}
Retried(r, n) == {[r EXCEPT !.state = "queued", !.attempts = n]}
Snoozed(r, n) == {[r EXCEPT !.state = "queued", !.attempts = n - 1]}

Copied(d, j) == [d EXCEPT !.dead = @ \cup {j}]
Dropped(d, j) == [d EXCEPT !.row[j] = NoRow]

\* nack_job.
Nacked(d, j) ==
  IF d.row[j].state = "processing"
  THEN [d EXCEPT !.row[j].state = "queued", !.row[j].worker = 0] ELSE d

\* Both statements of cleanup_stale_workers.
Stopped(d, S) == [d EXCEPT !.worker = [l \in Lives |-> IF l \in S THEN "stopped" ELSE @[l]]]
Requeued(d, S) ==
  [d EXCEPT !.row = [j \in Jobs |-> IF @[j].state = "processing" /\ @[j].worker \in S
                                    THEN Nacked(d, j).row[j] ELSE @[j]]]

\* cancel_job.
Cancelled(d, j) ==
  IF d.row[j].state = "queued" THEN [d EXCEPT !.row[j].state = "cancelled"] ELSE d

-----------------------------------------------------------------------------
(* How a call proceeds.                                                    *)

Idle(t) == call[t] = NoCall
At(t, step) == backend = "sqlite" /\ call[t].step = step

\* The first statement of a call has run and the next one is to come.
GoTo(t, c) == call' = [call EXCEPT ![t] = c] /\ UNCHANGED <<db, claim>>

\* The last write of a call, after which t works on claim c: SQLite commits afterwards.  A
\* claim that has been used up is down to the job's id.
Write(t, d, c) ==
  /\ db' = d
  /\ \/ /\ backend = "sqlite"
        /\ call' = [call EXCEPT ![t] = [NoCall EXCEPT !.step = "commit", !.then = c]]
        /\ claim' = [claim EXCEPT ![t].n = IF c = NoClaim THEN 0 ELSE @]
     \/ /\ backend = "memory"
        /\ claim' = [claim EXCEPT ![t] = c]
        /\ UNCHANGED call

Unlock(t) == lock' = IF lock = t THEN NoTask ELSE lock

Commit(t) ==
  /\ At(t, "commit")
  /\ disk' = db
  /\ call' = [call EXCEPT ![t] = NoCall]
  /\ claim' = [claim EXCEPT ![t] = call[t].then]
  /\ acked' = acked \cup ({call[t].job} \ {NoJob})
  /\ Unlock(t)
  /\ UNCHANGED <<backend, db, life, running, removed, faults>>

-----------------------------------------------------------------------------
(* create_job and fetch_and_lock_job, under _write_lock.                   *)

InsertReturning(t) ==
  /\ backend = "sqlite" /\ call[t].step = "insert"
  /\ db' = Inserted(db, call[t].job)
  /\ acked' = acked \cup {call[t].job}
  /\ call' = [call EXCEPT ![t].step = "commit"]
  /\ UNCHANGED <<backend, disk, lock, claim, life, running, removed, faults>>

CreateUnlocked(t, j) ==
  /\ Idle(t)
  /\ db.row[j] = NoRow /\ j \notin db.dead \cup acked \cup removed
  /\ Duplicates(j) = {} /\ backend = "sqlite"
  /\ GoTo(t, [NoCall EXCEPT !.step = "insert", !.job = j, !.then = claim[t]])
  /\ UNCHANGED <<backend, disk, lock, life, running, acked, removed, faults>>

\* create_job that finds no queued duplicate; with one it returns that job's id and writes
\* nothing.
Create(t, j) ==
  /\ Idle(t) /\ lock = NoTask
  /\ db.row[j] = NoRow /\ j \notin db.dead \cup acked \cup removed
  /\ Duplicates(j) = {}
  /\ \/ /\ backend = "sqlite"
        /\ GoTo(t, [NoCall EXCEPT !.step = "insert", !.job = j, !.then = claim[t]])
        /\ lock' = t
        /\ UNCHANGED acked
     \/ /\ backend = "memory"
        /\ Write(t, Inserted(db, j), claim[t])
        /\ acked' = acked \cup {j}
        /\ UNCHANGED lock
  /\ UNCHANGED <<backend, disk, life, running, removed, faults>>

Insert(t) ==
  /\ At(t, "insert")
  /\ db' = Inserted(db, call[t].job)
  /\ call' = [call EXCEPT ![t].step = "commit"]
  /\ UNCHANGED <<backend, disk, lock, claim, life, running, acked, removed, faults>>

Fetch(t, j) ==
  LET c == [job |-> j, n |-> db.row[j].attempts + 1] IN
  /\ Idle(t) /\ claim[t] = NoClaim /\ running /\ lock = NoTask
  /\ db.row[j].state = "queued" /\ c.n <= MaxAttempts[j]
  /\ \/ /\ backend = "sqlite"
        /\ GoTo(t, [NoCall EXCEPT !.step = "update", !.then = c])
        /\ lock' = t
     \/ /\ backend = "memory"
        /\ Write(t, Taken(db, j), c)
        /\ UNCHANGED lock
  /\ UNCHANGED <<backend, disk, life, running, acked, removed, faults>>

Update(t) ==
  /\ At(t, "update")
  /\ Write(t, Taken(db, call[t].then.job), call[t].then)
  /\ UNCHANGED <<backend, disk, lock, life, running, acked, removed, faults>>

-----------------------------------------------------------------------------
(* Outcomes.                                                               *)

Working(t) == Idle(t) /\ claim[t].n > 0

\* One guarded statement, which makes the row one of S.  A claim that is lost changes
\* nothing, and is committed too.
Settle(t, S) ==
  LET j == claim[t].job IN
  /\ Working(t)
  /\ \/ /\ StillClaimed(db, claim[t])
        /\ \E r \in S : /\ Write(t, [db EXCEPT !.row[j] = r], NoClaim)
                        /\ removed' = IF r = NoRow THEN removed \cup {j} ELSE removed
     \/ /\ ~StillClaimed(db, claim[t])
        /\ Write(t, db, NoClaim)
        /\ UNCHANGED removed
  /\ UNCHANGED <<backend, disk, lock, life, running, acked, faults>>

MarkDone(t) == Settle(t, Finished(db.row[claim[t].job]))
MarkFailed(t) == Settle(t, Retried(db.row[claim[t].job], claim[t].n))
Reschedule(t) == Settle(t, Snoozed(db.row[claim[t].job], claim[t].n))

\* mark_job_dead_letter: select under the guard, then copy and delete by id.  In SQLite
\* nothing keeps other coroutines out meanwhile.
DeadLetter(t) ==
  LET j == claim[t].job IN
  /\ Working(t)
  /\ IF ~StillClaimed(db, claim[t])
     THEN /\ claim' = [claim EXCEPT ![t] = NoClaim]
          /\ UNCHANGED <<db, call>>
     ELSE \/ backend = "sqlite" /\ GoTo(t, [NoCall EXCEPT !.step = "copy"])
          \/ backend = "memory" /\ Write(t, Dropped(Copied(db, j), j), NoClaim)
  /\ UNCHANGED <<backend, disk, lock, life, running, acked, removed, faults>>

\* The primary key refuses a second copy: the call raises and leaves the transaction open.
Copy(t) ==
  LET j == claim[t].job IN
  /\ At(t, "copy")
  /\ \/ /\ j \notin db.dead
        /\ db' = Copied(db, j)
        /\ call' = [call EXCEPT ![t].step = "drop"]
        /\ UNCHANGED claim
     \/ /\ j \in db.dead
        /\ call' = [call EXCEPT ![t] = NoCall]
        /\ claim' = [claim EXCEPT ![t] = NoClaim]
        /\ UNCHANGED db
  /\ UNCHANGED <<backend, disk, lock, life, running, acked, removed, faults>>

Drop(t) ==
  /\ At(t, "drop")
  /\ Write(t, Dropped(db, claim[t].job), NoClaim)
  /\ UNCHANGED <<backend, disk, lock, life, running, acked, removed, faults>>

\* The worker that stops hands back what a slot was running.
Nack(t) ==
  /\ Idle(t) /\ claim[t] # NoClaim
  /\ Write(t, Nacked(db, claim[t].job), NoClaim)
  /\ UNCHANGED <<backend, disk, lock, life, running, acked, removed, faults>>

-----------------------------------------------------------------------------
(* Operators and maintenance.                                              *)

Cancel(t, j) ==
  /\ Idle(t)
  /\ Write(t, Cancelled(db, j), claim[t])
  /\ UNCHANGED <<backend, disk, lock, life, running, acked, removed, faults>>

Delete(t, j) ==
  /\ Idle(t) /\ db.row[j] # NoRow
  /\ Write(t, Dropped(db, j), claim[t])
  /\ removed' = removed \cup {j}
  /\ UNCHANGED <<backend, disk, lock, life, running, acked, faults>>

\* delete_expired_jobs.
Expire(t, S) ==
  /\ Idle(t) /\ S # {} /\ \A j \in S : db.row[j].state = "done"
  /\ Write(t, [db EXCEPT !.row = [j \in Jobs |-> IF j \in S THEN NoRow ELSE @[j]]], claim[t])
  /\ removed' = removed \cup S
  /\ UNCHANGED <<backend, disk, lock, life, running, acked, faults>>

\* cleanup_stale_workers.  The heartbeat of a dead worker may be old, and that of the one
\* that runs, when its event loop has stalled.
Sweep(t) ==
  /\ Idle(t)
  /\ \E S \in SUBSET {l \in Lives : db.worker[l] = "active"} :
       /\ S # {}
       /\ IF running /\ life \in S THEN faults < MaxFaults /\ faults' = faults + 1
                                  ELSE UNCHANGED faults
       /\ \/ /\ backend = "sqlite"
             /\ GoTo(t, [NoCall EXCEPT !.step = "stop", !.then = claim[t], !.stale = S])
          \/ /\ backend = "memory"
             /\ Write(t, Requeued(Stopped(db, S), S), claim[t])
  /\ UNCHANGED <<backend, disk, lock, life, running, acked, removed>>

StopStale(t) ==
  /\ At(t, "stop")
  /\ db' = Stopped(db, call[t].stale)
  /\ call' = [call EXCEPT ![t].step = "requeue"]
  /\ UNCHANGED <<backend, disk, lock, claim, life, running, acked, removed, faults>>

RequeueStale(t) ==
  /\ At(t, "requeue")
  /\ Write(t, Requeued(db, call[t].stale), call[t].then)
  /\ UNCHANGED <<backend, disk, lock, life, running, acked, removed, faults>>

-----------------------------------------------------------------------------
(* The worker's life.                                                      *)

\* register_worker.
Start(t) ==
  /\ ~running /\ life < MaxLives /\ Idle(t)
  /\ life' = life + 1 /\ running' = TRUE
  /\ Write(t, [db EXCEPT !.worker[life + 1] = "active"], claim[t])
  /\ UNCHANGED <<backend, disk, lock, acked, removed, faults>>

\* mark_worker_stopped, once no slot holds a job.
Stop(t) ==
  /\ running /\ \A u \in Tasks : claim[u] = NoClaim /\ call[u].then = NoClaim
  /\ Idle(t)
  /\ running' = FALSE
  /\ Write(t, Stopped(db, {life}), NoClaim)
  /\ UNCHANGED <<backend, disk, lock, life, acked, removed, faults>>

\* A statement raises, or the coroutine is cancelled while it waits for one, whose effect
\* may still take place.  The slot forgets its claim, or keeps the job's id for the nack of
\* the stopping worker.
Abort(t) ==
  /\ backend = "sqlite" /\ ~Idle(t) /\ faults < MaxFaults
  /\ faults' = faults + 1
  /\ call' = [call EXCEPT ![t] = NoCall]
  /\ \E c \in {[claim[t] EXCEPT !.n = 0], NoClaim} : claim' = [claim EXCEPT ![t] = c]
  /\ disk' \in {disk, IF call[t].step = "commit" THEN db ELSE disk}
  /\ Unlock(t)
  /\ UNCHANGED <<backend, db, life, running, acked, removed>>

\* The process dies: what was not committed is gone, and so are the coroutines.
Crash ==
  /\ backend = "sqlite" /\ life < MaxLives
  /\ db' = disk
  /\ lock' = NoTask
  /\ call' = [t \in Tasks |-> NoCall]
  /\ claim' = [t \in Tasks |-> NoClaim]
  /\ running' = FALSE
  /\ UNCHANGED <<backend, disk, life, acked, removed, faults>>

TaskStep(t) ==
  \/ Commit(t) \/ Insert(t) \/ Update(t) \/ MarkDone(t) \/ MarkFailed(t)
  \/ Reschedule(t) \/ DeadLetter(t) \/ Copy(t) \/ Drop(t) \/ Nack(t) \/ Sweep(t) \/ StopStale(t) \/ RequeueStale(t) \/ Start(t)
  \/ Stop(t) \/ Abort(t)
  \/ \E S \in SUBSET Jobs : Expire(t, S)
  \/ \E j \in Jobs : Create(t, j) \/ Fetch(t, j) \/ Cancel(t, j) \/ Delete(t, j)

Next == Crash \/ \E t \in Tasks : TaskStep(t)

Spec == Init /\ [][Next]_vars

-----------------------------------------------------------------------------
(* Properties.                                                             *)

\* A job that create_job has accepted is in one of the two tables until somebody removes
\* it: no interleaving of statements, no commit in the middle of another's move, no call
\* that ends half way and no crash loses it (mark_job_dead_letter).
NoJobLost ==
  \A j \in acked \ removed : db.row[j] # NoRow \/ j \in db.dead

\* At most one coroutine holds a claim that still matches its row, so at most one of them
\* can record the outcome of a job (_CLAIM_GUARD).
OneHolder ==
  \A t, u \in Tasks :
    t # u /\ claim[t] # NoClaim /\ claim[t].job = claim[u].job =>
      ~(StillClaimed(db, claim[t]) /\ StillClaimed(db, claim[u]))

\* Two jobs with one key that nobody has claimed yet are never queued together
\* (create_job, whose check and insert are two statements under _write_lock).
Untouched(j) == db.row[j] = [NoRow EXCEPT !.state = "queued"]
OneUntouchedPerKey ==
  \A j, k \in Jobs : j # k /\ KeyOf[j] = KeyOf[k] => ~(Untouched(j) /\ Untouched(k))

=============================================================================
