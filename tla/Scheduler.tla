----------------------------- MODULE Scheduler -----------------------------
(***************************************************************************)
(* Recurring schedules: soniq/features/scheduler.py on PostgreSQL.         *)
(*                                                                         *)
(* Several processes share one row of soniq_recurring_jobs, and each has a *)
(* cache entry that it reads from the table once and changes by its own    *)
(* calls only.  A process may run the tick loop and one call of the public *)
(* API at the same time: both are coroutines of one event loop that        *)
(* interleave where they await the database.  One instance of the module   *)
(* is one schedule name; rows of other names only make a tick longer.      *)
(*                                                                         *)
(* Abstractions.  A definition is a schedule with its args, queue and      *)
(* priority.  Processes read one clock.  The enqueue inside the claim's    *)
(* transaction is the count of jobs.  Rows inserted by hand with a NULL    *)
(* next_run, and the in-process store of other backends, are left out.     *)
(***************************************************************************)
EXTENDS Integers, FiniteSets

CONSTANTS
  Procs,       \* processes that use app.scheduler
  NoProc,      \* nobody holds the advisory lock
  Defs,        \* definitions a schedule can have, see SchedulerAssumption
  NoSched,     \* no row, no cache entry
  Decorated,   \* the definition that @periodic stamps on the function
  Importers,   \* processes that have imported the decorated function
  Adders, Pausers, Removers,  \* processes that make these calls
  CanStop, CanCrash,          \* processes that call stop(), or die
  Horizon,     \* bound: the last instant
  MaxFaults    \* bound: failed transactions and dropped lock connections

\* A _Schedule: a row of the table, or an object in a cache.
Scheds == [def : Defs, status : {"active", "paused"}, next : Nat, count : Nat]

ASSUME SchedulerAssumption ==
  /\ NoSched \notin Scheds \cup Defs
  /\ NoProc \notin Procs
  /\ Horizon \in Nat
  /\ Decorated \in Defs
  /\ \A d \in Defs :
       \/ /\ d.type = "interval"
          /\ d.every \in Nat \ {0}
       \/ /\ d.type = "cron"
          /\ d.times \subseteq Nat
          /\ \A t \in 0 .. Horizon : \E s \in d.times :
               s > t /\ \A u \in d.times : u > t => s <= u

VARIABLES
  now,       \* the clock
  row,       \* the row of soniq_recurring_jobs, or NoSched
  loaded,    \* Scheduler._loaded
  cache,     \* the entry of Scheduler._cache, or NoSched
  op,        \* the call of the public API that is under way
  loop,      \* Scheduler._running
  tick,      \* the _tick that is under way
  leader,    \* holder of the advisory lock "soniq.scheduler"
  faults,    \* faults so far
  enqueued,  \* history: jobs enqueued by ticks
  served     \* history: run times enqueued, less those that an add overlapped (Upsert)

history == <<enqueued, served>>
vars == <<now, row, loaded, cache, op, loop, tick, leader, faults, history>>

-----------------------------------------------------------------------------
NoOp == [do |-> "none", step |-> "none", at |-> 0, def |-> NoSched, sched |-> NoSched]
NoTick == [step |-> "none", at |-> 0, own |-> FALSE, obj |-> NoSched,
           expected |-> 0, next |-> 0, count |-> 0]

Ops == [do : {"none", "add", "start", "pause", "resume", "remove"},
        step : {"none", "called", "composed", "written"},
        at : 0 .. Horizon, def : Defs \cup {NoSched},
        sched : Scheds \cup {NoSched}]

Ticks == [step : {"none", "scan", "claim", "fired"}, at : 0 .. Horizon, own : BOOLEAN,
          obj : Scheds \cup {NoSched}, expected : Nat, next : Nat, count : Nat]

\* What an entry, a call or a tick that is under way has set: a loaded cache, the new entry
\* of an add, the object of a tick.
Shape ==
  \A p \in Procs :
    /\ cache[p] # NoSched => loaded[p]
    /\ op[p].step \in {"composed", "written"} => loaded[p]
    /\ op[p].step = "composed" => op[p].do \in {"add", "start"}
    /\ op[p].do \in {"add", "start"} =>
         IF op[p].step = "called" THEN op[p].def # NoSched ELSE op[p].sched # NoSched
    /\ tick[p].step # "none" /\ tick[p].own => cache[p] # NoSched
    /\ tick[p].step = "scan" /\ ~tick[p].own => tick[p].obj # NoSched

\* Types of the variables.
TypeOK ==
  /\ now \in 0 .. Horizon
  /\ row \in Scheds \cup {NoSched}
  /\ loaded \in [Procs -> BOOLEAN]
  /\ cache \in [Procs -> Scheds \cup {NoSched}]
  /\ op \in [Procs -> Ops]
  /\ loop \in [Procs -> {"off", "on"}]
  /\ tick \in [Procs -> Ticks]
  /\ leader \in Procs \cup {NoProc}
  /\ faults \in Nat
  /\ enqueued \in Nat
  /\ served \in SUBSET Nat
  /\ Shape

Init ==
  /\ now = 0
  /\ row = NoSched
  /\ loaded = [p \in Procs |-> FALSE]
  /\ cache = [p \in Procs |-> NoSched]
  /\ op = [p \in Procs |-> NoOp]
  /\ loop = [p \in Procs |-> "off"]
  /\ tick = [p \in Procs |-> NoTick]
  /\ leader = NoProc
  /\ faults = 0
  /\ enqueued = 0
  /\ served = {}

-----------------------------------------------------------------------------
\* The first run after t: t plus the interval, or the next time of the cron expression.
NextRun(d, t) ==
  IF d.type = "interval" THEN t + d.every
  ELSE CHOOSE s \in d.times : s > t /\ \A u \in d.times : u > t => s <= u

Pass ==
  /\ now < Horizon
  /\ now' = now + 1
  /\ UNCHANGED <<row, loaded, cache, op, loop, tick, leader, faults, history>>

\* The first await of every operation: read the table, then publish the cache.
EnsureLoaded(p) ==
  /\ ~loaded[p]
  /\ op[p].do # "none"
  /\ loaded' = [loaded EXCEPT ![p] = TRUE]
  /\ cache' = [cache EXCEPT ![p] = row]
  /\ UNCHANGED <<now, row, op, loop, tick, leader, faults, history>>

-----------------------------------------------------------------------------
(* add(): capture the time, compose the new entry from the cached one,     *)
(* upsert the row, replace the cached entry.                               *)

Call(p, do, t, d) ==
  /\ op[p].do = "none"
  /\ op' = [op EXCEPT ![p] = [NoOp EXCEPT !.do = do, !.step = "called",
                                          !.at = t, !.def = d]]
  /\ UNCHANGED <<now, row, loaded, cache, loop, tick, leader, faults, history>>

Add(p, d) == p \in Adders /\ Call(p, "add", now, d)

\* start() adds the decorated definition before it starts the loop.
Start(p) == loop[p] = "off" /\ Call(p, "start", now, Decorated)

Compose(p) ==
  /\ op[p].step = "called"
  /\ op[p].do = "start" => p \in Importers
  /\ op[p].do \in {"add", "start"}
  /\ loaded[p]
  /\ op' = [op EXCEPT ![p] = [NoOp EXCEPT !.do = op[p].do, !.step = "composed",
                                       !.at = op[p].at, !.sched =
       [def |-> op[p].def,
        status |-> IF cache[p] = NoSched THEN "active" ELSE cache[p].status,
        next |-> NextRun(op[p].def, op[p].at),
        count |-> IF cache[p] = NoSched THEN 0 ELSE cache[p].count]]]
  /\ UNCHANGED <<now, row, loaded, cache, loop, tick, leader, faults, history>>

\* DELETE and INSERT in one transaction; the advisory lock makes upserts sequential.  A run
\* that was enqueued after the call took its time may be written back and enqueued again.
Upsert(p) ==
  /\ op[p].step = "composed"
  /\ row' = op[p].sched
  /\ served' = {s \in served : s <= op[p].at}
  /\ op' = [op EXCEPT ![p].step = "written"]
  /\ UNCHANGED <<now, loaded, cache, loop, tick, leader, faults, enqueued>>

\* A tick that is under way keeps the object that leaves the cache.
Detach(p) ==
  tick' = IF tick[p].step # "none" /\ tick[p].own
          THEN [tick EXCEPT ![p].own = FALSE, ![p].obj = cache[p]]
          ELSE tick

Publish(p) ==
  /\ op[p].step = "written"
  /\ op[p].do \in {"add", "start"}
  /\ cache' = [cache EXCEPT ![p] = op[p].sched]
  /\ Detach(p)
  /\ loop' = IF op[p].do = "start" THEN [loop EXCEPT ![p] = "on"] ELSE loop
  /\ op' = [op EXCEPT ![p] = NoOp]
  /\ UNCHANGED <<now, row, loaded, leader, faults, history>>

\* start() in a process without decorated functions only loads the cache.
StartBare(p) ==
  /\ op[p].do = "start"
  /\ op[p].step = "called"
  /\ p \notin Importers
  /\ loaded[p]
  /\ loop' = [loop EXCEPT ![p] = "on"]
  /\ op' = [op EXCEPT ![p] = NoOp]
  /\ UNCHANGED <<now, row, loaded, cache, tick, leader, faults, history>>

-----------------------------------------------------------------------------
(* pause(), resume() and remove(): write the row, then the cached entry.   *)

StatusOf == [pause |-> "paused", resume |-> "active"]

\* One of the three is called.
Request(p) ==
  \/ p \in Pausers /\ \E do \in {"pause", "resume"} : Call(p, do, 0, NoSched)
  \/ p \in Removers /\ Call(p, "remove", 0, NoSched)

SetStatus(p) ==
  /\ op[p].step = "called"
  /\ op[p].do \in {"pause", "resume"}
  /\ loaded[p]
  /\ row # NoSched
  /\ row' = [row EXCEPT !.status = StatusOf[op[p].do]]
  /\ op' = [op EXCEPT ![p].step = "written"]
  /\ UNCHANGED <<now, loaded, cache, loop, tick, leader, faults, history>>

Delete(p) ==
  /\ op[p].step = "called"
  /\ op[p].do = "remove"
  /\ loaded[p]
  /\ row # NoSched
  /\ row' = NoSched
  /\ op' = [op EXCEPT ![p].step = "written"]
  /\ UNCHANGED <<now, loaded, cache, loop, tick, leader, faults, history>>

\* No row has the name: the call returns False.
NotFound(p) ==
  /\ op[p].step = "called"
  /\ op[p].do \in {"pause", "resume", "remove"}
  /\ loaded[p]
  /\ row = NoSched
  /\ op' = [op EXCEPT ![p] = NoOp]
  /\ UNCHANGED <<now, row, loaded, cache, loop, tick, leader, faults, history>>

\* Fault: the cached entry keeps its status.
ForgetStatus(p) ==
  /\ op[p].step = "written"
  /\ op[p].do \in {"pause", "resume"}
  /\ op' = [op EXCEPT ![p] = NoOp]
  /\ UNCHANGED <<now, row, loaded, cache, loop, tick, leader, faults, history>>

CacheStatus(p) ==
  /\ op[p].step = "written"
  /\ op[p].do \in {"pause", "resume"}
  /\ cache' = IF cache[p] = NoSched THEN cache
              ELSE [cache EXCEPT ![p].status = StatusOf[op[p].do]]
  /\ op' = [op EXCEPT ![p] = NoOp]
  /\ UNCHANGED <<now, row, loaded, loop, tick, leader, faults, history>>

PopCache(p) ==
  /\ op[p].step = "written"
  /\ op[p].do = "remove"
  /\ cache' = [cache EXCEPT ![p] = NoSched]
  /\ Detach(p)
  /\ op' = [op EXCEPT ![p] = NoOp]
  /\ UNCHANGED <<now, row, loaded, loop, leader, faults, history>>

-----------------------------------------------------------------------------
(* The tick loop.                                                          *)

\* The object that the tick of p works on: the cached entry or one that left the cache.
Entry(p) == IF tick[p].own THEN cache[p] ELSE tick[p].obj

DueAt(s, t) == s.status = "active" /\ s.next <= t

\* The tick ends and with it the advisory lock, unless its connection dropped before.
EndTick(p) ==
  /\ tick' = [tick EXCEPT ![p] = NoTick]
  /\ leader' = IF leader = p THEN NoProc ELSE leader

\* Win the advisory lock, read the clock, and list the cached schedules.
BeginTick(p) ==
  /\ loop[p] = "on"
  /\ tick[p].step = "none"
  /\ leader = NoProc
  /\ cache[p] # NoSched
  /\ leader' = p
  /\ tick' = [tick EXCEPT ![p] = [NoTick EXCEPT !.step = "scan", !.at = now,
                                                !.own = TRUE]]
  /\ UNCHANGED <<now, row, loaded, cache, op, loop, faults, history>>

PassOver(p) ==
  /\ tick[p].step = "scan"
  /\ ~DueAt(Entry(p), tick[p].at)
  /\ EndTick(p)
  /\ UNCHANGED <<now, row, loaded, cache, op, loop, faults, history>>

\* Fault: the next run is counted from the one that is due.
ConsiderFromDue(p) ==
  /\ tick[p].step = "scan"
  /\ DueAt(Entry(p), tick[p].at)
  /\ tick' = [tick EXCEPT ![p].step = "claim",
                          ![p].expected = Entry(p).next,
                          ![p].next = NextRun(Entry(p).def, Entry(p).next),
                          ![p].count = Entry(p).count + 1]
  /\ UNCHANGED <<now, row, loaded, cache, op, loop, leader, faults, history>>

\* Fault: the run is counted in the entry before the claim has been won.
ConsiderCounting(p) ==
  /\ tick[p].step = "scan"
  /\ DueAt(Entry(p), tick[p].at)
  /\ tick' = [tick EXCEPT ![p].step = "claim",
                          ![p].expected = Entry(p).next,
                          ![p].next = NextRun(Entry(p).def, tick[p].at),
                          ![p].count = Entry(p).count + 1]
  /\ cache' = IF tick[p].own THEN [cache EXCEPT ![p].count = @ + 1] ELSE cache
  /\ UNCHANGED <<now, row, loaded, op, loop, leader, faults, history>>

\* The entry is due: everything that the claim writes is taken from it now.
Consider(p) ==
  /\ tick[p].step = "scan"
  /\ DueAt(Entry(p), tick[p].at)
  /\ tick' = [tick EXCEPT ![p].step = "claim",
                          ![p].expected = Entry(p).next,
                          ![p].next = NextRun(Entry(p).def, tick[p].at),
                          ![p].count = Entry(p).count + 1]
  /\ UNCHANGED <<now, row, loaded, cache, op, loop, leader, faults, history>>

\* The row is still at the run time that the tick has seen.
AsExpected(p) == row # NoSched /\ row.next = tick[p].expected

\* Advance the row, enqueue the job and count it.
Dispatch(p) ==
  /\ row' = [row EXCEPT !.next = tick[p].next, !.count = tick[p].count]
  /\ enqueued' = enqueued + 1
  /\ served' = served \cup {tick[p].expected}
  /\ tick' = [tick EXCEPT ![p] = [NoTick EXCEPT !.step = "fired", !.own = tick[p].own,
                                   !.next = tick[p].next, !.count = tick[p].count]]
  /\ UNCHANGED <<now, loaded, cache, op, loop, leader, faults>>

\* Fault: the claim does not compare next_run.
FireAnyway(p) ==
  /\ tick[p].step = "claim"
  /\ row # NoSched
  /\ Dispatch(p)

\* The claim's transaction commits: next_run was as expected.
Fire(p) ==
  /\ tick[p].step = "claim"
  /\ AsExpected(p)
  /\ Dispatch(p)

\* After the commit, the object gets what the row got.
Settle(p) ==
  /\ tick[p].step = "fired"
  /\ cache' = IF tick[p].own
              THEN [cache EXCEPT ![p].next = tick[p].next, ![p].count = tick[p].count]
              ELSE cache
  /\ EndTick(p)
  /\ UNCHANGED <<now, row, loaded, op, loop, faults, history>>

\* Fault: the loser does not test that there is a row.
LoseClaimUnchecked(p) ==
  /\ tick[p].step = "claim"
  /\ ~AsExpected(p)
  /\ cache' = IF tick[p].own
              THEN [cache EXCEPT ![p].next = IF row = NoSched THEN row ELSE row.next]
              ELSE cache
  /\ EndTick(p)
  /\ UNCHANGED <<now, row, loaded, op, loop, faults, history>>

\* Fault: the loser keeps its next_run.
LoseClaimUnsynced(p) ==
  /\ tick[p].step = "claim"
  /\ ~AsExpected(p)
  /\ EndTick(p)
  /\ UNCHANGED <<now, row, loaded, cache, op, loop, faults, history>>

\* The compare-and-swap fails: take next_run, and only that, from the row.
LoseClaim(p) ==
  /\ tick[p].step = "claim"
  /\ ~AsExpected(p)
  /\ cache' = IF tick[p].own /\ row # NoSched
              THEN [cache EXCEPT ![p].next = row.next] ELSE cache
  /\ EndTick(p)
  /\ UNCHANGED <<now, row, loaded, op, loop, faults, history>>

\* The enqueue or a statement raises: the transaction rolls back, the tick logs it.
RollBack(p) ==
  /\ tick[p].step = "claim"
  /\ faults < MaxFaults
  /\ faults' = faults + 1
  /\ EndTick(p)
  /\ UNCHANGED <<now, row, loaded, cache, op, loop, history>>

\* The connection that holds the advisory lock drops; the tick goes on.
LoseLock(p) ==
  /\ leader = p
  /\ faults < MaxFaults
  /\ faults' = faults + 1
  /\ leader' = NoProc
  /\ UNCHANGED <<now, row, loaded, cache, op, loop, tick, history>>

\* stop() cancels the loop wherever it waits; the cache stays.
Stop(p) ==
  /\ p \in CanStop
  /\ loop[p] = "on"
  /\ loop' = [loop EXCEPT ![p] = "off"]
  /\ EndTick(p)
  /\ UNCHANGED <<now, row, loaded, cache, op, faults, history>>

\* The process dies; a new one in its place begins with an empty cache.
Crash(p) ==
  /\ p \in CanCrash
  /\ loop[p] = "on" \/ op[p] # NoOp \/ loaded[p]
  /\ loaded' = [loaded EXCEPT ![p] = FALSE]
  /\ cache' = [cache EXCEPT ![p] = NoSched]
  /\ op' = [op EXCEPT ![p] = NoOp]
  /\ loop' = [loop EXCEPT ![p] = "off"]
  /\ EndTick(p)
  /\ UNCHANGED <<now, row, faults, history>>

-----------------------------------------------------------------------------
ApiStep(p) ==
  \/ EnsureLoaded(p) \/ Compose(p) \/ Upsert(p) \/ Publish(p) \/ StartBare(p)
  \/ SetStatus(p) \/ Delete(p) \/ NotFound(p) \/ CacheStatus(p) \/ PopCache(p)

TickStep(p) ==
  \/ PassOver(p) \/ Consider(p) \/ Fire(p) \/ Settle(p) \/ LoseClaim(p)

Next ==
  \/ Pass
  \/ \E p \in Procs :
       \/ \E d \in Defs : Add(p, d)
       \/ Start(p) \/ Request(p) \/ ApiStep(p)
       \/ BeginTick(p) \/ TickStep(p) \/ RollBack(p)
       \/ LoseLock(p) \/ Stop(p) \/ Crash(p)

Spec == Init /\ [][Next]_vars

\* Processes that neither stop nor die.
Reliable == Procs \ (CanStop \cup CanCrash)

\* Time passes and coroutines go on.  The loop tries the lock once in each check interval, so
\* a tick is enabled again and again.  A reliable process starts its loop, whatever other
\* calls it makes.
Fairness ==
  /\ WF_vars(Pass)
  /\ \A p \in Procs : WF_vars(ApiStep(p)) /\ WF_vars(TickStep(p)) /\ SF_vars(BeginTick(p))
  /\ \A p \in Reliable : SF_vars(Start(p))

FairSpec == Spec /\ Fairness

-----------------------------------------------------------------------------
(* Properties.                                                             *)

\* Every job that a tick enqueues is for a run time that none was enqueued for before,
\* unless an add that had taken its time before that run wrote the row after it: neither two
\* ticks that meet, of one process or of two after the lock's connection dropped, nor any
\* other add, pause or remove bring a run time back (_execute_due, add).
OneRunPerSlot == [][enqueued' > enqueued => served' # served]_vars

\* A tick claims a run that is due and moves next_run past the time of the tick, so runs
\* that were missed collapse into one; an add writes a next_run past the time it took;
\* next_run of the row is past all that has been served and no add has brought back.
SlotsAdvance ==
  /\ \A p \in Procs : tick[p].step = "claim" =>
       tick[p].expected <= tick[p].at /\ tick[p].at < tick[p].next
  /\ \A p \in Procs : op[p].step = "composed" => op[p].at < op[p].sched.next
  /\ row # NoSched => \A s \in served : s < row.next

\* run_count may fall behind but never counts a run that did not happen, in the row, in a
\* cache, or in what a tick or an add is about to write.
CountsAreRuns ==
  /\ row # NoSched => row.count <= enqueued
  /\ \A p \in Procs :
       /\ cache[p] # NoSched => cache[p].count <= enqueued
       /\ op[p].sched # NoSched => op[p].sched.count <= enqueued
       /\ tick[p].obj # NoSched => tick[p].obj.count <= enqueued
       /\ tick[p].step = "claim" => tick[p].count <= enqueued + 1
       /\ tick[p].step = "fired" => tick[p].count <= enqueued

\* A process that has no call under way has the row in its cache: same definition and
\* status, and it never waits past the row's next_run.
InSync(p) ==
  loaded[p] /\ op[p] = NoOp =>
    \/ row = NoSched /\ cache[p] = NoSched
    \/ /\ row # NoSched /\ cache[p] # NoSched
       /\ cache[p].def = row.def
       /\ cache[p].status = row.status
       /\ cache[p].next <= row.next

\* The process has not used the scheduler: every call begins by loading the cache.
Absent(p) == ~loaded[p] /\ op[p] = NoOp /\ loop[p] = "off"

\* A process that is the only one to have used the schedule agrees with the row between its
\* calls, whatever its ticks, cancelled and failed ones included, and its restarts did in
\* between (pause, remove, _execute_due).  A process that may die can be absent again.
SoleProcessInSync ==
  \A p \in Procs :
    (\A q \in Procs \ {p} : q \notin CanCrash /\ Absent(q)) => InSync(p)

DueRun(s) == row # NoSched /\ row.next = s /\ DueAt(row, now)

\* The clock of the run ends before a reliable process looks at the row again.
OutOfTime == \E p \in Reliable : cache[p] # NoSched /\ cache[p].next > Horizon

\* While a process that imports the decorated function keeps running, a run of an active
\* schedule does not stay due: it is enqueued or the schedule is changed.
DueRunsLeave == \A s \in 0 .. Horizon : DueRun(s) ~> ~DueRun(s) \/ OutOfTime

=============================================================================
