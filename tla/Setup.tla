------------------------------- MODULE Setup --------------------------------
(***************************************************************************)
(* How processes open the database and bring its schema up to date: the    *)
(* life of a Soniq object (soniq/app.py), its connection pool              *)
(* (PostgresBackend.initialize and close) and the migration runner         *)
(* (soniq/backends/postgres/migration_runner.py).  Several coroutines of a *)
(* process may be the first to use it, another may close it, and several   *)
(* processes, of different releases, may set up one database at a time.    *)
(*                                                                         *)
(* Abstractions.  A migration file is its version; what it does to the     *)
(* schema is "run", and running it twice is an error.  The pool always has *)
(* a connection to lend; WorkerHost looks at its size.                     *)
(***************************************************************************)
EXTENDS Integers, FiniteSets

CONSTANTS
  Procs,      \* processes, each with one Soniq object
  Calls,      \* coroutines that call it
  HostOf,     \* the process of each of them
  FilesOf,    \* versions of the files that the release of a process ships, plugins included
  Closers,    \* those that may close it: one in each process
  NoOne,      \* a lock that is free
  MaxFaults   \* bound: failures and crashes

ASSUME SetupAssumption ==
  /\ HostOf \in [Calls -> Procs]
  /\ FilesOf \in [Procs -> SUBSET Nat]
  /\ Closers \subseteq Calls
  /\ \A c, d \in Closers : HostOf[c] = HostOf[d] => c = d
  /\ NoOne \notin Calls
  /\ MaxFaults \in Nat

\* A release ships every core file below one of its own that another release has.
ASSUME ReleasesGrow ==
  \A p, q \in Procs : \A u \in FilesOf[p], v \in FilesOf[q] :
    u < v /\ v < 10 => u \in FilesOf[q]

VARIABLES
  app,       \* the Soniq object of each process: initialized, closed, pool
  initLock,  \* holder of PostgresBackend._init_lock in each process
  pools,     \* open connection pools of each process
  call,      \* what each coroutine is doing
  migLock,   \* holder of the advisory lock "soniq.migrations"
  schema,    \* versions whose SQL has been committed, and how often
  applied,   \* soniq_migrations: versions recorded
  told,      \* versions that the last call of a coroutine has reported as applied
  faults     \* failures and crashes so far

vars == <<app, initLock, pools, call, migLock, schema, applied, told, faults>>

-----------------------------------------------------------------------------
Versions == UNION {FilesOf[p] : p \in Procs}
Ops == {"use", "setup", "status", "close"}
Phases == {"idle", "opening", "creating", "waiting", "reading", "running", "recording",
           "ensuring", "reporting", "hooks", "draining"}
Apps == [initialized : BOOLEAN, closed : BOOLEAN, pool : {"none", "open", "closing"}]
CallTypes == [phase : Phases, op : Ops, pending : SUBSET Versions]
Fresh == [initialized |-> FALSE, closed |-> FALSE, pool |-> "none"]
Idle == [phase |-> "idle", op |-> "use", pending |-> {}]

TypeOK ==
  /\ app \in [Procs -> Apps]
  /\ initLock \in [Procs -> Calls \cup {NoOne}]
  /\ pools \in [Procs -> Nat]
  /\ call \in [Calls -> CallTypes]
  /\ migLock \in Calls \cup {NoOne}
  /\ schema \in [Versions -> Nat]
  /\ applied \subseteq Versions
  /\ told \in [Calls -> SUBSET Versions]
  /\ faults \in 0 .. MaxFaults

Init ==
  /\ app = [p \in Procs |-> Fresh]
  /\ initLock = [p \in Procs |-> NoOne]
  /\ pools = [p \in Procs |-> 0]
  /\ call = [c \in Calls |-> Idle]
  /\ migLock = NoOne
  /\ schema = [v \in Versions |-> 0]
  /\ applied = {}
  /\ told = [c \in Calls |-> {}]
  /\ faults = 0

appVars == <<app, initLock, pools>>
dbVars == <<migLock, schema, applied>>

\* Fault: versions by number, whether or not there is a file.
SelectedByRange(p) == 1 .. 9

\* version_filter="000": the files 0001 to 0009; plugin versions begin with their prefix.
Selected(p) == {v \in FilesOf[p] : v < 10}

\* A call holds a pool connection from the wait for the lock on.
Holds(c) == call[c].phase \in {"waiting", "reading", "running", "recording", "ensuring",
                               "reporting"}

GoTo(c, phase) == call' = [call EXCEPT ![c].phase = phase]
End(c) == call' = [call EXCEPT ![c] = Idle]

-----------------------------------------------------------------------------
(* _ensure_initialized and PostgresBackend.initialize.                     *)

\* Once initialized, a use of the object is over for this model, and a setup or status
\* borrows a connection, which a pool that is closing refuses.
Proceed(c, op, pool) ==
  call' = [call EXCEPT ![c] =
    IF op = "use" \/ pool # "open" THEN Idle
    ELSE [phase |-> "waiting", op |-> op, pending |-> {}]]

Begin(c, op) ==
  LET p == HostOf[c] IN
  /\ call[c] = Idle
  /\ op # "close"
  /\ \/ app[p].initialized /\ Proceed(c, op, app[p].pool)
     \/ /\ ~app[p].initialized /\ ~app[p].closed
        /\ call' = [call EXCEPT ![c] = [Idle EXCEPT !.phase = "opening", !.op = op]]
  /\ told' = [told EXCEPT ![c] = {}]
  /\ UNCHANGED <<appVars, dbVars, faults>>

\* Faults: no lock; files in any order; SQL outside the transaction; an error that is only
\* logged; no unlock.
OpenUnlocked(c) ==
  /\ call[c].phase = "opening"
  /\ GoTo(c, "creating")
  /\ UNCHANGED <<appVars, dbVars, told, faults>>

NextFileUnsorted(c) == CHOOSE v \in call[c].pending : \A u \in call[c].pending : v >= u

CommittedApart(c) == schema' = [schema EXCEPT ![NextFileUnsorted(c)] = @ + 1] /\ UNCHANGED applied

FailQuietly(c) ==
  /\ Holds(c) /\ faults < MaxFaults
  /\ faults' = faults + 1
  /\ migLock' = IF migLock = c THEN NoOne ELSE migLock
  /\ told' = [told EXCEPT ![c] = Selected(HostOf[c])]
  /\ End(c)
  /\ UNCHANGED <<appVars, schema, applied>>

EnsureLocked(c) ==
  /\ call[c].phase = "ensuring"
  /\ GoTo(c, "reporting")
  /\ UNCHANGED <<appVars, dbVars, told, faults>>

\* initialize: without a pool, and with the lock, create one.
Open(c) ==
  LET p == HostOf[c] IN
  /\ call[c].phase = "opening"
  /\ \/ /\ app[p].pool # "none"
        /\ app' = [app EXCEPT ![p].initialized = TRUE]
        /\ Proceed(c, call[c].op, app[p].pool)
        /\ UNCHANGED initLock
     \/ /\ app[p].pool = "none" /\ initLock[p] = NoOne
        /\ initLock' = [initLock EXCEPT ![p] = c]
        /\ GoTo(c, "creating")
        /\ UNCHANGED app
  /\ UNCHANGED <<pools, dbVars, told, faults>>

\* create_pool returns; the lock is released and the object marked initialized without an
\* await in between, whether or not somebody has closed it meanwhile.
Created(c) ==
  LET p == HostOf[c] IN
  /\ call[c].phase = "creating"
  /\ pools' = [pools EXCEPT ![p] = @ + 1]
  /\ app' = [app EXCEPT ![p].initialized = TRUE, ![p].pool = "open"]
  /\ initLock' = [initLock EXCEPT ![p] = NoOne]
  /\ Proceed(c, call[c].op, "open")
  /\ UNCHANGED <<dbVars, told, faults>>

\* create_pool raises, and so does the call.
CreateFails(c) ==
  /\ call[c].phase = "creating" /\ faults < MaxFaults
  /\ faults' = faults + 1
  /\ initLock' = [initLock EXCEPT ![HostOf[c]] = NoOne]
  /\ End(c)
  /\ UNCHANGED <<app, pools, dbVars, told>>

-----------------------------------------------------------------------------
(* _run_migrations_with_connection.                                        *)

\* pg_advisory_lock blocks until the lock is free.
Lock(c) ==
  /\ call[c].phase = "waiting" /\ migLock = NoOne
  /\ migLock' = c
  /\ GoTo(c, IF call[c].op = "setup" THEN "reading" ELSE "ensuring")
  /\ UNCHANGED <<appVars, schema, applied, told, faults>>

\* The applied versions are read again under the lock.
Read(c) ==
  /\ call[c].phase = "reading"
  /\ call' = [call EXCEPT ![c].phase = "running",
                          ![c].pending = Selected(HostOf[c]) \ applied]
  /\ UNCHANGED <<appVars, dbVars, told, faults>>

NextFile(c) == CHOOSE v \in call[c].pending : \A u \in call[c].pending : v <= u

\* apply_migration: the SQL of the next file runs in a transaction ...
RunFile(c) ==
  /\ call[c].phase = "running" /\ call[c].pending # {}
  /\ GoTo(c, "recording")
  /\ UNCHANGED <<appVars, dbVars, told, faults>>

\* ... in which the version is recorded, and both are committed.
Committed(c) ==
  /\ schema' = [schema EXCEPT ![NextFile(c)] = @ + 1]
  /\ applied' = applied \cup {NextFile(c)}

Record(c) ==
  /\ call[c].phase = "recording" /\ NextFile(c) \notin applied
  /\ Committed(c)
  /\ call' = [call EXCEPT ![c].phase = "running", ![c].pending = @ \ {NextFile(c)}]
  /\ UNCHANGED <<appVars, migLock, told, faults>>

\* All files are applied: unlock, give the connection back, return.
Finish(c) ==
  /\ call[c].phase = "running" /\ call[c].pending = {}
  /\ migLock' = NoOne
  /\ told' = [told EXCEPT ![c] = Selected(HostOf[c])]
  /\ End(c)
  /\ UNCHANGED <<appVars, schema, applied, faults>>

\* A statement fails or the connection drops: the transaction is rolled back, unless its
\* COMMIT got through, the session's lock is freed, and the call raises.
Fail(c) ==
  /\ Holds(c) /\ faults < MaxFaults
  /\ faults' = faults + 1
  /\ \/ UNCHANGED <<schema, applied>>
     \/ call[c].phase = "recording" /\ NextFile(c) \notin applied /\ Committed(c)
  /\ migLock' = IF migLock = c THEN NoOne ELSE migLock
  /\ End(c)
  /\ UNCHANGED <<appVars, told>>

-----------------------------------------------------------------------------
(* _get_migration_status_with_connection.                                  *)

\* The table is created under the lock, which is given back ...
Ensure(c) ==
  /\ call[c].phase = "ensuring"
  /\ migLock' = NoOne
  /\ GoTo(c, "reporting")
  /\ UNCHANGED <<appVars, schema, applied, told, faults>>

\* ... before the versions are read.
Report(c) ==
  /\ call[c].phase = "reporting"
  /\ told' = [told EXCEPT ![c] = applied \cap Selected(HostOf[c])]
  /\ End(c)
  /\ UNCHANGED <<appVars, dbVars, faults>>

-----------------------------------------------------------------------------
(* close.                                                                  *)

\* Plugin hooks run first.
Close(c) ==
  /\ c \in Closers /\ call[c] = Idle /\ ~app[HostOf[c]].closed
  /\ call' = [call EXCEPT ![c] = [Idle EXCEPT !.phase = "hooks", !.op = "close"]]
  /\ UNCHANGED <<appVars, dbVars, told, faults>>

Closed(p, pool) ==
  app' = [app EXCEPT ![p] = [initialized |-> FALSE, closed |-> TRUE, pool |-> pool]]

\* backend.close(): without a pool there is nothing to wait for.
CloseBackend(c) ==
  LET p == HostOf[c] IN
  /\ call[c].phase = "hooks"
  /\ \/ /\ app[p].pool = "none"
        /\ Closed(p, "none")
        /\ End(c)
     \/ /\ app[p].pool # "none"
        /\ app' = [app EXCEPT ![p].pool = "closing"]
        /\ GoTo(c, "draining")
  /\ UNCHANGED <<initLock, pools, dbVars, told, faults>>

\* Pool.close() returns when all connections have come back.
Drained(c) ==
  LET p == HostOf[c] IN
  /\ call[c].phase = "draining"
  /\ \A d \in Calls : HostOf[d] = p => ~Holds(d)
  /\ pools' = [pools EXCEPT ![p] = @ - 1]
  /\ Closed(p, "none")
  /\ End(c)
  /\ UNCHANGED <<initLock, dbVars, told, faults>>

\* It raises when one of them does not close, and terminates them all.  The error is only
\* logged, and the object keeps a pool that lends no more.
DrainFails(c) ==
  LET p == HostOf[c] IN
  /\ call[c].phase = "draining" /\ faults < MaxFaults
  /\ \A d \in Calls : HostOf[d] = p => ~Holds(d)
  /\ faults' = faults + 1
  /\ Closed(p, "closing")
  /\ End(c)
  /\ UNCHANGED <<initLock, pools, dbVars, told>>

\* The process dies and starts anew.
Crash(p) ==
  /\ faults < MaxFaults
  /\ faults' = faults + 1
  /\ app' = [app EXCEPT ![p] = Fresh]
  /\ initLock' = [initLock EXCEPT ![p] = NoOne]
  /\ pools' = [pools EXCEPT ![p] = 0]
  /\ call' = [c \in Calls |-> IF HostOf[c] = p THEN Idle ELSE call[c]]
  /\ told' = [c \in Calls |-> IF HostOf[c] = p THEN {} ELSE told[c]]
  /\ migLock' = IF migLock # NoOne /\ HostOf[migLock] = p THEN NoOne ELSE migLock
  /\ UNCHANGED <<schema, applied>>

-----------------------------------------------------------------------------
CallStep(c) ==
  \/ Open(c) \/ Created(c) \/ Lock(c) \/ Read(c) \/ RunFile(c) \/ Record(c) \/ Finish(c)
  \/ Ensure(c) \/ Report(c) \/ CloseBackend(c) \/ Drained(c)

Next ==
  \/ \E c \in Calls :
       \/ CallStep(c) \/ CreateFails(c) \/ Fail(c) \/ DrainFails(c) \/ Close(c)
       \/ \E op \in Ops : Begin(c, op)
  \/ \E p \in Procs : Crash(p)

\* Statements are answered, and PostgreSQL and asyncio serve those who wait for a lock.
Fairness == \A c \in Calls : SF_vars(CallStep(c))

Spec == Init /\ [][Next]_vars /\ Fairness

-----------------------------------------------------------------------------
(* Properties.                                                             *)

\* The SQL of a file takes effect once, together with its record, and after that of every
\* lower version of its range, whatever runs at the same time, fails or dies, also when an
\* old and a new release set up the database together (_run_migrations_with_connection,
\* apply_migration).
FilesRunOnceInOrder ==
  /\ \A v \in Versions : schema[v] = IF v \in applied THEN 1 ELSE 0
  /\ \A u \in Versions, v \in applied : u < v /\ v < 10 => u \in applied

\* A setup that has returned, and a status report, tell the truth for good.
ReportsHold == \A c \in Calls : told[c] \subseteq applied

\* A process opens one pool however many coroutines use it first, and the object knows it
\* (initialize), also when creation or closing fails, or one of them closes it meanwhile.
OnePool == \A p \in Procs : pools[p] = IF app[p].pool = "none" THEN 0 ELSE 1

\* Every setup, status and close comes to its end.
EveryCallEnds == \A c \in Calls : call[c] # Idle ~> call[c] = Idle

=============================================================================
