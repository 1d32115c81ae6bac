---------------------------- MODULE Setup_proofs ----------------------------
(***************************************************************************)
(* Theorems about Setup, for every set of processes, coroutines and        *)
(* releases that grow.  The invariant has three parts.  Under the advisory *)
(* lock, what a runner has pending is what its release ships and nobody    *)
(* has applied (Migrating); that is what makes each file run once and in   *)
(* order.  Under the init lock there is no pool yet, and a pool is closing *)
(* only for the one closer of its process (Opening).  Types come last:     *)
(* that a count of pools stays a natural number rests on Opening.          *)
(***************************************************************************)
EXTENDS Setup, WellFoundedInduction, TLAPS

Locked == {"reading", "running", "recording", "ensuring"}

\* What a runner has pending is what is missing, and only one may run at a time.
Migrating ==
  /\ \A c \in Calls : call[c].phase \in Locked => migLock = c
  /\ \A c \in Calls : call[c].phase \in {"running", "recording"} =>
       call[c].pending = Selected(HostOf[c]) \ applied
  /\ \A c \in Calls : call[c].phase = "recording" => call[c].pending # {}
  /\ \A v \in applied : v < 10

\* A pool is created while there is none, and closed by the one closer of its process.
Opening ==
  /\ \A c \in Calls : call[c].phase = "creating" =>
       initLock[HostOf[c]] = c /\ app[HostOf[c]].pool = "none"
  /\ \A c \in Calls : call[c].phase \in {"hooks", "draining"} => c \in Closers
  /\ \A c \in Calls : call[c].phase = "draining" => app[HostOf[c]].pool = "closing"

Inv == TypeOK /\ Migrating /\ FilesRunOnceInOrder /\ ReportsHold /\ Opening /\ OnePool

\* Constants and the idle call.
LEMMA Constants ==
  /\ HostOf \in [Calls -> Procs] /\ NoOne \notin Calls
  /\ \A p \in Procs : Selected(p) \subseteq Versions /\ Selected(p) \subseteq 0 .. 9
  /\ Versions \subseteq Nat
  /\ Idle \in CallTypes /\ Idle.phase = "idle" /\ Fresh \in Apps /\ Fresh.pool = "none"
<1>1. HostOf \in [Calls -> Procs] /\ NoOne \notin Calls
  BY SetupAssumption DEF SetupAssumption
<1>2. FilesOf \in [Procs -> SUBSET Nat]
  BY SetupAssumption DEF SetupAssumption
<1>3. Versions \subseteq Nat
  BY <1>2 DEF Versions
<1>4. ASSUME NEW p \in Procs PROVE Selected(p) \subseteq Versions /\ Selected(p) \subseteq 0 .. 9
  <2>1. FilesOf[p] \subseteq Versions
    BY DEF Versions
  <2>2. ASSUME NEW v \in Selected(p) PROVE v \in Versions /\ v \in 0 .. 9
    <3>1. v \in FilesOf[p] /\ v < 10
      BY DEF Selected
    <3>2. v \in Nat /\ v \in Versions
      BY <1>3, <2>1, <3>1
    <3> QED BY <3>1, <3>2
  <2> QED BY <2>2
<1>5. Idle \in CallTypes /\ Idle.phase = "idle" /\ Fresh \in Apps /\ Fresh.pool = "none"
  BY DEF Idle, CallTypes, Phases, Ops, Fresh, Apps
<1> QED BY <1>1, <1>3, <1>4, <1>5

\* A set of versions that is not empty has a lowest one.
LEMMA LowestVersion ==
  ASSUME NEW S \in SUBSET Nat, S # {}
  PROVE  \E v \in S : \A u \in S : v <= u
<1>1. \E v \in S : \A u \in S : <<u, v>> \notin OpToRel(<, Nat)
  BY NatLessThanWellFounded, WFMin
<1>2. PICK v \in S : \A u \in S : <<u, v>> \notin OpToRel(<, Nat)
  BY <1>1
<1>3. \A u \in S : ~(u < v)
  BY <1>2 DEF OpToRel
<1> QED BY <1>3

\* NextFile is the lowest version that is pending.
LEMMA NextFileIsLowest ==
  ASSUME NEW c \in Calls, TypeOK, Migrating, call[c].phase = "recording"
  PROVE  /\ NextFile(c) \in Selected(HostOf[c]) \ applied
         /\ \A u \in Selected(HostOf[c]) \ applied : NextFile(c) <= u
<1> DEFINE S == call[c].pending
<1>1. S = Selected(HostOf[c]) \ applied /\ S # {}
  BY DEF Migrating
<1>2. S \subseteq Nat
  BY <1>1, Constants
<1> HIDE DEF S
<1>3. \E v \in S : \A u \in S : v <= u
  BY <1>1, <1>2, LowestVersion
<1>4. (CHOOSE v \in S : \A u \in S : v <= u) \in S
  BY <1>3
<1>5. \A u \in S : (CHOOSE v \in S : \A w \in S : v <= w) <= u
  BY <1>3
<1>6. NextFile(c) = CHOOSE v \in S : \A u \in S : v <= u
  BY DEF NextFile, S
<1> QED BY <1>1, <1>4, <1>5, <1>6

\* Committing the file of the lock's holder keeps order and count, and what others are told.
LEMMA CommitKeepsSchema ==
  ASSUME NEW c \in Calls, TypeOK, Migrating, FilesRunOnceInOrder,
         call[c].phase = "recording", Committed(c)
  PROVE  /\ FilesRunOnceInOrder'
         /\ schema' \in [Versions -> Nat]
         /\ applied' = applied \cup {NextFile(c)}
         /\ NextFile(c) \in Versions /\ NextFile(c) < 10
<1> DEFINE n == NextFile(c)
<1>1. n \in Selected(HostOf[c]) \ applied /\ \A u \in Selected(HostOf[c]) \ applied : n <= u
  BY NextFileIsLowest
<1>2. n \in Versions /\ n \in 0 .. 9 /\ n \in Nat
  BY <1>1, Constants
<1>3. applied' = applied \cup {n} /\ schema' = [schema EXCEPT ![n] = @ + 1]
  BY DEF Committed
<1> HIDE DEF n
<1>4. \A v \in Versions : schema'[v] = IF v \in applied' THEN 1 ELSE 0
  BY <1>1, <1>2, <1>3 DEF FilesRunOnceInOrder, TypeOK
<1>5. ASSUME NEW u \in Versions, u < n PROVE u \in applied
  <2>1. PICK p \in Procs : u \in FilesOf[p]
    BY DEF Versions
  <2>2. n \in FilesOf[HostOf[c]] /\ HostOf[c] \in Procs
    BY <1>1, Constants DEF Selected
  <2>3. u \in FilesOf[HostOf[c]] /\ u \in Nat
    BY <1>2, <1>5, <2>1, <2>2, ReleasesGrow, Constants DEF ReleasesGrow
  <2>4. u \in Selected(HostOf[c])
    BY <1>2, <1>5, <2>3 DEF Selected
  <2> QED BY <1>1, <1>2, <1>5, <2>3, <2>4
<1>6. \A u \in Versions, v \in applied' : u < v /\ v < 10 => u \in applied'
  BY <1>3, <1>5 DEF FilesRunOnceInOrder
<1>7. schema' \in [Versions -> Nat]
  BY <1>3, <1>2 DEF TypeOK
<1> QED BY <1>2, <1>3, <1>4, <1>6, <1>7 DEF FilesRunOnceInOrder, n

-----------------------------------------------------------------------------
(* The initial state.                                                      *)

LEMMA InitInv == Init => Inv
<1> SUFFICES ASSUME Init PROVE Inv
  OBVIOUS
<1>1. TypeOK
  BY Constants, SetupAssumption DEF Init, TypeOK, SetupAssumption
<1>2. Migrating /\ FilesRunOnceInOrder /\ ReportsHold
  BY Constants DEF Init, Migrating, Locked, FilesRunOnceInOrder, ReportsHold
<1>3. Opening /\ OnePool
  BY Constants DEF Init, Opening, OnePool
<1> QED BY <1>1, <1>2, <1>3 DEF Inv

-----------------------------------------------------------------------------
(* The migration runner.                                                   *)

SchemaInv == Migrating /\ FilesRunOnceInOrder /\ ReportsHold

\* Steps of a call that leave lock and tables alone and do not enter the locked part.
LEMMA OutsideKeepsSchema ==
  ASSUME TypeOK, SchemaInv, UNCHANGED dbVars, NEW c \in Calls,
         call'[c].phase \notin Locked,
         \A d \in Calls \ {c} : call'[d] = call[d],
         \A d \in Calls : told'[d] \subseteq applied
  PROVE  SchemaInv'
BY DEF SchemaInv, Migrating, Locked, FilesRunOnceInOrder, ReportsHold, dbVars

\* Every step keeps what holds of the lock and the tables.
LEMMA StepKeepsSchema ==
  ASSUME TypeOK, SchemaInv, [Next]_vars
  PROVE  SchemaInv'
<1> USE DEF Locked
<1>1. ASSUME NEW c \in Calls, NEW op \in Ops, Begin(c, op) PROVE SchemaInv'
  <2>1. call'[c].phase \notin Locked /\ \A d \in Calls \ {c} : call'[d] = call[d]
    <3> DEFINE opening == [Idle EXCEPT !.phase = "opening", !.op = op]
               waiting == [phase |-> "waiting", op |-> op, pending |-> {}]
    <3>1. opening.phase = "opening" /\ waiting.phase = "waiting" /\ Idle.phase = "idle"
      BY DEF Idle
    <3>2. \/ call' = [call EXCEPT ![c] = Idle]
          \/ call' = [call EXCEPT ![c] = waiting]
          \/ call' = [call EXCEPT ![c] = opening]
      BY <1>1 DEF Begin, Proceed
    <3>3. call \in [Calls -> CallTypes]
      BY DEF TypeOK
    <3> HIDE DEF opening, waiting
    <3> QED BY <3>1, <3>2, <3>3
  <2>2. \A d \in Calls : told'[d] \subseteq applied
    BY <1>1 DEF Begin, TypeOK, SchemaInv, ReportsHold
  <2> QED BY <1>1, <2>1, <2>2, OutsideKeepsSchema DEF Begin
<1>2. ASSUME NEW c \in Calls, Open(c) PROVE SchemaInv'
  <2>1. call'[c].phase \notin Locked /\ \A d \in Calls \ {c} : call'[d] = call[d]
    <3>1. \/ call' = [call EXCEPT ![c] = Idle]
          \/ \E o : call' = [call EXCEPT ![c] = [phase |-> "waiting", op |-> o, pending |-> {}]]
          \/ call' = [call EXCEPT ![c] = [call[c] EXCEPT !.phase = "creating"]]
      BY <1>2 DEF Open, Proceed, GoTo
    <3>2. call \in [Calls -> CallTypes]
      BY DEF TypeOK
    <3> QED BY <3>1, <3>2 DEF Idle, CallTypes
  <2> QED BY <1>2, <2>1, OutsideKeepsSchema DEF Open, SchemaInv, ReportsHold
<1>3. ASSUME NEW c \in Calls, Created(c) PROVE SchemaInv'
  <2>1. call'[c].phase \notin Locked /\ \A d \in Calls \ {c} : call'[d] = call[d]
    <3>1. \/ call' = [call EXCEPT ![c] = Idle]
          \/ \E o : call' = [call EXCEPT ![c] = [phase |-> "waiting", op |-> o, pending |-> {}]]
      BY <1>3 DEF Created, Proceed
    <3>2. call \in [Calls -> CallTypes]
      BY DEF TypeOK
    <3> QED BY <3>1, <3>2 DEF Idle, CallTypes
  <2> QED BY <1>3, <2>1, OutsideKeepsSchema DEF Created, SchemaInv, ReportsHold
<1>4. ASSUME NEW c \in Calls,
             CreateFails(c) \/ Close(c) \/ CloseBackend(c) \/ Drained(c) \/ DrainFails(c)
      PROVE SchemaInv'
  <2>1. call'[c].phase \notin Locked /\ \A d \in Calls \ {c} : call'[d] = call[d]
    <3>1. /\ [Idle EXCEPT !.phase = "hooks", !.op = "close"].phase = "hooks"
          /\ Idle.phase = "idle"
      BY DEF Idle
    <3>2. call \in [Calls -> CallTypes]
      BY DEF TypeOK
    <3>3. \/ call' = [call EXCEPT ![c] = Idle]
          \/ call' = [call EXCEPT ![c] = [Idle EXCEPT !.phase = "hooks", !.op = "close"]]
          \/ call' = [call EXCEPT ![c] = [call[c] EXCEPT !.phase = "draining"]]
      BY <1>4 DEF CreateFails, Close, CloseBackend, Drained, DrainFails, End, GoTo
    <3> QED BY <3>1, <3>2, <3>3 DEF CallTypes
  <2>2. UNCHANGED <<dbVars, told>>
    BY <1>4 DEF CreateFails, Close, CloseBackend, Drained, DrainFails
  <2> QED BY <2>1, <2>2, OutsideKeepsSchema DEF SchemaInv, ReportsHold
<1>5. ASSUME NEW c \in Calls, Lock(c) PROVE SchemaInv'
  BY <1>5, Constants DEF Lock, GoTo, TypeOK, SchemaInv, Migrating, FilesRunOnceInOrder, ReportsHold
<1>6. ASSUME NEW c \in Calls, Read(c) PROVE SchemaInv'
  BY <1>6, Constants DEF Read, TypeOK, dbVars, SchemaInv, Migrating, FilesRunOnceInOrder,
       ReportsHold
<1>7. ASSUME NEW c \in Calls, RunFile(c) PROVE SchemaInv'
  BY <1>7, Constants DEF RunFile, GoTo, TypeOK, dbVars, SchemaInv, Migrating,
       FilesRunOnceInOrder, ReportsHold
<1>8. ASSUME NEW c \in Calls, Record(c) PROVE SchemaInv'
  <2>1. call[c].phase = "recording" /\ Committed(c) /\ migLock = c
    BY <1>8 DEF Record, SchemaInv, Migrating
  <2>2. /\ FilesRunOnceInOrder' /\ applied' = applied \cup {NextFile(c)}
        /\ NextFile(c) < 10
    BY <2>1, CommitKeepsSchema DEF SchemaInv
  <2>3. ReportsHold'
    BY <1>8, <2>2 DEF Record, SchemaInv, ReportsHold
  <2>4. /\ call'[c].phase = "running"
        /\ call'[c].pending = call[c].pending \ {NextFile(c)}
        /\ \A d \in Calls \ {c} : call'[d] = call[d]
    BY <1>8 DEF Record, TypeOK, CallTypes
  <2>5. \A d \in Calls \ {c} : call[d].phase \notin Locked
    BY <2>1 DEF SchemaInv, Migrating
  <2>6. Migrating'
    BY ZenonT(60), <1>8, <2>1, <2>2, <2>4, <2>5 DEF Record, SchemaInv, Migrating
  <2> QED BY <2>2, <2>3, <2>6 DEF SchemaInv
<1>9. ASSUME NEW c \in Calls, Finish(c) PROVE SchemaInv'
  <2>1. Selected(HostOf[c]) \subseteq applied /\ migLock = c
    BY <1>9 DEF Finish, SchemaInv, Migrating
  <2>2. ReportsHold'
    BY <1>9, <2>1 DEF Finish, SchemaInv, ReportsHold, TypeOK
  <2>3. Migrating' /\ FilesRunOnceInOrder'
    BY <1>9, <2>1, Constants DEF Finish, End, SchemaInv, Migrating, FilesRunOnceInOrder, TypeOK
  <2> QED BY <2>2, <2>3 DEF SchemaInv
<1>10. ASSUME NEW c \in Calls, Fail(c) PROVE SchemaInv'
  <2>1. /\ call'[c].phase = "idle" /\ told' = told
        /\ \A d \in Calls \ {c} : call'[d] = call[d]
    BY <1>10, Constants DEF Fail, End, TypeOK
  <2>2. \A d \in Calls \ {c} : call[d].phase \in Locked => migLock = d /\ migLock' = d
    BY <1>10 DEF Fail, SchemaInv, Migrating
  <2>3. CASE UNCHANGED <<schema, applied>>
    BY <2>1, <2>2, <2>3 DEF SchemaInv, Migrating, FilesRunOnceInOrder, ReportsHold
  <2>4. CASE call[c].phase = "recording" /\ Committed(c)
    <3>1. /\ FilesRunOnceInOrder' /\ applied' = applied \cup {NextFile(c)}
          /\ NextFile(c) < 10
      BY <2>4, CommitKeepsSchema DEF SchemaInv
    <3>2. \A d \in Calls \ {c} : call[d].phase \notin Locked
      BY <2>4 DEF SchemaInv, Migrating
    <3>3. Migrating' /\ ReportsHold'
      BY <2>1, <3>1, <3>2 DEF SchemaInv, Migrating, ReportsHold
    <3> QED BY <3>1, <3>3 DEF SchemaInv
  <2> QED BY <1>10, <2>3, <2>4 DEF Fail
<1>11. ASSUME NEW c \in Calls, Ensure(c) PROVE SchemaInv'
  <2>1. migLock = c
    BY <1>11 DEF Ensure, SchemaInv, Migrating
  <2> QED BY <1>11, <2>1 DEF Ensure, GoTo, TypeOK, CallTypes, SchemaInv, Migrating,
            FilesRunOnceInOrder, ReportsHold
<1>12. ASSUME NEW c \in Calls, Report(c) PROVE SchemaInv'
  <2>1. call'[c].phase \notin Locked /\ \A d \in Calls \ {c} : call'[d] = call[d]
    BY <1>12, Constants DEF Report, End, TypeOK
  <2>2. \A d \in Calls : told'[d] \subseteq applied
    BY <1>12 DEF Report, TypeOK, SchemaInv, ReportsHold
  <2> QED BY <1>12, <2>1, <2>2, OutsideKeepsSchema DEF Report
<1>13. ASSUME NEW p \in Procs, Crash(p) PROVE SchemaInv'
  BY <1>13, Constants DEF Crash, SchemaInv, Migrating, FilesRunOnceInOrder, ReportsHold
<1>14. CASE UNCHANGED vars
  BY <1>14 DEF vars, SchemaInv, Migrating, FilesRunOnceInOrder, ReportsHold
<1> QED
  BY <1>1, <1>2, <1>3, <1>4, <1>5, <1>6, <1>7, <1>8, <1>9, <1>10, <1>11, <1>12, <1>13, <1>14
  DEF Next, CallStep

-----------------------------------------------------------------------------
(* The pool.                                                               *)

PoolInv == Opening /\ OnePool

\* Steps of a call that leave the object and its pool alone.
LEMMA ElsewhereKeepsPool ==
  ASSUME TypeOK, PoolInv, UNCHANGED appVars,
         \A c \in Calls :
           \/ call'[c].phase \notin {"creating", "hooks", "draining"}
           \/ call'[c].phase = call[c].phase
           \/ call'[c].phase = "hooks" /\ c \in Closers
  PROVE  PoolInv'
BY DEF PoolInv, Opening, OnePool, appVars

\* No pool is open while somebody creates one, and the closer of a process is one call.
LEMMA StepKeepsPool ==
  ASSUME TypeOK, PoolInv, [Next]_vars
  PROVE  PoolInv'
<1>0. call \in [Calls -> CallTypes] /\ HostOf \in [Calls -> Procs]
  BY Constants DEF TypeOK
<1>1. ASSUME NEW c \in Calls, NEW op \in Ops, Begin(c, op) PROVE PoolInv'
  <2> DEFINE opening == [Idle EXCEPT !.phase = "opening", !.op = op]
             waiting == [phase |-> "waiting", op |-> op, pending |-> {}]
  <2>1. opening.phase = "opening" /\ waiting.phase = "waiting" /\ Idle.phase = "idle"
    BY DEF Idle
  <2>2. \/ call' = [call EXCEPT ![c] = Idle]
        \/ call' = [call EXCEPT ![c] = waiting]
        \/ call' = [call EXCEPT ![c] = opening]
    BY <1>1 DEF Begin, Proceed
  <2> HIDE DEF opening, waiting
  <2>3. \A d \in Calls : \/ call'[d].phase \notin {"creating", "hooks", "draining"}
                         \/ call'[d].phase = call[d].phase
    BY <1>0, <2>1, <2>2
  <2> QED BY <1>1, <2>3, ElsewhereKeepsPool DEF Begin
<1>2. ASSUME NEW c \in Calls, Open(c) PROVE PoolInv'
  <2> DEFINE p == HostOf[c]
             waiting == [phase |-> "waiting", op |-> call[c].op, pending |-> {}]
  <2>1. waiting.phase = "waiting" /\ Idle.phase = "idle" /\ p \in Procs
    BY <1>0 DEF Idle
  <2> HIDE DEF waiting
  <2>2. CASE /\ app[p].pool # "none"
             /\ app' = [app EXCEPT ![p].initialized = TRUE]
             /\ Proceed(c, call[c].op, app[p].pool)
             /\ UNCHANGED initLock
    <3>1. call' = [call EXCEPT ![c] = Idle] \/ call' = [call EXCEPT ![c] = waiting]
      BY <2>2 DEF Proceed, waiting
    <3>2. UNCHANGED pools /\ \A q \in Procs : app'[q].pool = app[q].pool
      BY <1>2, <2>2 DEF Open, TypeOK, Apps
    <3> QED BY <1>0, <2>1, <2>2, <3>1, <3>2 DEF PoolInv, Opening, OnePool
  <2>3. CASE /\ app[p].pool = "none" /\ initLock[p] = NoOne
             /\ initLock' = [initLock EXCEPT ![p] = c]
             /\ GoTo(c, "creating")
             /\ UNCHANGED app
    <3>1. \A d \in Calls : call[d].phase = "creating" => HostOf[d] # p
      BY <2>3, Constants DEF PoolInv, Opening
    <3>2. initLock'[p] = c /\ \A q \in Procs \ {p} : initLock'[q] = initLock[q]
      BY <2>1, <2>3 DEF TypeOK
    <3>3. call'[c].phase = "creating" /\ \A d \in Calls \ {c} : call'[d] = call[d]
      BY <1>0, <2>3 DEF GoTo, CallTypes
    <3>4. Opening'
      BY <1>0, <2>3, <3>1, <3>2, <3>3 DEF PoolInv, Opening
    <3> QED BY <1>2, <2>3, <3>4 DEF Open, PoolInv, OnePool
  <2> QED BY <1>2, <2>2, <2>3 DEF Open
<1>3. ASSUME NEW c \in Calls, Created(c) PROVE PoolInv'
  <2> DEFINE p == HostOf[c]
             waiting == [phase |-> "waiting", op |-> call[c].op, pending |-> {}]
  <2>1. waiting.phase = "waiting" /\ Idle.phase = "idle" /\ p \in Procs
    BY <1>0 DEF Idle
  <2>2. call' = [call EXCEPT ![c] = Idle] \/ call' = [call EXCEPT ![c] = waiting]
    BY <1>3 DEF Created, Proceed
  <2> HIDE DEF waiting
  <2>3. initLock[p] = c /\ app[p].pool = "none" /\ pools[p] = 0
    BY <1>3, <2>1 DEF Created, PoolInv, Opening, OnePool
  <2>4. /\ app'[p].pool = "open" /\ pools'[p] = 1
        /\ \A q \in Procs \ {p} :
             app'[q] = app[q] /\ pools'[q] = pools[q] /\ initLock'[q] = initLock[q]
    BY <1>3, <2>1, <2>3 DEF Created, TypeOK, Apps
  <2>5. \A d \in Calls \ {c} :
          /\ call'[d] = call[d]
          /\ call[d].phase \in {"creating", "draining"} => HostOf[d] # p
    BY <1>0, <2>2, <2>3 DEF PoolInv, Opening
  <2>6. call'[c].phase \in {"idle", "waiting"}
    BY <1>0, <2>1, <2>2
  <2>7. Opening'
    BY <1>0, <2>4, <2>5, <2>6 DEF PoolInv, Opening
  <2>8. OnePool'
    BY <2>4 DEF PoolInv, OnePool
  <2> QED BY <2>7, <2>8 DEF PoolInv
<1>4. ASSUME NEW c \in Calls, CreateFails(c) PROVE PoolInv'
  <2> DEFINE p == HostOf[c]
  <2>1. initLock[p] = c /\ p \in Procs
    BY <1>0, <1>4 DEF CreateFails, PoolInv, Opening
  <2>2. call'[c].phase = "idle" /\ \A d \in Calls \ {c} : call'[d] = call[d]
    BY <1>0, <1>4, Constants DEF CreateFails, End
  <2>3. \A q \in Procs \ {p} : initLock'[q] = initLock[q]
    BY <1>4, <2>1 DEF CreateFails, TypeOK
  <2>4. \A d \in Calls \ {c} : call[d].phase = "creating" => HostOf[d] # p
    BY <2>1 DEF PoolInv, Opening
  <2> QED BY <1>0, <1>4, <2>2, <2>3, <2>4 DEF CreateFails, PoolInv, Opening, OnePool
<1>5. ASSUME NEW c \in Calls,
             \/ Lock(c) \/ Read(c) \/ RunFile(c) \/ Record(c)
             \/ Finish(c) \/ Fail(c) \/ Ensure(c) \/ Report(c)
      PROVE PoolInv'
  <2>1. UNCHANGED appVars
    BY <1>5 DEF Lock, Read, RunFile, Record, Finish, Fail, Ensure, Report
  <2>2. \/ call' = [call EXCEPT ![c] = Idle]
        \/ \E phase \in {"reading", "ensuring", "recording", "reporting"} :
             call' = [call EXCEPT ![c].phase = phase]
        \/ \E pending : call' = [call EXCEPT ![c].phase = "running", ![c].pending = pending]
    BY <1>5 DEF Lock, Read, RunFile, Record, Finish, Fail, Ensure, Report, GoTo, End
  <2>3. /\ call'[c].phase \notin {"creating", "hooks", "draining"}
        /\ \A d \in Calls \ {c} : call'[d] = call[d]
    BY <1>0, <2>2, Constants DEF CallTypes
  <2> QED BY <2>1, <2>3, ElsewhereKeepsPool
<1>6. ASSUME NEW c \in Calls, Close(c) PROVE PoolInv'
  <2>1. [Idle EXCEPT !.phase = "hooks", !.op = "close"].phase = "hooks"
    BY DEF Idle
  <2>2. /\ call'[c].phase = "hooks" /\ c \in Closers
        /\ \A d \in Calls \ {c} : call'[d] = call[d]
    BY <1>0, <1>6, <2>1 DEF Close
  <2> QED BY <1>6, <2>2, ElsewhereKeepsPool DEF Close
<1>7. ASSUME NEW c \in Calls, CloseBackend(c) PROVE PoolInv'
  <2> DEFINE p == HostOf[c]
  <2>1. p \in Procs /\ c \in Closers
    BY <1>0, <1>7 DEF CloseBackend, PoolInv, Opening
  <2>2. CASE app[p].pool = "none" /\ Closed(p, "none") /\ End(c)
    <3>1. \A q \in Procs : app'[q].pool = app[q].pool
      BY <2>1, <2>2 DEF Closed, TypeOK
    <3>2. call'[c].phase = "idle" /\ \A d \in Calls \ {c} : call'[d] = call[d]
      BY <1>0, <2>2, Constants DEF End
    <3> QED BY <1>0, <1>7, <3>1, <3>2 DEF CloseBackend, PoolInv, Opening, OnePool
  <2>3. CASE /\ app[p].pool # "none"
             /\ app' = [app EXCEPT ![p].pool = "closing"]
             /\ GoTo(c, "draining")
    <3>1. /\ app'[p].pool = "closing"
          /\ \A q \in Procs \ {p} : app'[q].pool = app[q].pool
      BY <2>1, <2>3 DEF TypeOK, Apps
    <3>2. call'[c].phase = "draining" /\ \A d \in Calls \ {c} : call'[d] = call[d]
      BY <1>0, <2>3 DEF GoTo, CallTypes
    <3> QED BY <1>0, <1>7, <2>1, <2>3, <3>1, <3>2 DEF CloseBackend, PoolInv, Opening, OnePool
  <2> QED BY <1>7, <2>2, <2>3 DEF CloseBackend
<1>8. ASSUME NEW c \in Calls, Drained(c) PROVE PoolInv'
  <2> DEFINE p == HostOf[c]
  <2>1. p \in Procs /\ c \in Closers /\ app[p].pool = "closing" /\ pools[p] = 1
    BY <1>0, <1>8 DEF Drained, PoolInv, Opening, OnePool
  <2>2. /\ app'[p].pool = "none" /\ pools'[p] = 0
        /\ \A q \in Procs \ {p} : app'[q] = app[q] /\ pools'[q] = pools[q]
    BY <1>8, <2>1 DEF Drained, Closed, TypeOK
  <2>3. \A d \in Calls \ {c} : call[d].phase = "draining" => HostOf[d] # p
    BY <2>1, SetupAssumption DEF SetupAssumption, PoolInv, Opening
  <2>4. call'[c].phase = "idle" /\ \A d \in Calls \ {c} : call'[d] = call[d]
    BY <1>0, <1>8, Constants DEF Drained, End
  <2> QED BY <1>0, <1>8, <2>2, <2>3, <2>4 DEF Drained, PoolInv, Opening, OnePool
<1>9. ASSUME NEW c \in Calls, DrainFails(c) PROVE PoolInv'
  <2> DEFINE p == HostOf[c]
  <2>1. p \in Procs /\ c \in Closers /\ app[p].pool = "closing"
    BY <1>0, <1>9 DEF DrainFails, PoolInv, Opening, OnePool
  <2>2. \A q \in Procs : app'[q].pool = app[q].pool
    BY <1>9, <2>1 DEF DrainFails, Closed, TypeOK
  <2>3. call'[c].phase = "idle" /\ \A d \in Calls \ {c} : call'[d] = call[d]
    BY <1>0, <1>9, Constants DEF DrainFails, End
  <2> QED BY <1>0, <1>9, <2>2, <2>3 DEF DrainFails, PoolInv, Opening, OnePool
<1>10. ASSUME NEW p \in Procs, Crash(p) PROVE PoolInv'
  <2>1. /\ app'[p].pool = "none" /\ pools'[p] = 0
        /\ \A q \in Procs \ {p} :
             app'[q] = app[q] /\ pools'[q] = pools[q] /\ initLock'[q] = initLock[q]
    BY <1>10, Constants DEF Crash, TypeOK
  <2>2. \A d \in Calls : IF HostOf[d] = p THEN call'[d].phase = "idle" ELSE call'[d] = call[d]
    BY <1>10, Constants DEF Crash
  <2> QED BY <1>0, <2>1, <2>2 DEF PoolInv, Opening, OnePool
<1>11. CASE UNCHANGED vars
  BY <1>11 DEF vars, PoolInv, Opening, OnePool
<1> QED
  BY <1>1, <1>2, <1>3, <1>4, <1>5, <1>6, <1>7, <1>8, <1>9, <1>10, <1>11 DEF Next, CallStep

-----------------------------------------------------------------------------
(* Types.                                                                  *)

\* A step of the runner keeps the types of the tables.
LEMMA StepKeepsTables ==
  ASSUME TypeOK, SchemaInv, [Next]_vars
  PROVE  /\ migLock' \in Calls \cup {NoOne}
         /\ schema' \in [Versions -> Nat] /\ applied' \subseteq Versions
         /\ told' \in [Calls -> SUBSET Versions]
         /\ faults' \in 0 .. MaxFaults
<1>0. /\ migLock \in Calls \cup {NoOne} /\ schema \in [Versions -> Nat] /\ applied \subseteq Versions
      /\ told \in [Calls -> SUBSET Versions] /\ faults \in 0 .. MaxFaults /\ MaxFaults \in Nat
  BY SetupAssumption DEF TypeOK, SetupAssumption
<1>1. ASSUME NEW c \in Calls PROVE Selected(HostOf[c]) \subseteq Versions
  BY Constants
<1>2. ASSUME NEW c \in Calls, call[c].phase = "recording", Committed(c)
      PROVE  schema' \in [Versions -> Nat] /\ applied' \subseteq Versions
  BY <1>0, <1>2, CommitKeepsSchema DEF SchemaInv
<1>3. ASSUME NEW c \in Calls, NEW op \in Ops, Begin(c, op)
      PROVE  UNCHANGED <<dbVars, faults>> /\ told' \in [Calls -> SUBSET Versions]
  BY <1>0, <1>3 DEF Begin
<1>4. ASSUME NEW c \in Calls,
             \/ Open(c) \/ Created(c) \/ Read(c) \/ RunFile(c) \/ Close(c)
             \/ CloseBackend(c) \/ Drained(c)
      PROVE  UNCHANGED <<dbVars, told, faults>>
  BY <1>4 DEF Open, Created, Read, RunFile, Close, CloseBackend, Drained
<1>5. ASSUME NEW c \in Calls, CreateFails(c) \/ DrainFails(c)
      PROVE  UNCHANGED <<dbVars, told>> /\ faults' \in 0 .. MaxFaults
  BY <1>0, <1>5 DEF CreateFails, DrainFails
<1>6. ASSUME NEW c \in Calls, Lock(c) \/ Ensure(c)
      PROVE  UNCHANGED <<schema, applied, told, faults>> /\ migLock' \in Calls \cup {NoOne}
  BY <1>6 DEF Lock, Ensure
<1>7. ASSUME NEW c \in Calls, Record(c)
      PROVE  /\ UNCHANGED <<migLock, told, faults>>
             /\ schema' \in [Versions -> Nat] /\ applied' \subseteq Versions
  BY <1>2, <1>7 DEF Record
<1>8. ASSUME NEW c \in Calls, Finish(c)
      PROVE  /\ UNCHANGED <<schema, applied, faults>> /\ migLock' = NoOne
             /\ told' \in [Calls -> SUBSET Versions]
  BY <1>0, <1>1, <1>8 DEF Finish
<1>9. ASSUME NEW c \in Calls, Fail(c)
      PROVE  /\ migLock' \in Calls \cup {NoOne} /\ told' = told /\ faults' \in 0 .. MaxFaults
             /\ schema' \in [Versions -> Nat] /\ applied' \subseteq Versions
  BY <1>0, <1>2, <1>9 DEF Fail
<1>10. ASSUME NEW c \in Calls, Report(c)
       PROVE  UNCHANGED <<dbVars, faults>> /\ told' \in [Calls -> SUBSET Versions]
  BY <1>0, <1>1, <1>10 DEF Report
<1>11. ASSUME NEW p \in Procs, Crash(p)
       PROVE  /\ migLock' \in Calls \cup {NoOne} /\ UNCHANGED <<schema, applied>>
              /\ faults' \in 0 .. MaxFaults /\ told' \in [Calls -> SUBSET Versions]
  BY <1>0, <1>11 DEF Crash
<1>12. CASE UNCHANGED vars
  BY <1>0, <1>12 DEF vars
<1> QED
  BY <1>0, <1>3, <1>4, <1>5, <1>6, <1>7, <1>8, <1>9, <1>10, <1>11, <1>12
  DEF Next, CallStep, dbVars

\* A step of the object's life keeps the types of object, lock and pools.
LEMMA StepKeepsObject ==
  ASSUME TypeOK, PoolInv, [Next]_vars
  PROVE  /\ app' \in [Procs -> Apps] /\ initLock' \in [Procs -> Calls \cup {NoOne}]
         /\ pools' \in [Procs -> Nat]
<1>0. /\ app \in [Procs -> Apps] /\ initLock \in [Procs -> Calls \cup {NoOne}]
      /\ pools \in [Procs -> Nat] /\ HostOf \in [Calls -> Procs] /\ Fresh \in Apps
  BY Constants DEF TypeOK
<1>a. ASSUME NEW p \in Procs
      PROVE  /\ [app[p] EXCEPT !.initialized = TRUE] \in Apps
             /\ [app[p] EXCEPT !.initialized = TRUE, !.pool = "open"] \in Apps
             /\ [app[p] EXCEPT !.pool = "closing"] \in Apps
             /\ [initialized |-> FALSE, closed |-> TRUE, pool |-> "none"] \in Apps
             /\ [initialized |-> FALSE, closed |-> TRUE, pool |-> "closing"] \in Apps
  BY <1>0 DEF Apps
<1>1. ASSUME NEW c \in Calls,
             \/ \E op \in Ops : Begin(c, op)
             \/ Lock(c) \/ Read(c) \/ RunFile(c) \/ Record(c) \/ Finish(c) \/ Fail(c)
             \/ Ensure(c) \/ Report(c) \/ Close(c)
      PROVE  UNCHANGED appVars
  BY <1>1 DEF Begin, Lock, Read, RunFile, Record, Finish, Fail, Ensure, Report, Close
<1>b. ASSUME NEW p \in Procs, NEW r \in Apps, app' = [app EXCEPT ![p] = r]
      PROVE  app' \in [Procs -> Apps]
  BY <1>0, <1>b
<1>2. ASSUME NEW c \in Calls, Open(c)
      PROVE  /\ app' \in [Procs -> Apps] /\ initLock' \in [Procs -> Calls \cup {NoOne}]
             /\ pools' = pools
  <2> DEFINE r == [app[HostOf[c]] EXCEPT !.initialized = TRUE]
  <2>1. r \in Apps /\ (app' = app \/ app' = [app EXCEPT ![HostOf[c]] = r])
    BY <1>0, <1>a, <1>2 DEF Open
  <2> HIDE DEF r
  <2>2. app' \in [Procs -> Apps]
    BY <1>0, <1>b, <2>1
  <2> QED BY <1>0, <1>2, <2>2 DEF Open
<1>3. ASSUME NEW c \in Calls, Created(c)
      PROVE  /\ app' \in [Procs -> Apps] /\ initLock' \in [Procs -> Calls \cup {NoOne}]
             /\ pools' \in [Procs -> Nat]
  <2>1. app' = [app EXCEPT ![HostOf[c]] =
                  [app[HostOf[c]] EXCEPT !.initialized = TRUE, !.pool = "open"]]
    BY <1>3 DEF Created
  <2>2. app' \in [Procs -> Apps]
    BY <1>0, <1>a, <2>1
  <2> QED BY <1>0, <1>3, <2>2 DEF Created
<1>4. ASSUME NEW c \in Calls, CreateFails(c)
      PROVE  UNCHANGED <<app, pools>> /\ initLock' \in [Procs -> Calls \cup {NoOne}]
  BY <1>0, <1>4 DEF CreateFails
<1>5. ASSUME NEW c \in Calls, CloseBackend(c)
      PROVE  UNCHANGED <<initLock, pools>> /\ app' \in [Procs -> Apps]
  <2> DEFINE q == [initialized |-> FALSE, closed |-> TRUE, pool |-> "none"]
             r == [app[HostOf[c]] EXCEPT !.pool = "closing"]
  <2>1. app' = [app EXCEPT ![HostOf[c]] = q] \/ app' = [app EXCEPT ![HostOf[c]] = r]
    BY <1>5 DEF CloseBackend, Closed
  <2>2. q \in Apps /\ r \in Apps
    BY <1>0, <1>a
  <2> HIDE DEF q, r
  <2>3. app' \in [Procs -> Apps]
    BY <1>0, <1>b, <2>1, <2>2
  <2> QED BY <1>5, <2>3 DEF CloseBackend
<1>6. ASSUME NEW c \in Calls, Drained(c)
      PROVE  /\ initLock' = initLock /\ app' \in [Procs -> Apps]
             /\ pools' \in [Procs -> Nat]
  <2>1. pools[HostOf[c]] = 1
    BY <1>0, <1>6 DEF Drained, PoolInv, Opening, OnePool
  <2>2. app' = [app EXCEPT ![HostOf[c]] =
                  [initialized |-> FALSE, closed |-> TRUE, pool |-> "none"]]
    BY <1>6 DEF Drained, Closed
  <2>3. app' \in [Procs -> Apps]
    BY <1>0, <1>a, <2>2
  <2>4. pools' \in [Procs -> Nat]
    BY <1>0, <1>6, <2>1 DEF Drained
  <2> QED BY <1>6, <2>3, <2>4 DEF Drained
<1>7. ASSUME NEW c \in Calls, DrainFails(c)
      PROVE  UNCHANGED <<initLock, pools>> /\ app' \in [Procs -> Apps]
  <2>1. app' = [app EXCEPT ![HostOf[c]] =
                  [initialized |-> FALSE, closed |-> TRUE, pool |-> "closing"]]
    BY <1>7 DEF DrainFails, Closed
  <2>2. app' \in [Procs -> Apps]
    BY <1>0, <1>a, <2>1
  <2> QED BY <1>7, <2>2 DEF DrainFails
<1>8. ASSUME NEW p \in Procs, Crash(p)
      PROVE  /\ app' \in [Procs -> Apps] /\ initLock' \in [Procs -> Calls \cup {NoOne}]
             /\ pools' \in [Procs -> Nat]
  BY <1>0, <1>8 DEF Crash
<1>9. CASE UNCHANGED vars
  BY <1>0, <1>9 DEF vars
<1> QED
  BY <1>0, <1>1, <1>2, <1>3, <1>4, <1>5, <1>6, <1>7, <1>8, <1>9 DEF Next, CallStep, appVars

\* A step leaves every coroutine in a phase of a call.
LEMMA StepKeepsCalls ==
  ASSUME TypeOK, [Next]_vars
  PROVE  call' \in [Calls -> CallTypes]
<1>0. call \in [Calls -> CallTypes] /\ HostOf \in [Calls -> Procs] /\ Idle \in CallTypes
  BY Constants DEF TypeOK
<1>1. ASSUME NEW phase \in Phases, NEW op \in Ops
      PROVE  [phase |-> phase, op |-> op, pending |-> {}] \in CallTypes
  BY DEF CallTypes
<1>2. ASSUME NEW phase \in Phases, NEW op \in Ops
      PROVE  [Idle EXCEPT !.phase = phase, !.op = op] \in CallTypes
  BY DEF Idle, CallTypes
<1>3. ASSUME NEW c \in Calls, NEW phase \in Phases, GoTo(c, phase)
      PROVE  call' \in [Calls -> CallTypes]
  BY <1>0, <1>3 DEF GoTo, CallTypes
<1>4. ASSUME NEW c \in Calls, End(c)
      PROVE  call' \in [Calls -> CallTypes]
  BY <1>0, <1>4 DEF End
<1>5. ASSUME NEW c \in Calls, NEW op \in Ops, Begin(c, op)
      PROVE  call' \in [Calls -> CallTypes]
  <2>1. "opening" \in Phases /\ "waiting" \in Phases
    BY DEF Phases
  <2> QED BY ZenonT(60), <1>0, <1>1, <1>2, <1>5, <2>1 DEF Begin, Proceed
<1>6. ASSUME NEW c \in Calls, Open(c) \/ Created(c)
      PROVE  call' \in [Calls -> CallTypes]
  <2>1. "creating" \in Phases /\ "waiting" \in Phases /\ call[c].op \in Ops
    BY <1>0 DEF Phases, CallTypes
  <2> QED BY <1>0, <1>1, <1>3, <1>6, <2>1 DEF Open, Created, Proceed
<1>7. ASSUME NEW c \in Calls, Lock(c) \/ RunFile(c) \/ Ensure(c)
      PROVE  call' \in [Calls -> CallTypes]
  <2>1. {"reading", "ensuring", "recording", "reporting"} \subseteq Phases
    BY DEF Phases
  <2> QED BY <1>3, <1>7, <2>1 DEF Lock, RunFile, Ensure
<1>8. ASSUME NEW c \in Calls, Read(c) \/ Record(c)
      PROVE  call' \in [Calls -> CallTypes]
  <2>1. Selected(HostOf[c]) \ applied \subseteq Versions /\ call[c].pending \subseteq Versions
    BY <1>0, Constants DEF CallTypes
  <2>2. \A S \in SUBSET Versions : [call[c] EXCEPT !.phase = "running", !.pending = S] \in CallTypes
    BY <1>0 DEF CallTypes, Phases
  <2>3. \E S \in SUBSET Versions :
          call' = [call EXCEPT ![c] = [call[c] EXCEPT !.phase = "running", !.pending = S]]
    BY <1>0, <1>8, <2>1 DEF Read, Record, CallTypes
  <2> QED BY <1>0, <2>2, <2>3
<1>9. ASSUME NEW c \in Calls,
             \/ CreateFails(c) \/ Finish(c) \/ Fail(c) \/ Report(c)
             \/ Drained(c) \/ DrainFails(c)
      PROVE  call' \in [Calls -> CallTypes]
  BY <1>4, <1>9 DEF CreateFails, Finish, Fail, Report, Drained, DrainFails
<1>10. ASSUME NEW c \in Calls, Close(c) \/ CloseBackend(c)
       PROVE  call' \in [Calls -> CallTypes]
  <2>1. {"hooks", "draining"} \subseteq Phases /\ "close" \in Ops
    BY DEF Phases, Ops
  <2>2. CASE Close(c)
    <3>1. call' = [call EXCEPT ![c] = [Idle EXCEPT !.phase = "hooks", !.op = "close"]]
      BY <2>2 DEF Close
    <3>2. [Idle EXCEPT !.phase = "hooks", !.op = "close"] \in CallTypes
      BY <1>2, <2>1
    <3> QED BY <1>0, <3>1, <3>2
  <2>3. CASE CloseBackend(c)
    BY <1>3, <1>4, <2>1, <2>3 DEF CloseBackend
  <2> QED BY <1>10, <2>2, <2>3
<1>11. ASSUME NEW p \in Procs, Crash(p)
       PROVE  call' \in [Calls -> CallTypes]
  BY <1>0, <1>11 DEF Crash
<1>12. CASE UNCHANGED vars
  BY <1>0, <1>12 DEF vars
<1> QED
  BY <1>5, <1>6, <1>7, <1>8, <1>9, <1>10, <1>11, <1>12 DEF Next, CallStep

-----------------------------------------------------------------------------
(* Theorems.                                                               *)

\* The invariant of processes that open and set up one database.
THEOREM SetupInvariant == Spec => []Inv
<1>1. Init => Inv
  BY InitInv
<1>2. Inv /\ [Next]_vars => Inv'
  <2> SUFFICES ASSUME Inv, [Next]_vars PROVE Inv'
    OBVIOUS
  <2>1. SchemaInv' /\ PoolInv'
    BY StepKeepsSchema, StepKeepsPool DEF Inv, SchemaInv, PoolInv
  <2>2. TypeOK'
    BY StepKeepsTables, StepKeepsObject, StepKeepsCalls DEF Inv, SchemaInv, PoolInv, TypeOK
  <2> QED BY <2>1, <2>2 DEF Inv, SchemaInv, PoolInv
<1> QED BY <1>1, <1>2, PTL DEF Spec

\* Variables of processes, coroutines and tables keep their types (Setup).
THEOREM SetupTypes == Spec => []TypeOK
BY SetupInvariant, PTL DEF Inv

\* Each migration takes effect once, with its record, and in order, for every fleet of
\* releases that grow (_run_migrations_with_connection, apply_migration).
THEOREM MigrationsRunOnce == Spec => []FilesRunOnceInOrder
BY SetupInvariant, PTL DEF Inv

\* What a setup or a status report has said of the schema stays true (get_migration_status).
THEOREM ReportsStayTrue == Spec => []ReportsHold
BY SetupInvariant, PTL DEF Inv

\* A process has the pool that its object knows, and no other (initialize, close).
THEOREM OnePoolPerProcess == Spec => []OnePool
BY SetupInvariant, PTL DEF Inv

=============================================================================
