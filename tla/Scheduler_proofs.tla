-------------------------- MODULE Scheduler_proofs --------------------------
(***************************************************************************)
(* Theorems about Scheduler, for every set of processes, definitions and   *)
(* instants.  TypeOK with Shape is inductive; over it SlotsAdvance and     *)
(* CountsAreRuns are, each on its own.  OneRunPerSlot follows from         *)
(* SlotsAdvance: the run time that a claim serves is next_run of the row,  *)
(* which is past every run time served before.                             *)
(***************************************************************************)
EXTENDS Scheduler, TLAPS

\* _calculate_next_run returns a time later than the one it is given.
LEMMA NextRunLater ==
  ASSUME NEW d \in Defs, NEW t \in 0 .. Horizon
  PROVE  NextRun(d, t) \in Nat /\ NextRun(d, t) > t
<1>1. CASE d.type = "interval" /\ d.every \in Nat \ {0}
  BY <1>1 DEF NextRun
<1>2. CASE /\ d.type = "cron"
           /\ d.times \subseteq Nat
           /\ \E s \in d.times : s > t /\ \A u \in d.times : u > t => s <= u
  BY <1>2 DEF NextRun
<1> QED BY <1>1, <1>2, SchedulerAssumption DEF SchedulerAssumption

\* The constants that the types are built from, and their idle elements.
LEMMA Constants ==
  /\ Horizon \in Nat
  /\ NoSched \notin Scheds \cup Defs
  /\ Decorated \in Defs
  /\ NoOp \in Ops /\ NoOp.do = "none" /\ NoOp.step = "none"
  /\ NoTick \in Ticks /\ NoTick.step = "none"
<1>1. Horizon \in Nat /\ NoSched \notin Scheds \cup Defs /\ Decorated \in Defs
  BY SchedulerAssumption DEF SchedulerAssumption
<1> QED BY <1>1 DEF NoOp, Ops, NoTick, Ticks

-----------------------------------------------------------------------------
(* Type correctness.                                                       *)

\* The initial state has the types.
LEMMA InitTypes == Init => TypeOK
BY Constants DEF Init, TypeOK, Shape

\* The clock keeps the types.
LEMMA PassTypes == TypeOK /\ Pass => TypeOK'
BY Constants DEF Pass, TypeOK, Shape, history

\* Loading the cache keeps the types.
LEMMA EnsureLoadedTypes ==
  ASSUME TypeOK, NEW p \in Procs, EnsureLoaded(p)
  PROVE  TypeOK'
BY DEF EnsureLoaded, TypeOK, Shape, history

\* Detaching an object leaves a tick of the type.
LEMMA DetachTypes ==
  ASSUME TypeOK, NEW p \in Procs, Detach(p)
  PROVE  tick' \in [Procs -> Ticks]
<1> DEFINE t == [tick[p] EXCEPT !.own = FALSE, !.obj = cache[p]]
<1>1. t \in Ticks
  BY ZenonT(60) DEF TypeOK, Ticks
<1>2. tick' = IF tick[p].step # "none" /\ tick[p].own THEN [tick EXCEPT ![p] = t] ELSE tick
  BY DEF Detach, TypeOK, Ticks
<1> HIDE DEF t
<1> QED BY <1>1, <1>2 DEF TypeOK

\* The steps of add and start keep the types.
LEMMA AddTypes ==
  ASSUME TypeOK, NEW p \in Procs,
         \/ \E d \in Defs : Add(p, d)
         \/ Start(p) \/ Compose(p) \/ Upsert(p) \/ Publish(p) \/ StartBare(p)
  PROVE  TypeOK'
<1> USE DEF history
<1>0. NoOp \in Ops
  BY Constants
<1>1. ASSUME NEW do \in {"add", "start"}, NEW d \in Defs, Call(p, do, now, d)
      PROVE  TypeOK'
  <2>1. d # NoSched
    BY Constants
  <2> DEFINE o == [NoOp EXCEPT !.do = do, !.step = "called", !.at = now, !.def = d]
  <2>2. o \in Ops /\ o.do = do /\ o.step = "called" /\ o.def = d
    BY <1>1 DEF TypeOK, Ops, NoOp
  <2>3. op' = [op EXCEPT ![p] = o]
    BY <1>1 DEF Call
  <2> HIDE DEF o
  <2> QED BY <1>1, <2>1, <2>2, <2>3 DEF Call, TypeOK, Shape
<1>2. CASE Compose(p)
  <2> DEFINE e == [def |-> op[p].def,
                   status |-> IF cache[p] = NoSched THEN "active" ELSE cache[p].status,
                   next |-> NextRun(op[p].def, op[p].at),
                   count |-> IF cache[p] = NoSched THEN 0 ELSE cache[p].count]
  <2>1. op[p].def \in Defs /\ op[p].at \in 0 .. Horizon
    BY <1>2 DEF Compose, TypeOK, Shape, Ops
  <2>2. e \in Scheds
    BY <2>1, NextRunLater DEF TypeOK, Scheds
  <2> HIDE DEF e
  <2> DEFINE o == [NoOp EXCEPT !.do = op[p].do, !.step = "composed",
                             !.at = op[p].at, !.sched = e]
  <2>3. op' = [op EXCEPT ![p] = o]
    BY <1>2 DEF Compose, e
  <2>4. /\ o \in Ops
        /\ o.do \in {"add", "start"} /\ o.step = "composed" /\ o.sched = e
    BY <1>2, <2>2, Constants DEF Compose, TypeOK, Ops, NoOp
  <2>5. /\ loaded[p]
        /\ UNCHANGED <<now, row, loaded, cache, loop, tick, leader, faults, history>>
    BY <1>2 DEF Compose
  <2> HIDE DEF o
  <2> QED BY <2>2, <2>3, <2>4, <2>5, Constants DEF TypeOK, Shape
<1>3. CASE Upsert(p)
  <2> DEFINE o == [op[p] EXCEPT !.step = "written"]
  <2>1. /\ op[p] \in Ops /\ op[p].step = "composed" /\ loaded[p]
        /\ op[p].do \in {"add", "start"} /\ op[p].sched \in Scheds
    BY <1>3 DEF Upsert, TypeOK, Shape, Ops
  <2>2. /\ o \in Ops
        /\ o.do = op[p].do /\ o.step = "written" /\ o.sched = op[p].sched
    BY <2>1 DEF Ops
  <2>3. /\ op' = [op EXCEPT ![p] = o] /\ row' = op[p].sched /\ served' \subseteq served
        /\ UNCHANGED <<now, loaded, cache, loop, tick, leader, faults, enqueued>>
    BY <1>3 DEF Upsert
  <2> HIDE DEF o
  <2> QED BY <2>1, <2>2, <2>3, Constants DEF TypeOK, Shape
<1>4. CASE Publish(p)
  <2>1. op[p].sched \in Scheds /\ loaded[p]
    BY <1>4 DEF Publish, TypeOK, Shape, Ops
  <2>2. /\ cache' \in [Procs -> Scheds \cup {NoSched}]
        /\ op' \in [Procs -> Ops]
        /\ loop' \in [Procs -> {"off", "on"}]
    BY <1>0, <1>4, <2>1 DEF Publish, TypeOK
  <2>3. tick' \in [Procs -> Ticks]
    BY <1>4, DetachTypes DEF Publish
  <2>4. ASSUME NEW q \in Procs
        PROVE  /\ tick[q].step # "none" /\ tick'[q].own => q # p /\ tick'[q] = tick[q]
               /\ tick'[q].step = tick[q].step
               /\ tick[q].step = "scan" /\ ~tick'[q].own => tick'[q].obj # NoSched
    BY <1>4 DEF Publish, Detach, TypeOK, Shape, Ticks
  <2>5. Shape'
    BY <1>0, <1>4, <2>1, <2>4 DEF Publish, TypeOK, Shape, NoOp
  <2> QED BY <1>4, <2>2, <2>3, <2>5 DEF Publish, TypeOK
<1>5. CASE StartBare(p)
  BY <1>0, <1>5 DEF StartBare, TypeOK, Shape, NoOp
<1>6. Decorated \in Defs
  BY Constants
<1> QED BY <1>1, <1>2, <1>3, <1>4, <1>5, <1>6 DEF Add, Start

\* The steps of pause, resume and remove keep the types.
LEMMA StatusTypes ==
  ASSUME TypeOK, NEW p \in Procs,
         \/ Request(p) \/ SetStatus(p) \/ Delete(p) \/ NotFound(p)
         \/ CacheStatus(p) \/ PopCache(p)
  PROVE  TypeOK'
<1> USE DEF history
<1>0. NoOp \in Ops
  BY Constants
<1>1. ASSUME NEW do \in {"pause", "resume", "remove"}, Call(p, do, 0, NoSched)
      PROVE  TypeOK'
  <2> DEFINE o == [NoOp EXCEPT !.do = do, !.step = "called", !.at = 0, !.def = NoSched]
  <2>1. o \in Ops /\ o.do \notin {"add", "start"} /\ o.step = "called"
    BY Constants DEF Ops, NoOp
  <2>2. op' = [op EXCEPT ![p] = o]
    BY <1>1 DEF Call
  <2> HIDE DEF o
  <2> QED BY <1>1, <2>1, <2>2 DEF Call, TypeOK, Shape
<1>2. CASE SetStatus(p)
  <2>1. row' \in Scheds
    BY <1>2 DEF SetStatus, TypeOK, Scheds, StatusOf
  <2> QED BY <1>2, <2>1 DEF SetStatus, TypeOK, Shape, Ops
<1>3. CASE Delete(p)
  BY <1>3 DEF Delete, TypeOK, Shape, Ops
<1>4. CASE NotFound(p)
  BY <1>0, <1>4 DEF NotFound, TypeOK, Shape, NoOp
<1>5. CASE CacheStatus(p)
  <2>1. CASE cache[p] = NoSched
    BY <1>0, <1>5, <2>1 DEF CacheStatus, TypeOK, Shape, NoOp
  <2>2. CASE cache[p] # NoSched
    <3> DEFINE e == [cache[p] EXCEPT !.status = StatusOf[op[p].do]]
    <3>1. e \in Scheds
      BY <1>5, <2>2 DEF CacheStatus, TypeOK, Scheds, StatusOf
    <3>2. cache' = [cache EXCEPT ![p] = e]
      BY <1>5, <2>2 DEF CacheStatus
    <3> HIDE DEF e
    <3> QED BY SMTT(30), <1>0, <1>5, <2>2, <3>1, <3>2, Constants
               DEF CacheStatus, TypeOK, Shape, NoOp
  <2> QED BY <2>1, <2>2
<1>6. CASE PopCache(p)
  <2>1. tick' \in [Procs -> Ticks]
    BY <1>6, DetachTypes DEF PopCache
  <2>2. ASSUME NEW q \in Procs
        PROVE  /\ tick[q].step # "none" /\ tick'[q].own => q # p /\ tick'[q] = tick[q]
               /\ tick'[q].step = tick[q].step
               /\ tick[q].step = "scan" /\ ~tick'[q].own => tick'[q].obj # NoSched
    BY <1>6 DEF PopCache, Detach, TypeOK, Shape, Ticks
  <2>3. Shape'
    BY <1>0, <1>6, <2>2 DEF PopCache, TypeOK, Shape, NoOp
  <2> QED BY <1>0, <1>6, <2>1, <2>3 DEF PopCache, TypeOK
<1> QED BY <1>1, <1>2, <1>3, <1>4, <1>5, <1>6 DEF Request

\* The entry that a tick works on is there.
LEMMA EntryKnown ==
  ASSUME TypeOK, NEW p \in Procs, tick[p].step = "scan"
  PROVE  Entry(p) \in Scheds
BY DEF Entry, TypeOK, Shape, Ticks

\* The steps of a tick keep the types.
LEMMA TickTypes ==
  ASSUME TypeOK, NEW p \in Procs, BeginTick(p) \/ TickStep(p)
  PROVE  TypeOK'
<1> USE DEF history
<1>0. NoTick \in Ticks
  BY Constants
<1>1. CASE BeginTick(p)
  <2> DEFINE t == [NoTick EXCEPT !.step = "scan", !.at = now, !.own = TRUE]
  <2>1. t \in Ticks /\ t.step = "scan" /\ t.own
    BY DEF TypeOK, Ticks, NoTick
  <2>2. tick' = [tick EXCEPT ![p] = t]
    BY <1>1 DEF BeginTick
  <2> HIDE DEF t
  <2> QED BY <1>1, <2>1, <2>2 DEF BeginTick, TypeOK, Shape
<1>2. CASE PassOver(p)
  BY <1>0, <1>2 DEF PassOver, EndTick, TypeOK, Shape, NoTick
<1>3. CASE Consider(p)
  <2>1. Entry(p) \in Scheds
    BY <1>3, EntryKnown DEF Consider
  <2>2. /\ Entry(p).next \in Nat
        /\ Entry(p).count + 1 \in Nat
        /\ NextRun(Entry(p).def, tick[p].at) \in Nat
    BY <2>1, NextRunLater DEF TypeOK, Ticks, Scheds
  <2> DEFINE t == [tick[p] EXCEPT !.step = "claim", !.expected = Entry(p).next,
                                  !.next = NextRun(Entry(p).def, tick[p].at),
                                  !.count = Entry(p).count + 1]
  <2>3. t \in Ticks /\ t.step = "claim" /\ t.own = tick[p].own
    BY ZenonT(60), <2>2 DEF TypeOK, Ticks
  <2>4. tick' = [tick EXCEPT ![p] = t]
    BY <1>3 DEF Consider, TypeOK, Ticks
  <2>5. /\ tick[p].step = "scan"
        /\ UNCHANGED <<now, row, loaded, cache, op, loop, leader, faults, history>>
    BY <1>3 DEF Consider
  <2> HIDE DEF t
  <2> QED BY <2>3, <2>4, <2>5 DEF TypeOK, Shape
<1>4. CASE Fire(p)
  <2>1. row' \in Scheds
    BY <1>4 DEF Fire, AsExpected, Dispatch, TypeOK, Scheds, Ticks
  <2> DEFINE t == [NoTick EXCEPT !.step = "fired", !.own = tick[p].own,
                                 !.next = tick[p].next, !.count = tick[p].count]
  <2>2. t \in Ticks /\ t.step = "fired" /\ t.own = tick[p].own
    BY Constants DEF TypeOK, Ticks, NoTick
  <2>5. tick' = [tick EXCEPT ![p] = t]
    BY <1>4 DEF Fire, Dispatch
  <2> HIDE DEF t
  <2>3. served' \in SUBSET Nat /\ enqueued' \in Nat
    BY <1>4 DEF Fire, Dispatch, TypeOK, Ticks
  <2>4. Shape'
    BY <1>4, <2>2, <2>5 DEF Fire, Dispatch, TypeOK, Shape
  <2> QED BY <1>4, <2>1, <2>2, <2>3, <2>4, <2>5 DEF Fire, Dispatch, TypeOK
<1>5. CASE Settle(p)
  <2>1. CASE ~tick[p].own
    BY <1>0, <1>5, <2>1 DEF Settle, EndTick, TypeOK, Shape, NoTick
  <2>2. CASE tick[p].own
    <3> DEFINE e == [cache[p] EXCEPT !.next = tick[p].next, !.count = tick[p].count]
    <3>3. cache[p] \in Scheds /\ tick[p].next \in Nat /\ tick[p].count \in Nat
      BY <1>5, <2>2 DEF Settle, TypeOK, Shape, Ticks
    <3>1. e \in Scheds
      BY <3>3 DEF Scheds
    <3>2. cache' = [cache EXCEPT ![p] = e] /\ cache[p] # NoSched
      BY <1>5, <2>2 DEF Settle, TypeOK, Shape
    <3> HIDE DEF e
    <3> QED BY ZenonT(60), <1>0, <1>5, <3>1, <3>2 DEF Settle, EndTick, TypeOK, Shape, NoTick
  <2> QED BY <2>1, <2>2
<1>6. CASE LoseClaim(p)
  <2>1. CASE ~(tick[p].own /\ row # NoSched)
    BY <1>0, <1>6, <2>1 DEF LoseClaim, EndTick, TypeOK, Shape, NoTick
  <2>2. CASE tick[p].own /\ row # NoSched
    <3> DEFINE e == [cache[p] EXCEPT !.next = row.next]
    <3>1. e \in Scheds
      BY <1>6, <2>2 DEF LoseClaim, TypeOK, Shape, Scheds
    <3>2. cache' = [cache EXCEPT ![p] = e] /\ cache[p] # NoSched
      BY <1>6, <2>2 DEF LoseClaim, TypeOK, Shape
    <3> HIDE DEF e
    <3> QED BY <1>0, <1>6, <3>1, <3>2 DEF LoseClaim, EndTick, TypeOK, Shape, NoTick
  <2> QED BY <2>1, <2>2
<1> QED BY <1>1, <1>2, <1>3, <1>4, <1>5, <1>6 DEF TickStep

\* Faults, stop and crash keep the types.
LEMMA FaultTypes ==
  ASSUME TypeOK, NEW p \in Procs, RollBack(p) \/ LoseLock(p) \/ Stop(p) \/ Crash(p)
  PROVE  TypeOK'
<1> USE DEF history
<1>0. NoTick \in Ticks /\ NoOp \in Ops
  BY Constants
<1>1. CASE RollBack(p)
  BY <1>0, <1>1 DEF RollBack, EndTick, TypeOK, Shape, NoTick
<1>2. CASE LoseLock(p)
  BY <1>2 DEF LoseLock, TypeOK, Shape
<1>3. CASE Stop(p)
  BY <1>0, <1>3 DEF Stop, EndTick, TypeOK, Shape, NoTick
<1>4. CASE Crash(p)
  BY <1>0, <1>4 DEF Crash, EndTick, TypeOK, Shape, NoTick, NoOp
<1> QED BY <1>1, <1>2, <1>3, <1>4

\* Every step keeps the types.
LEMMA NextTypes == TypeOK /\ [Next]_vars => TypeOK'
<1> SUFFICES ASSUME TypeOK, [Next]_vars
             PROVE  TypeOK'
  OBVIOUS
<1>1. CASE UNCHANGED vars
  BY <1>1 DEF vars, history, TypeOK, Shape
<1>2. CASE Pass
  BY <1>2, PassTypes
<1>3. ASSUME NEW p \in Procs,
             \/ \E d \in Defs : Add(p, d)
             \/ Start(p) \/ Request(p) \/ ApiStep(p)
             \/ BeginTick(p) \/ TickStep(p) \/ RollBack(p)
             \/ LoseLock(p) \/ Stop(p) \/ Crash(p)
      PROVE  TypeOK'
  BY <1>3, EnsureLoadedTypes, AddTypes, StatusTypes, TickTypes, FaultTypes DEF ApiStep
<1> QED BY <1>1, <1>2, <1>3 DEF Next

\* Every variable keeps its type, and what is under way has set what it needs.
THEOREM ScheduleTypes == Spec => []TypeOK
BY InitTypes, NextTypes, PTL DEF Spec

-----------------------------------------------------------------------------
(* Every run time is served once.                                          *)

\* The row's next_run, what has been served, and what ticks and adds have captured stay as
\* they are.
RunTimesKept ==
  /\ row' # NoSched => row # NoSched /\ row'.next = row.next
  /\ served' = served
  /\ \A p \in Procs : tick'[p].step = "claim" =>
       /\ tick[p].step = "claim"
       /\ tick'[p].expected = tick[p].expected
       /\ tick'[p].at = tick[p].at
       /\ tick'[p].next = tick[p].next
  /\ \A p \in Procs : op'[p].step = "composed" => op'[p] = op[p]

\* A call that ends or begins has not composed an entry.
NoneComposed(p) == \E o : o.step # "composed" /\ op' = [op EXCEPT ![p] = o]

\* A step that keeps the run times keeps their order.
LEMMA KeptAdvances == SlotsAdvance /\ RunTimesKept => SlotsAdvance'
BY DEF SlotsAdvance, RunTimesKept

\* Ending a tick takes its captured run times away and leaves those of the others.
LEMMA EndTickKeeps ==
  ASSUME TypeOK, NEW p \in Procs, EndTick(p), row' = row, served' = served,
         op' = op \/ NoneComposed(p)
  PROVE  RunTimesKept
<1>1. \A q \in Procs : op'[q].step = "composed" => op'[q] = op[q]
  BY DEF NoneComposed, TypeOK
<1> QED BY <1>1, Constants DEF EndTick, TypeOK, RunTimesKept

\* Detaching an object keeps the captured run times.
LEMMA DetachKeeps ==
  ASSUME TypeOK, NEW p \in Procs, Detach(p), row' = row, served' = served,
         NoneComposed(p)
  PROVE  RunTimesKept
<1>1. \A q \in Procs : op'[q].step = "composed" => op'[q] = op[q]
  BY DEF NoneComposed, TypeOK
<1> QED BY <1>1 DEF Detach, TypeOK, Ticks, RunTimesKept

\* Only an add, the capture of a due entry and a claim change run times.
LEMMA OtherStepsKeep ==
  ASSUME TypeOK, NEW p \in Procs,
         \/ Pass \/ EnsureLoaded(p) \/ (\E d \in Defs : Add(p, d)) \/ Start(p)
         \/ Publish(p) \/ StartBare(p) \/ Request(p) \/ SetStatus(p)
         \/ Delete(p) \/ NotFound(p) \/ CacheStatus(p) \/ PopCache(p) \/ BeginTick(p)
         \/ PassOver(p) \/ Settle(p) \/ LoseClaim(p) \/ RollBack(p) \/ LoseLock(p)
         \/ Stop(p) \/ Crash(p)
  PROVE  RunTimesKept
<1> USE DEF history
<1>0. NoOp.step # "composed"
  BY DEF NoOp
<1>a. NoneComposed(p) => \A q \in Procs : op'[q].step = "composed" => op'[q] = op[q]
  BY DEF NoneComposed, TypeOK
<1>b. ASSUME op' = [op EXCEPT ![p].step = "written"]
      PROVE  NoneComposed(p)
  <2> DEFINE o == [op[p] EXCEPT !.step = "written"]
  <2>1. o.step # "composed" /\ op' = [op EXCEPT ![p] = o]
    BY <1>b DEF TypeOK, Ops
  <2> HIDE DEF o
  <2> QED BY <2>1 DEF NoneComposed
<1>1. CASE Pass \/ EnsureLoaded(p) \/ LoseLock(p)
  BY <1>1 DEF Pass, EnsureLoaded, LoseLock, RunTimesKept
<1>2. CASE (\E d \in Defs : Add(p, d)) \/ Start(p) \/ Request(p)
  <2>1. PICK do \in {"add", "start", "pause", "resume", "remove"}, t \in {0, now},
             d \in Defs \cup {NoSched} : Call(p, do, t, d)
    BY <1>2, Constants DEF Add, Start, Request
  <2> DEFINE o == [NoOp EXCEPT !.do = do, !.step = "called", !.at = t, !.def = d]
  <2>2. o.step # "composed"
    BY DEF NoOp
  <2>3. op' = [op EXCEPT ![p] = o]
    BY <2>1 DEF Call
  <2> HIDE DEF o
  <2>4. NoneComposed(p)
    BY <2>2, <2>3 DEF NoneComposed
  <2> QED BY <2>1, <2>4, <1>a DEF Call, RunTimesKept
<1>3. CASE Publish(p) \/ PopCache(p)
  <2>1. NoneComposed(p)
    BY <1>0, <1>3 DEF Publish, PopCache, NoneComposed
  <2> QED BY <1>3, <2>1, DetachKeeps DEF Publish, PopCache
<1>4. CASE SetStatus(p)
  <2>1. row # NoSched /\ row'.next = row.next
    BY <1>4 DEF SetStatus, TypeOK, Scheds
  <2>2. NoneComposed(p)
    BY <1>4, <1>b DEF SetStatus
  <2> QED BY <1>4, <2>1, <2>2, <1>a DEF SetStatus, RunTimesKept
<1>5. CASE Delete(p)
  <2>1. NoneComposed(p)
    BY <1>5, <1>b DEF Delete
  <2> QED BY <1>5, <2>1, <1>a DEF Delete, RunTimesKept
<1>6. CASE StartBare(p) \/ NotFound(p) \/ CacheStatus(p)
  <2>1. NoneComposed(p)
    BY <1>0, <1>6 DEF StartBare, NotFound, CacheStatus, NoneComposed
  <2> QED BY <1>6, <2>1, <1>a DEF StartBare, NotFound, CacheStatus, RunTimesKept
<1>7. CASE BeginTick(p)
  <2> DEFINE t == [NoTick EXCEPT !.step = "scan", !.at = now, !.own = TRUE]
  <2>1. t.step = "scan"
    BY DEF NoTick
  <2>2. tick' = [tick EXCEPT ![p] = t] /\ row' = row /\ served' = served /\ op' = op
    BY <1>7 DEF BeginTick
  <2> HIDE DEF t
  <2> QED BY <2>1, <2>2 DEF TypeOK, RunTimesKept
<1>8. CASE \/ PassOver(p) \/ Settle(p) \/ LoseClaim(p) \/ RollBack(p) \/ Stop(p)
  BY <1>8, EndTickKeeps DEF PassOver, Settle, LoseClaim, RollBack, Stop
<1>9. CASE Crash(p)
  <2>1. NoneComposed(p)
    BY <1>0, <1>9 DEF Crash, NoneComposed
  <2> QED BY <1>9, <2>1, EndTickKeeps DEF Crash
<1> QED BY <1>1, <1>2, <1>3, <1>4, <1>5, <1>6, <1>7, <1>8, <1>9

\* An add composes an entry that waits for a time past the one it took.
LEMMA ComposeAdvances ==
  ASSUME TypeOK, SlotsAdvance, NEW p \in Procs, Compose(p)
  PROVE  SlotsAdvance'
<1>1. op[p].def \in Defs /\ op[p].at \in 0 .. Horizon
  BY DEF Compose, TypeOK, Shape, Ops
<1>2. op[p].at < NextRun(op[p].def, op[p].at)
  BY <1>1, NextRunLater
<1> DEFINE e == [def |-> op[p].def,
                 status |-> IF cache[p] = NoSched THEN "active" ELSE cache[p].status,
                 next |-> NextRun(op[p].def, op[p].at),
                 count |-> IF cache[p] = NoSched THEN 0 ELSE cache[p].count]
<1>3. e.next = NextRun(op[p].def, op[p].at)
  OBVIOUS
<1> HIDE DEF e
<1> DEFINE o == [NoOp EXCEPT !.do = op[p].do, !.step = "composed",
                             !.at = op[p].at, !.sched = e]
<1>4. o.at = op[p].at /\ o.sched = e
  BY DEF NoOp
<1>5. op' = [op EXCEPT ![p] = o] /\ UNCHANGED <<row, tick, served>>
  BY DEF Compose, history, e
<1> HIDE DEF o
<1> QED BY <1>2, <1>3, <1>4, <1>5 DEF SlotsAdvance, TypeOK

\* An upsert writes a next_run past its time and forgets what was served after that time.
LEMMA UpsertAdvances ==
  ASSUME TypeOK, SlotsAdvance, NEW p \in Procs, Upsert(p)
  PROVE  SlotsAdvance'
<1>1. /\ op[p] \in Ops /\ op[p].step = "composed" /\ op[p].sched # NoSched
      /\ op[p].at \in Nat /\ op[p].sched \in Scheds /\ served \in SUBSET Nat
  BY Constants DEF Upsert, TypeOK, Shape, Ops
<1>2. op[p].at < op[p].sched.next
  BY <1>1 DEF SlotsAdvance
<1>3. \A s \in served' : s < row'.next
  <2>1. row' = op[p].sched /\ served' = {s \in served : s <= op[p].at}
    BY DEF Upsert
  <2>2. op[p].sched.next \in Nat
    BY <1>1 DEF Scheds
  <2> QED BY <1>1, <1>2, <2>1, <2>2
<1> DEFINE o == [op[p] EXCEPT !.step = "written"]
<1>4. o.step # "composed"
  BY <1>1 DEF Ops
<1>5. op' = [op EXCEPT ![p] = o] /\ tick' = tick
  BY DEF Upsert
<1> HIDE DEF o
<1> QED BY <1>3, <1>4, <1>5 DEF SlotsAdvance, TypeOK

\* The run time that a tick captures is due and the next one is later than the tick.
LEMMA ConsiderAdvances ==
  ASSUME TypeOK, SlotsAdvance, NEW p \in Procs, Consider(p)
  PROVE  SlotsAdvance'
<1>1. Entry(p) \in Scheds /\ tick[p].at \in 0 .. Horizon
  BY EntryKnown DEF Consider, TypeOK, Ticks
<1>2. Entry(p).next <= tick[p].at
  BY DEF Consider, DueAt
<1>3. tick[p].at < NextRun(Entry(p).def, tick[p].at)
  BY <1>1, NextRunLater, Constants DEF Scheds
<1> DEFINE t == [tick[p] EXCEPT !.step = "claim", !.expected = Entry(p).next,
                                !.next = NextRun(Entry(p).def, tick[p].at),
                                !.count = Entry(p).count + 1]
<1>4. t.expected <= t.at /\ t.at < t.next
  BY <1>2, <1>3 DEF TypeOK, Ticks
<1>5. tick' = [tick EXCEPT ![p] = t] /\ row' = row /\ served' = served /\ op' = op
  BY DEF Consider, history, TypeOK, Ticks
<1> HIDE DEF t
<1> QED BY <1>4, <1>5 DEF SlotsAdvance, TypeOK

\* A claim serves next_run of the row and moves the row past it.
LEMMA FireAdvances ==
  ASSUME TypeOK, SlotsAdvance, NEW p \in Procs, Fire(p)
  PROVE  SlotsAdvance' /\ tick[p].expected \notin served
<1>1. /\ row \in Scheds /\ tick[p] \in Ticks /\ served \in SUBSET Nat
      /\ tick[p].step = "claim" /\ row # NoSched /\ row.next = tick[p].expected
  BY DEF Fire, AsExpected, TypeOK
<1>2. tick[p].expected < tick[p].next
  BY <1>1, Constants DEF SlotsAdvance, Ticks
<1>3. row'.next = tick[p].next /\ served' = served \cup {tick[p].expected}
  BY <1>1 DEF Fire, Dispatch, Scheds
<1>4. \A s \in served : s < tick[p].expected
  BY <1>1 DEF SlotsAdvance
<1>5. \A s \in served' : s < row'.next
  <2>1. tick[p].expected \in Nat /\ tick[p].next \in Nat
    BY <1>1 DEF Ticks
  <2>2. \A s \in served : s \in Nat /\ s < tick[p].next
    BY <1>1, <1>2, <1>4, <2>1
  <2> QED BY <1>2, <1>3, <2>2
<1> DEFINE t == [NoTick EXCEPT !.step = "fired", !.own = tick[p].own,
                               !.next = tick[p].next, !.count = tick[p].count]
<1>6. t.step = "fired"
  BY DEF NoTick
<1>7. tick' = [tick EXCEPT ![p] = t] /\ op' = op
  BY DEF Fire, Dispatch
<1> HIDE DEF t
<1>8. SlotsAdvance'
  BY <1>5, <1>6, <1>7 DEF SlotsAdvance, TypeOK
<1> QED BY <1>1, <1>4, <1>8 DEF Ticks

\* SlotsAdvance holds at first, and every step keeps it.
LEMMA SlotsAdvanceInductive ==
  /\ Init => SlotsAdvance
  /\ TypeOK /\ SlotsAdvance /\ [Next]_vars => SlotsAdvance'
<1>1. Init => SlotsAdvance
  BY Constants DEF Init, SlotsAdvance
<1>2. ASSUME TypeOK, SlotsAdvance, [Next]_vars PROVE SlotsAdvance'
  <2>1. CASE UNCHANGED vars
    BY <1>2, <2>1 DEF vars, history, SlotsAdvance
  <2>2. CASE Pass
    BY <1>2, <2>2 DEF Pass, history, SlotsAdvance
  <2>3. ASSUME NEW p \in Procs,
               \/ \E d \in Defs : Add(p, d)
               \/ Start(p) \/ Request(p) \/ ApiStep(p)
               \/ BeginTick(p) \/ TickStep(p) \/ RollBack(p)
               \/ LoseLock(p) \/ Stop(p) \/ Crash(p)
        PROVE  SlotsAdvance'
    <3>1. CASE Compose(p) \/ Upsert(p) \/ Consider(p) \/ Fire(p)
      BY <1>2, <3>1, ComposeAdvances, UpsertAdvances, ConsiderAdvances, FireAdvances
    <3>2. CASE ~(Compose(p) \/ Upsert(p) \/ Consider(p) \/ Fire(p))
      <4>1. RunTimesKept
        BY <1>2, <2>3, <3>2, OtherStepsKeep DEF ApiStep, TickStep
      <4> QED BY <1>2, <4>1, KeptAdvances
    <3> QED BY <3>1, <3>2
  <2> QED BY <1>2, <2>1, <2>2, <2>3 DEF Next
<1> QED BY <1>1, <1>2

\* Ticks serve run times that are due, and the row waits for one past all it has served.
THEOREM RunTimesAdvance == Spec => []SlotsAdvance
BY InitTypes, NextTypes, SlotsAdvanceInductive, PTL DEF Spec

\* A step that enqueues a job is a claim.
LEMMA OnlyClaimsEnqueue ==
  ASSUME [Next]_vars, enqueued' > enqueued, TypeOK
  PROVE  \E p \in Procs : Fire(p)
<1>1. enqueued' # enqueued
  BY DEF TypeOK
<1> USE DEF history
<1>2. ASSUME NEW p \in Procs, ~Fire(p),
             \/ Pass \/ (\E d \in Defs : Add(p, d)) \/ Start(p) \/ Request(p)
             \/ ApiStep(p)
      PROVE  enqueued' = enqueued
  BY <1>2 DEF Pass, Add, Start, Request, Call, ApiStep, EnsureLoaded, Compose, Upsert,
              Publish, StartBare, SetStatus, Delete, NotFound, CacheStatus, PopCache
<1>3. ASSUME NEW p \in Procs, ~Fire(p),
             \/ BeginTick(p) \/ TickStep(p) \/ RollBack(p) \/ LoseLock(p)
             \/ Stop(p) \/ Crash(p)
      PROVE  enqueued' = enqueued
  BY <1>3 DEF BeginTick, TickStep, PassOver, Consider, Settle, LoseClaim, RollBack,
              LoseLock, Stop, Crash
<1>4. CASE UNCHANGED vars
  BY <1>1, <1>4 DEF vars
<1>5. CASE Pass
  BY <1>1, <1>5 DEF Pass
<1> QED BY <1>1, <1>2, <1>3, <1>4, <1>5 DEF Next

\* No run time is enqueued twice, unless an add that took its time before wrote the row
\* after, whichever processes tick, add, pause, remove or die, however stale their caches
\* are, and whoever holds the advisory lock.
THEOREM RunsServedOnce == Spec => OneRunPerSlot
<1>1. ASSUME TypeOK, SlotsAdvance, [Next]_vars, enqueued' > enqueued
      PROVE  served' # served
  <2>1. PICK p \in Procs : Fire(p)
    BY <1>1, OnlyClaimsEnqueue
  <2>2. tick[p].expected \notin served
    BY <1>1, <2>1, FireAdvances
  <2> QED BY <2>1, <2>2 DEF Fire, Dispatch
<1>2. TypeOK /\ SlotsAdvance /\ [Next]_vars
        => [enqueued' > enqueued => served' # served]_vars
  BY <1>1
<1> QED BY <1>2, ScheduleTypes, RunTimesAdvance, PTL DEF Spec, OneRunPerSlot

-----------------------------------------------------------------------------
(* run_count is a lower bound.                                             *)

\* An entry counts at most n runs, a tick will not write more than that.
Below(s, n) == s # NoSched => s.count <= n

TickBelow(t, n) ==
  /\ Below(t.obj, n)
  /\ t.step = "claim" => t.count <= n + 1
  /\ t.step = "fired" => t.count <= n

\* The invariant, entry by entry.
LEMMA CountsByEntry ==
  CountsAreRuns <=>
    /\ Below(row, enqueued)
    /\ \A p \in Procs : /\ Below(cache[p], enqueued)
                        /\ Below(op[p].sched, enqueued)
                        /\ TickBelow(tick[p], enqueued)
BY DEF CountsAreRuns, Below, TickBelow

\* The invariant in the next state, entry by entry.
LEMMA CountsByEntryNext ==
  CountsAreRuns' <=>
    /\ Below(row', enqueued')
    /\ \A p \in Procs : /\ Below(cache'[p], enqueued')
                        /\ Below(op'[p].sched, enqueued')
                        /\ TickBelow(tick'[p], enqueued')
BY DEF CountsAreRuns, Below, TickBelow

\* A call that is called or over carries no entry, and a tick that is over no count.
LEMMA IdleBelow ==
  ASSUME NEW n \in Nat
  PROVE  Below(NoSched, n) /\ Below(NoOp.sched, n) /\ TickBelow(NoTick, n)
BY DEF Below, TickBelow, NoOp, NoTick

\* Ending a tick and detaching its object keep the bound of every tick.
LEMMA TicksStayBelow ==
  ASSUME TypeOK, CountsAreRuns, NEW p \in Procs, EndTick(p) \/ Detach(p)
  PROVE  \A q \in Procs : TickBelow(tick'[q], enqueued)
<1>1. CASE EndTick(p)
  BY <1>1, CountsByEntry, IdleBelow DEF EndTick, TypeOK
<1>2. CASE Detach(p)
  <2> DEFINE t == [tick[p] EXCEPT !.own = FALSE, !.obj = cache[p]]
  <2>1. /\ t.obj = cache[p] /\ t.step = tick[p].step /\ t.count = tick[p].count
    BY DEF TypeOK, Ticks
  <2>2. TickBelow(t, enqueued)
    BY <2>1, CountsByEntry DEF TickBelow
  <2>3. tick' = IF tick[p].step # "none" /\ tick[p].own
                THEN [tick EXCEPT ![p] = t] ELSE tick
    BY <1>2 DEF Detach, TypeOK, Ticks
  <2> HIDE DEF t
  <2> QED BY <2>2, <2>3, CountsByEntry DEF TypeOK
<1> QED BY <1>1, <1>2

\* The steps of the public API keep the bound: a new entry takes the cached count.
LEMMA CallsKeepCounts ==
  ASSUME TypeOK, CountsAreRuns, NEW p \in Procs,
         \/ (\E d \in Defs : Add(p, d)) \/ Start(p) \/ Request(p) \/ ApiStep(p)
  PROVE  CountsAreRuns'
<1> USE DEF history
<1>0. enqueued \in Nat /\ NoOp.sched = NoSched
  BY DEF TypeOK, NoOp
<1>1. ASSUME NEW do, NEW t, NEW d, Call(p, do, t, d)
      PROVE  CountsAreRuns'
  <2> DEFINE o == [NoOp EXCEPT !.do = do, !.step = "called", !.at = t, !.def = d]
  <2>1. o.sched = NoSched
    BY DEF NoOp
  <2>2. op' = [op EXCEPT ![p] = o]
    BY <1>1 DEF Call
  <2> HIDE DEF o
  <2> QED BY <1>1, <2>1, <2>2, CountsByEntry, CountsByEntryNext, IdleBelow, <1>0
          DEF Call, TypeOK
<1>2. CASE EnsureLoaded(p)
  BY <1>2, CountsByEntry, CountsByEntryNext DEF EnsureLoaded, TypeOK
<1>3. CASE Compose(p)
  <2> DEFINE e == [def |-> op[p].def,
                   status |-> IF cache[p] = NoSched THEN "active" ELSE cache[p].status,
                   next |-> NextRun(op[p].def, op[p].at),
                   count |-> IF cache[p] = NoSched THEN 0 ELSE cache[p].count]
             o == [NoOp EXCEPT !.do = op[p].do, !.step = "composed",
                             !.at = op[p].at, !.sched = e]
  <2>1. e.count = IF cache[p] = NoSched THEN 0 ELSE cache[p].count
    OBVIOUS
  <2>2. op' = [op EXCEPT ![p] = o]
    BY <1>3 DEF Compose
  <2> HIDE DEF e
  <2>3. o.sched = e
    BY DEF NoOp
  <2> HIDE DEF o
  <2>4. Below(o.sched, enqueued)
    BY <1>0, <2>1, <2>3, CountsByEntry DEF Below
  <2>5. UNCHANGED <<row, cache, tick, enqueued>>
    BY <1>3 DEF Compose
  <2> QED BY <2>2, <2>4, <2>5, CountsByEntry, CountsByEntryNext DEF TypeOK
<1>4. CASE Upsert(p)
  <2> DEFINE o == [op[p] EXCEPT !.step = "written"]
  <2>1. o.sched = op[p].sched
    BY DEF TypeOK, Ops
  <2>2. op' = [op EXCEPT ![p] = o] /\ row' = op[p].sched /\ UNCHANGED <<cache, tick, enqueued>>
    BY <1>4 DEF Upsert
  <2> HIDE DEF o
  <2> QED BY <2>1, <2>2, CountsByEntry, CountsByEntryNext DEF TypeOK
<1>5. CASE Publish(p) \/ PopCache(p)
  <2>1. \A q \in Procs : TickBelow(tick'[q], enqueued)
    BY <1>5, TicksStayBelow DEF Publish, PopCache
  <2> QED BY <1>5, <2>1, CountsByEntry, CountsByEntryNext, IdleBelow, <1>0
          DEF Publish, PopCache, TypeOK
<1>6. CASE StartBare(p) \/ NotFound(p)
  BY <1>6, CountsByEntry, CountsByEntryNext, IdleBelow, <1>0 DEF StartBare, NotFound, TypeOK
<1>7. CASE SetStatus(p) \/ Delete(p)
  <2> DEFINE o == [op[p] EXCEPT !.step = "written"]
  <2>1. o.sched = op[p].sched
    BY DEF TypeOK, Ops
  <2>2. op' = [op EXCEPT ![p] = o] /\ UNCHANGED <<cache, tick, enqueued>>
    BY <1>7 DEF SetStatus, Delete
  <2>3. Below(row', enqueued)
    BY <1>7, CountsByEntry DEF SetStatus, Delete, TypeOK, Scheds, Below
  <2> HIDE DEF o
  <2> QED BY <2>1, <2>2, <2>3, CountsByEntry, CountsByEntryNext DEF TypeOK
<1>8. CASE CacheStatus(p)
  <2>1. \A q \in Procs : Below(cache'[q], enqueued)
    BY <1>8, CountsByEntry DEF CacheStatus, TypeOK, Scheds, Below
  <2> QED BY <1>8, <2>1, CountsByEntry, CountsByEntryNext, IdleBelow, <1>0
          DEF CacheStatus, TypeOK
<1> QED BY <1>1, <1>2, <1>3, <1>4, <1>5, <1>6, <1>7, <1>8 DEF Add, Start, Request, ApiStep

\* The steps of a tick keep the bound: a claim counts one run more and enqueues one.
LEMMA TicksKeepCounts ==
  ASSUME TypeOK, CountsAreRuns, NEW p \in Procs,
         BeginTick(p) \/ TickStep(p) \/ RollBack(p)
  PROVE  CountsAreRuns'
<1> USE DEF history
<1>0. enqueued \in Nat
  BY DEF TypeOK
<1>1. CASE BeginTick(p)
  <2> DEFINE t == [NoTick EXCEPT !.step = "scan", !.at = now, !.own = TRUE]
  <2>1. TickBelow(t, enqueued)
    BY DEF NoTick, TickBelow, Below
  <2>2. tick' = [tick EXCEPT ![p] = t] /\ UNCHANGED <<row, cache, op, enqueued>>
    BY <1>1 DEF BeginTick
  <2> HIDE DEF t
  <2> QED BY <2>1, <2>2, CountsByEntry, CountsByEntryNext DEF TypeOK
<1>2. CASE PassOver(p) \/ RollBack(p)
  <2>1. \A q \in Procs : TickBelow(tick'[q], enqueued)
    BY <1>2, TicksStayBelow DEF PassOver, RollBack
  <2> QED BY <1>2, <2>1, CountsByEntry, CountsByEntryNext DEF PassOver, RollBack
<1>3. CASE Consider(p)
  <2>1. Entry(p) \in Scheds /\ Below(Entry(p), enqueued)
    BY <1>3, EntryKnown, CountsByEntry DEF Consider, Entry, TickBelow
  <2>2. Entry(p).count \in Nat /\ Entry(p).count <= enqueued
    BY <2>1, Constants DEF Below, Scheds
  <2> DEFINE t == [tick[p] EXCEPT !.step = "claim", !.expected = Entry(p).next,
                                  !.next = NextRun(Entry(p).def, tick[p].at),
                                  !.count = Entry(p).count + 1]
  <2>3. t.step = "claim" /\ t.count = Entry(p).count + 1 /\ t.obj = tick[p].obj
    BY DEF TypeOK, Ticks
  <2>4. tick' = [tick EXCEPT ![p] = t] /\ UNCHANGED <<row, cache, op, enqueued>>
    BY <1>3 DEF Consider, TypeOK, Ticks
  <2> HIDE DEF t
  <2>5. TickBelow(t, enqueued)
    BY <1>0, <2>2, <2>3, CountsByEntry DEF TickBelow
  <2> QED BY <2>4, <2>5, CountsByEntry, CountsByEntryNext DEF TypeOK
<1>4. CASE Fire(p)
  <2> DEFINE t == [NoTick EXCEPT !.step = "fired", !.own = tick[p].own,
                                 !.next = tick[p].next, !.count = tick[p].count]
  <2>1. t.step = "fired" /\ t.count = tick[p].count /\ t.obj = NoSched
    BY DEF NoTick
  <2>2. tick' = [tick EXCEPT ![p] = t] /\ UNCHANGED <<cache, op>> /\ enqueued' = enqueued + 1
    BY <1>4 DEF Fire, Dispatch
  <2>3. tick[p].count \in Nat /\ tick[p].count <= enqueued + 1
    BY <1>4, CountsByEntry DEF Fire, TypeOK, Ticks, TickBelow
  <2>4. row' # NoSched => row'.count = tick[p].count
    BY <1>4 DEF Fire, AsExpected, Dispatch, TypeOK, Scheds
  <2> HIDE DEF t
  <2>5. Below(row', enqueued') /\ TickBelow(t, enqueued')
    BY <2>1, <2>2, <2>3, <2>4 DEF Below, TickBelow
  <2>6. ASSUME NEW s \in Scheds \cup {NoSched}, Below(s, enqueued)
        PROVE  Below(s, enqueued')
    BY <1>0, <2>2, <2>6 DEF Below, Scheds
  <2>7. ASSUME NEW u \in Ticks, TickBelow(u, enqueued)
        PROVE  TickBelow(u, enqueued')
    BY <1>0, <2>2, <2>6, <2>7 DEF TickBelow, Ticks
  <2>8. \A q \in Procs : /\ cache[q] \in Scheds \cup {NoSched}
                         /\ op[q].sched \in Scheds \cup {NoSched}
                         /\ tick[q] \in Ticks
    BY DEF TypeOK, Ops
  <2> QED BY <2>2, <2>5, <2>6, <2>7, <2>8, CountsByEntry, CountsByEntryNext DEF TypeOK
<1>5. CASE Settle(p) \/ LoseClaim(p)
  <2>1. \A q \in Procs : TickBelow(tick'[q], enqueued)
    BY <1>5, TicksStayBelow DEF Settle, LoseClaim
  <2>2. UNCHANGED <<row, op, enqueued>>
    BY <1>5 DEF Settle, LoseClaim
  <2>3. Settle(p) => tick[p].count <= enqueued
    BY CountsByEntry DEF Settle, TickBelow
  <2>4. \A q \in Procs : Below(cache'[q], enqueued)
    <3>1. CASE ~tick[p].own \/ cache' = cache
      BY <1>5, <3>1, CountsByEntry DEF Settle, LoseClaim
    <3>2. CASE tick[p].own /\ cache' # cache
      <4>1. cache[p] \in Scheds
        BY <1>5, <3>2 DEF Settle, LoseClaim, TypeOK, Shape
      <4>2. /\ \A q \in Procs \ {p} : cache'[q] = cache[q]
            /\ \/ Settle(p) /\ cache'[p].count = tick[p].count
               \/ cache'[p].count = cache[p].count
        BY <1>5, <3>2, <4>1 DEF Settle, LoseClaim, TypeOK, Scheds
      <4>3. cache[p].count <= enqueued
        BY <4>1, Constants, CountsByEntry DEF Below
      <4> QED BY <2>3, <4>2, <4>3, CountsByEntry DEF Below
    <3> QED BY <3>1, <3>2
  <2> QED BY <2>1, <2>2, <2>4, CountsByEntry, CountsByEntryNext
<1> QED BY <1>1, <1>2, <1>3, <1>4, <1>5 DEF TickStep

\* The bound holds at first, and every step keeps it.
LEMMA CountsInductive ==
  /\ Init => CountsAreRuns
  /\ TypeOK /\ CountsAreRuns /\ [Next]_vars => CountsAreRuns'
<1>1. Init => CountsAreRuns
  BY IdleBelow, CountsByEntry DEF Init
<1>2. ASSUME TypeOK, CountsAreRuns, [Next]_vars PROVE CountsAreRuns'
  <2> USE DEF history
  <2>1. CASE UNCHANGED vars
    BY <1>2, <2>1 DEF vars, CountsAreRuns
  <2>2. CASE Pass
    BY <1>2, <2>2 DEF Pass, CountsAreRuns
  <2>3. ASSUME NEW p \in Procs, LoseLock(p) \/ Stop(p) \/ Crash(p)
        PROVE  CountsAreRuns'
    <3>1. CASE LoseLock(p)
      BY <1>2, <3>1 DEF LoseLock, CountsAreRuns
    <3>2. CASE Stop(p) \/ Crash(p)
      <4>1. \A q \in Procs : TickBelow(tick'[q], enqueued)
        BY <1>2, <3>2, TicksStayBelow DEF Stop, Crash
      <4>2. enqueued \in Nat
        BY <1>2 DEF TypeOK
      <4> QED BY <1>2, <3>2, <4>1, <4>2, CountsByEntry, CountsByEntryNext, IdleBelow
              DEF Stop, Crash, TypeOK
    <3> QED BY <2>3, <3>1, <3>2
  <2> QED BY <1>2, <2>1, <2>2, <2>3, CallsKeepCounts, TicksKeepCounts DEF Next
<1> QED BY <1>1, <1>2

\* run_count never counts a run that did not happen, whichever stale copy is written.
THEOREM CountsAreLowerBounds == Spec => []CountsAreRuns
BY InitTypes, NextTypes, CountsInductive, PTL DEF Spec

-----------------------------------------------------------------------------
(* A process that has the schedule to itself.                              *)

\* A step of process p.
StepOf(p) ==
  \/ \E d \in Defs : Add(p, d)
  \/ Start(p) \/ Request(p) \/ ApiStep(p)
  \/ BeginTick(p) \/ TickStep(p) \/ RollBack(p)
  \/ LoseLock(p) \/ Stop(p) \/ Crash(p)

\* What a process is in comes in order: no step of a call without a call, no loop before the
\* cache is loaded, and no tick without a loop.
Order ==
  \A p \in Procs :
    /\ op[p].do = "none" => op[p].step = "none"
    /\ loop[p] = "on" => loaded[p]
    /\ tick[p].step # "none" => loop[p] = "on"

\* The cached entry c may trail the row r, but has the same definition.
Trails(c, r) == c # NoSched /\ r # NoSched /\ c.def = r.def /\ c.next <= r.next

Adding(o) == o.step = "written" /\ o.do \in {"add", "start"}

\* How the row r and the cached entry c of the only user agree, given how far its call o
\* has come: a call has written the row, a claim has moved it, and the entry is
\* about to follow.
Agree(r, c, o) ==
  /\ o.step # "written" => \/ r = NoSched /\ c = NoSched
                           \/ Trails(c, r) /\ c.status = r.status
  /\ Adding(o) => Trails(o.sched, r) /\ o.sched.status = r.status
  /\ o.step = "written" /\ o.do \in {"pause", "resume"} =>
       Trails(c, r) /\ r.status = StatusOf[o.do]
  /\ o.step = "written" /\ o.do = "remove" => r = NoSched

\* A claim that its tick has still to copy into the entry is one that the row has.
Claimed(r, o, t) ==
  t.step = "fired" /\ t.own /\ r # NoSched /\ ~Adding(o) => t.next <= r.next

InStep(p) ==
  /\ loaded[p] => Agree(row, cache[p], op[p])
  /\ Claimed(row, op[p], tick[p])

Alone(p) == \A q \in Procs \ {p} : q \notin CanCrash /\ Absent(q)

SoleInv == \A p \in Procs : Alone(p) => InStep(p)

\* A step of p changes nothing of another process.
LEMMA OthersStay ==
  ASSUME TypeOK, NEW p \in Procs, StepOf(p), NEW q \in Procs, q # p
  PROVE  /\ loaded'[q] = loaded[q] /\ cache'[q] = cache[q] /\ op'[q] = op[q]
         /\ loop'[q] = loop[q] /\ tick'[q] = tick[q]
<1> USE DEF TypeOK
<1>1. CASE (\E d \in Defs : Add(p, d)) \/ Start(p) \/ Request(p)
  BY <1>1 DEF Add, Start, Request, Call
<1>2. CASE ApiStep(p)
  BY <1>2 DEF ApiStep, EnsureLoaded, Compose, Upsert, Publish, StartBare, SetStatus, Delete,
     NotFound, CacheStatus, PopCache, Detach
<1>3. CASE BeginTick(p) \/ TickStep(p) \/ RollBack(p) \/ LoseLock(p) \/ Stop(p) \/ Crash(p)
  BY <1>3 DEF BeginTick, TickStep, PassOver, Consider, Fire, Dispatch, Settle, LoseClaim,
     RollBack, LoseLock, Stop, Crash, EndTick
<1> QED BY <1>1, <1>2, <1>3 DEF StepOf

\* The steps of p keep its own order.
LEMMA OwnOrder ==
  ASSUME TypeOK, Order, NEW p \in Procs, StepOf(p)
  PROVE  /\ op'[p].do = "none" => op'[p].step = "none"
         /\ loop'[p] = "on" => loaded'[p]
         /\ tick'[p].step # "none" => loop'[p] = "on"
<1> USE DEF Order
<1>0. NoOp.do = "none" /\ NoOp.step = "none" /\ NoTick.step = "none"
  BY Constants
<1>1. ASSUME NEW do \in {"add", "start", "pause", "resume", "remove"},
             NEW t \in 0 .. Horizon, NEW d, Call(p, do, t, d)
      PROVE  op'[p].do # "none" /\ UNCHANGED <<loaded, loop, tick>>
  BY <1>1 DEF Call, TypeOK, NoOp
<1>2. CASE (\E d \in Defs : Add(p, d)) \/ Start(p) \/ Request(p)
  BY <1>1, <1>2, Constants DEF Add, Start, Request, TypeOK
<1>3. CASE EnsureLoaded(p)
  BY <1>3 DEF EnsureLoaded, TypeOK
<1>4. CASE Compose(p)
  <2> DEFINE e == [def |-> op[p].def,
                   status |-> IF cache[p] = NoSched THEN "active" ELSE cache[p].status,
                   next |-> NextRun(op[p].def, op[p].at),
                   count |-> IF cache[p] = NoSched THEN 0 ELSE cache[p].count]
  <2>1. /\ op' = [op EXCEPT ![p] =
                   [NoOp EXCEPT !.do = op[p].do, !.step = "composed",
                             !.at = op[p].at, !.sched = e]]
        /\ op[p].do # "none" /\ UNCHANGED <<loaded, loop, tick>>
    BY <1>4 DEF Compose
  <2> HIDE DEF e
  <2> QED BY <2>1 DEF TypeOK, NoOp
<1>5. CASE Upsert(p) \/ SetStatus(p) \/ Delete(p)
  <2>1. op[p].do # "none"
    BY <1>5 DEF Upsert, SetStatus, Delete, TypeOK, Shape
  <2>2. op' = [op EXCEPT ![p] = [op[p] EXCEPT !.step = "written"]] /\ op[p] \in Ops
    BY <1>5 DEF Upsert, SetStatus, Delete, TypeOK
  <2>3. op'[p].do = op[p].do
    BY <2>2 DEF TypeOK, Ops
  <2> QED BY <1>5, <2>1, <2>3 DEF Upsert, SetStatus, Delete
<1>6. CASE Publish(p) \/ PopCache(p)
  <2>1. loaded[p] /\ UNCHANGED loaded /\ op'[p] = NoOp
    BY <1>6 DEF Publish, PopCache, TypeOK, Shape
  <2>2. tick'[p].step = tick[p].step
    BY <1>6 DEF Publish, PopCache, Detach, TypeOK, Ticks
  <2>3. loop[p] = "on" => loop'[p] = "on"
    BY <1>6 DEF Publish, PopCache, TypeOK
  <2> QED BY <1>0, <2>1, <2>2, <2>3
<1>7. CASE StartBare(p) \/ NotFound(p) \/ CacheStatus(p)
  BY <1>0, <1>7 DEF StartBare, NotFound, CacheStatus, TypeOK
<1>8. CASE BeginTick(p) \/ Consider(p) \/ Fire(p)
  BY <1>8 DEF BeginTick, Consider, Fire, Dispatch
<1>9. CASE PassOver(p) \/ Settle(p) \/ LoseClaim(p) \/ RollBack(p) \/ Stop(p) \/ Crash(p)
  <2>1. tick'[p] = NoTick
    BY <1>9 DEF PassOver, Settle, LoseClaim, RollBack, Stop, Crash, EndTick, TypeOK
  <2>2. loop'[p] = "on" => loaded'[p]
    BY <1>9 DEF PassOver, Settle, LoseClaim, RollBack, Stop, Crash, TypeOK
  <2>3. op'[p] = op[p] \/ op'[p] = NoOp
    BY <1>9 DEF PassOver, Settle, LoseClaim, RollBack, Stop, Crash, TypeOK
  <2> QED BY <1>0, <2>1, <2>2, <2>3
<1>10. CASE LoseLock(p)
  BY <1>10 DEF LoseLock
<1> QED BY <1>2, <1>3, <1>4, <1>5, <1>6, <1>7, <1>8, <1>9, <1>10 DEF StepOf, ApiStep, TickStep

LEMMA OrderInductive ==
  /\ Init => Order
  /\ TypeOK /\ Order /\ [Next]_vars => Order'
<1>1. Init => Order
  BY Constants DEF Init, Order
<1>2. ASSUME TypeOK, Order, NEW p \in Procs, StepOf(p) PROVE Order'
  BY <1>2, OthersStay, OwnOrder DEF Order
<1>3. ASSUME Order, Pass \/ UNCHANGED vars PROVE Order'
  BY <1>3 DEF Pass, vars, Order
<1> QED BY <1>1, <1>2, <1>3 DEF Next, StepOf

\* A process that neither dies nor is absent does not become absent, and one that is and
\* stays so has left the schedule alone.
LEMMA AbsentStays ==
  ASSUME TypeOK, Order, NEW q \in Procs, StepOf(q), q \notin CanCrash, Absent(q)'
  PROVE  UNCHANGED <<row, loaded, cache, op, loop, tick>>
<1>1. ~loaded[q] \/ loaded'[q]
  <2>1. ~Crash(q)
    BY DEF Crash
  <2> QED BY <2>1 DEF StepOf, Add, Start, Request, Call, ApiStep, EnsureLoaded, Compose,
       Upsert, Publish, StartBare, SetStatus, Delete, NotFound, CacheStatus, PopCache,
       BeginTick, TickStep, PassOver, Consider, Fire, Dispatch, Settle, LoseClaim, RollBack,
       LoseLock, Stop, TypeOK
<1>2. /\ ~loaded[q] /\ loop[q] = "off" /\ tick[q].step = "none"
      /\ op[q].step \notin {"composed", "written"}
  BY <1>1 DEF Absent, Order, TypeOK, Shape
<1>3. ASSUME NEW do \in {"add", "start", "pause", "resume", "remove"}, NEW t, NEW d
      PROVE  ~Call(q, do, t, d)
  <2>1. ASSUME Call(q, do, t, d) PROVE op'[q] # NoOp
    BY <2>1 DEF Call, TypeOK, NoOp
  <2> QED BY <2>1 DEF Absent
<1>4. /\ \A d \in Defs : ~Add(q, d)
      /\ ~Start(q) /\ ~Request(q)
  BY <1>3 DEF Add, Start, Request
<1>5. ~EnsureLoaded(q)
  BY DEF EnsureLoaded, Absent, TypeOK
<1>6. ~ApiStep(q)
  BY <1>2, <1>5 DEF ApiStep, Compose, Upsert, Publish, StartBare, SetStatus, Delete,
     NotFound, CacheStatus, PopCache
<1>7. /\ ~BeginTick(q) /\ ~TickStep(q) /\ ~RollBack(q) /\ ~Stop(q) /\ ~Crash(q)
  BY <1>2 DEF BeginTick, TickStep, PassOver, Consider, Fire, Settle, LoseClaim, RollBack,
     Stop, Crash
<1> QED BY <1>4, <1>6, <1>7 DEF StepOf, LoseLock

-----------------------------------------------------------------------------
(* The steps of the only user.                                             *)

\* What the types say of the row, and of the entry, the call and the tick of p.
LEMMA OwnTypes ==
  ASSUME TypeOK, NEW p \in Procs
  PROVE  /\ row \in Scheds \cup {NoSched} /\ cache[p] \in Scheds \cup {NoSched}
         /\ op[p] \in Ops /\ op[p].sched \in Scheds \cup {NoSched} /\ tick[p] \in Ticks
         /\ loaded[p] \in BOOLEAN
BY DEF TypeOK, Ops

LEMMA CallsStayInStep ==
  ASSUME TypeOK, Order, NEW p \in Procs, InStep(p),
         (\E d \in Defs : Add(p, d)) \/ Start(p) \/ Request(p)
  PROVE  InStep(p)'
<1>1. ASSUME NEW do \in {"add", "start", "pause", "resume", "remove"},
             NEW t \in 0 .. Horizon, NEW d, Call(p, do, t, d)
      PROVE  InStep(p)'
  <2>1. /\ op[p].step = "none" /\ op'[p].step = "called"
        /\ UNCHANGED <<row, loaded, cache, tick>>
    BY <1>1 DEF Call, TypeOK, NoOp, Order
  <2> QED BY <2>1 DEF InStep, Agree, Claimed, Adding
<1> QED BY <1>1, Constants DEF Add, Start, Request, TypeOK

LEMMA AddsStayInStep ==
  ASSUME TypeOK, NEW p \in Procs, InStep(p),
         EnsureLoaded(p) \/ Compose(p) \/ Upsert(p) \/ Publish(p) \/ StartBare(p)
  PROVE  InStep(p)'
<1>0. NoOp.step = "none"
  BY Constants
<1>1. CASE EnsureLoaded(p)
  <2>1. /\ ~loaded[p] /\ cache'[p] = row /\ UNCHANGED <<row, op, tick>>
    BY <1>1 DEF EnsureLoaded, TypeOK
  <2>2. op[p].step # "written"
    BY <2>1 DEF TypeOK, Shape
  <2>3. row # NoSched => row.next \in Nat
    BY DEF TypeOK, Scheds
  <2>4. Agree(row', cache'[p], op'[p])
    BY <2>1, <2>2, <2>3 DEF Agree, Adding, Trails
  <2> QED BY <2>1, <2>4 DEF InStep
<1>2. CASE Compose(p)
  <2> DEFINE e == [def |-> op[p].def,
                   status |-> IF cache[p] = NoSched THEN "active" ELSE cache[p].status,
                   next |-> NextRun(op[p].def, op[p].at),
                   count |-> IF cache[p] = NoSched THEN 0 ELSE cache[p].count]
  <2>1. /\ op' = [op EXCEPT ![p] =
                   [NoOp EXCEPT !.do = op[p].do, !.step = "composed",
                             !.at = op[p].at, !.sched = e]]
        /\ op[p].step = "called" /\ UNCHANGED <<row, loaded, cache, tick>>
    BY <1>2 DEF Compose
  <2> HIDE DEF e
  <2>2. op'[p].step = "composed"
    BY <2>1 DEF TypeOK, NoOp
  <2> QED BY <2>1, <2>2 DEF InStep, Agree, Claimed, Adding
<1>3. CASE Upsert(p)
  <2>1. /\ row' = op[p].sched /\ op' = [op EXCEPT ![p] = [op[p] EXCEPT !.step = "written"]]
        /\ UNCHANGED <<loaded, cache, tick>> /\ op[p].step = "composed"
    BY <1>3 DEF Upsert, TypeOK
  <2>2. op[p].do \in {"add", "start"} /\ op[p].sched \in Scheds /\ op[p].sched # NoSched
    BY <2>1, OwnTypes DEF TypeOK, Shape
  <2>3. op'[p].step = "written" /\ op'[p].do = op[p].do /\ op'[p].sched = op[p].sched
    BY <2>1, OwnTypes DEF TypeOK, Ops
  <2>4. op[p].sched.next \in Nat
    BY <2>2 DEF Scheds
  <2> QED BY <2>1, <2>2, <2>3, <2>4 DEF InStep, Agree, Claimed, Adding, Trails
<1>4. CASE Publish(p)
  <2>1. /\ cache'[p] = op[p].sched /\ op'[p] = NoOp /\ UNCHANGED <<row, loaded>>
        /\ Adding(op[p]) /\ Detach(p)
    BY <1>4 DEF Publish, TypeOK, Adding
  <2>2. tick'[p].step # "none" => ~tick'[p].own
    BY <2>1 DEF Detach, TypeOK, Ticks
  <2>3. loaded[p]
    BY <2>1 DEF Adding, TypeOK, Shape
  <2> QED BY <1>0, <2>1, <2>2, <2>3 DEF InStep, Agree, Claimed, Adding
<1>5. CASE StartBare(p)
  <2>1. op[p].step = "called" /\ op'[p] = NoOp /\ UNCHANGED <<row, loaded, cache, tick>>
    BY <1>5 DEF StartBare, TypeOK
  <2> QED BY <1>0, <2>1 DEF InStep, Agree, Claimed, Adding
<1> QED BY <1>1, <1>2, <1>3, <1>4, <1>5

LEMMA StatusStaysInStep ==
  ASSUME TypeOK, NEW p \in Procs, InStep(p),
         SetStatus(p) \/ Delete(p) \/ NotFound(p) \/ CacheStatus(p) \/ PopCache(p)
  PROVE  InStep(p)'
<1>0. NoOp.step = "none"
  BY Constants
<1>1. CASE SetStatus(p)
  <2>1. /\ op[p].step = "called" /\ op[p].do \in {"pause", "resume"} /\ loaded[p]
        /\ row # NoSched /\ row' = [row EXCEPT !.status = StatusOf[op[p].do]]
        /\ op' = [op EXCEPT ![p] = [op[p] EXCEPT !.step = "written"]]
        /\ UNCHANGED <<loaded, cache, tick>>
    BY <1>1 DEF SetStatus, TypeOK
  <2>2. op'[p].step = "written" /\ op'[p].do = op[p].do
    BY <2>1, OwnTypes DEF TypeOK, Ops
  <2>3. row \in Scheds /\ StatusOf[op[p].do] \in {"active", "paused"}
    BY <2>1, OwnTypes DEF StatusOf
  <2>4. /\ row'.def = row.def /\ row'.next = row.next /\ row'.status = StatusOf[op[p].do]
        /\ row' \in Scheds /\ row' # NoSched
    BY <2>1, <2>3, Constants DEF Scheds
  <2>5. Trails(cache[p], row)
    BY <2>1 DEF InStep, Agree
  <2>6. Agree(row', cache'[p], op'[p])
    BY <2>1, <2>2, <2>4, <2>5 DEF Agree, Adding, Trails
  <2>7. Claimed(row', op'[p], tick'[p])
    BY <2>1, <2>2, <2>4 DEF InStep, Claimed, Adding
  <2> QED BY <2>6, <2>7 DEF InStep
<1>2. CASE Delete(p)
  <2>1. /\ op[p].step = "called" /\ op[p].do = "remove" /\ row' = NoSched
        /\ op' = [op EXCEPT ![p] = [op[p] EXCEPT !.step = "written"]]
    BY <1>2 DEF Delete, TypeOK
  <2>2. op'[p].step = "written" /\ op'[p].do = "remove"
    BY <2>1, OwnTypes DEF TypeOK, Ops
  <2> QED BY <2>1, <2>2 DEF InStep, Agree, Claimed, Adding
<1>3. CASE NotFound(p)
  <2>1. op[p].step = "called" /\ op'[p] = NoOp /\ UNCHANGED <<row, loaded, cache, tick>>
    BY <1>3 DEF NotFound, TypeOK
  <2> QED BY <1>0, <2>1 DEF InStep, Agree, Claimed, Adding
<1>4. CASE CacheStatus(p)
  <2>1. /\ op[p].step = "written" /\ op[p].do \in {"pause", "resume"} /\ op'[p] = NoOp
        /\ UNCHANGED <<row, loaded, tick>> /\ loaded[p]
    BY <1>4 DEF CacheStatus, TypeOK, Shape
  <2>2. Trails(cache[p], row) /\ row.status = StatusOf[op[p].do]
    BY <2>1 DEF InStep, Agree
  <2>3. cache[p] \in Scheds /\ cache[p] # NoSched
    BY <2>2, OwnTypes DEF Trails
  <2> DEFINE e == [cache[p] EXCEPT !.status = StatusOf[op[p].do]]
  <2>4. cache' = [cache EXCEPT ![p] = e]
    BY <1>4, <2>3 DEF CacheStatus
  <2>5. /\ e.def = cache[p].def /\ e.next = cache[p].next /\ e.status = StatusOf[op[p].do]
        /\ e \in Scheds
    BY <2>1, <2>3 DEF Scheds, StatusOf
  <2> HIDE DEF e
  <2>6. cache'[p] = e /\ e # NoSched
    BY <2>4, <2>5, Constants DEF TypeOK
  <2>7. Agree(row', cache'[p], op'[p])
    BY <1>0, <2>1, <2>2, <2>5, <2>6 DEF Agree, Adding, Trails
  <2>8. Claimed(row', op'[p], tick'[p])
    BY <1>0, <2>1 DEF InStep, Claimed, Adding
  <2> QED BY <2>7, <2>8 DEF InStep
<1>5. CASE PopCache(p)
  <2>1. /\ cache'[p] = NoSched /\ op'[p] = NoOp /\ UNCHANGED <<row, loaded>>
        /\ op[p].step = "written" /\ op[p].do = "remove" /\ loaded[p]
    BY <1>5 DEF PopCache, TypeOK, Shape
  <2>2. row = NoSched
    BY <2>1 DEF InStep, Agree
  <2> QED BY <1>0, <2>1, <2>2 DEF InStep, Agree, Claimed, Adding
<1> QED BY <1>1, <1>2, <1>3, <1>4, <1>5

\* The entry's next_run moves; the rest of the agreement stays.
LEMMA NextMoves ==
  ASSUME NEW r, NEW c \in Scheds, NEW o, NEW e, Agree(r, c, o),
         e \in Scheds, e.def = c.def, e.status = c.status,
         r # NoSched /\ ~Adding(o) => e.next <= r.next
  PROVE  Agree(r, e, o)
BY Constants DEF Agree, Trails, Adding

LEMMA TicksStayInStep ==
  ASSUME TypeOK, SlotsAdvance, NEW p \in Procs, InStep(p),
         BeginTick(p) \/ TickStep(p) \/ RollBack(p) \/ LoseLock(p)
  PROVE  InStep(p)'
<1>0. NoTick.step = "none"
  BY Constants
<1>1. ASSUME UNCHANGED <<row, loaded, cache, op>>, tick'[p].step # "fired"
      PROVE  InStep(p)'
  BY <1>1 DEF InStep, Agree, Claimed
<1>2. CASE BeginTick(p)
  <2>1. UNCHANGED <<row, loaded, cache, op>> /\ tick'[p].step = "scan"
    BY <1>2 DEF BeginTick, TypeOK, NoTick
  <2> QED BY <1>1, <2>1
<1>3. CASE PassOver(p) \/ RollBack(p)
  <2>1. UNCHANGED <<row, loaded, cache, op>> /\ tick'[p] = NoTick
    BY <1>3 DEF PassOver, RollBack, EndTick, TypeOK
  <2> QED BY <1>0, <1>1, <2>1
<1>4. CASE Consider(p)
  <2> DEFINE n == NextRun(Entry(p).def, tick[p].at)
             t == [tick[p] EXCEPT !.step = "claim", !.expected = Entry(p).next,
                                  !.next = n, !.count = Entry(p).count + 1]
  <2>1. tick' = [tick EXCEPT ![p] = t] /\ UNCHANGED <<row, loaded, cache, op>>
    BY <1>4 DEF Consider, TypeOK, Ticks
  <2>2. t.step = "claim"
    BY OwnTypes DEF Ticks
  <2> HIDE DEF t
  <2>3. tick'[p].step = "claim"
    BY <2>1, <2>2 DEF TypeOK
  <2> QED BY <1>1, <2>1, <2>3
<1>5. CASE LoseLock(p)
  BY <1>5 DEF LoseLock, InStep
<1>6. CASE Fire(p)
  <2>1. /\ tick[p].step = "claim" /\ row # NoSched /\ row.next = tick[p].expected
        /\ row' = [row EXCEPT !.next = tick[p].next, !.count = tick[p].count]
        /\ UNCHANGED <<loaded, cache, op>>
    BY <1>6 DEF Fire, AsExpected, Dispatch
  <2>2. tick[p].expected \in Nat /\ tick[p].at \in Nat /\ tick[p].next \in Nat
    BY OwnTypes, Constants DEF Ticks
  <2>3. tick[p].expected < tick[p].next
    BY <2>1, <2>2 DEF SlotsAdvance
  <2>4. row \in Scheds /\ tick[p].count \in Nat
    BY <2>1, OwnTypes DEF Ticks
  <2>5. /\ row'.def = row.def /\ row'.status = row.status /\ row'.next = tick[p].next
        /\ row' \in Scheds /\ row' # NoSched
    BY <2>1, <2>2, <2>4, Constants DEF Scheds
  <2>6. ASSUME NEW c \in Scheds \cup {NoSched}, Trails(c, row) PROVE Trails(c, row')
    BY <2>1, <2>2, <2>3, <2>5, <2>6 DEF Trails, Scheds
  <2>7. loaded[p] => Agree(row', cache[p], op[p])
    BY <2>1, <2>5, <2>6, OwnTypes DEF InStep, Agree
  <2> DEFINE t == [NoTick EXCEPT !.step = "fired", !.own = tick[p].own,
                                 !.next = tick[p].next, !.count = tick[p].count]
  <2>8. tick' = [tick EXCEPT ![p] = t] /\ t.next = tick[p].next
    BY <1>6 DEF Fire, Dispatch, NoTick
  <2> HIDE DEF t
  <2>9. tick'[p].next = row'.next
    BY <2>5, <2>8 DEF TypeOK
  <2>10. Claimed(row', op'[p], tick'[p])
    BY <2>2, <2>5, <2>9 DEF Claimed
  <2> QED BY <2>1, <2>7, <2>10 DEF InStep
<1>7. CASE Settle(p) \/ LoseClaim(p)
  <2>1. tick'[p] = NoTick /\ UNCHANGED <<row, loaded, op>>
    BY <1>7 DEF Settle, LoseClaim, EndTick, TypeOK
  <2>2. CASE cache' = cache
    BY <1>0, <1>1, <2>1, <2>2
  <2>3. CASE Settle(p) /\ tick[p].own
    <3> DEFINE e == [cache[p] EXCEPT !.next = tick[p].next, !.count = tick[p].count]
    <3>1. cache' = [cache EXCEPT ![p] = e] /\ tick[p].step = "fired"
      BY <2>3 DEF Settle
    <3>2. cache[p] \in Scheds /\ tick[p].next \in Nat /\ tick[p].count \in Nat
      BY <2>3, <3>1, OwnTypes DEF TypeOK, Shape, Ticks
    <3>3. /\ e \in Scheds /\ e.def = cache[p].def /\ e.status = cache[p].status
          /\ e.next = tick[p].next
      BY <3>2 DEF Scheds
    <3> HIDE DEF e
    <3>4. row # NoSched /\ ~Adding(op[p]) => e.next <= row.next
      BY <2>3, <3>1, <3>3 DEF InStep, Claimed
    <3>5. loaded[p] => Agree(row, e, op[p])
      BY <3>2, <3>3, <3>4, NextMoves DEF InStep
    <3>6. cache'[p] = e
      BY <3>1 DEF TypeOK
    <3> QED BY <1>0, <2>1, <3>5, <3>6 DEF InStep, Claimed
  <2>4. CASE LoseClaim(p) /\ tick[p].own /\ row # NoSched
    <3> DEFINE e == [cache[p] EXCEPT !.next = row.next]
    <3>1. cache' = [cache EXCEPT ![p] = e] /\ tick[p].step = "claim"
      BY <2>4 DEF LoseClaim
    <3>2. cache[p] \in Scheds /\ row.next \in Nat
      BY <2>4, <3>1, OwnTypes DEF TypeOK, Shape, Scheds
    <3>3. /\ e \in Scheds /\ e.def = cache[p].def /\ e.status = cache[p].status
          /\ e.next = row.next
      BY <3>2 DEF Scheds
    <3> HIDE DEF e
    <3>4. loaded[p] => Agree(row, e, op[p])
      BY <3>2, <3>3, NextMoves DEF InStep
    <3>5. cache'[p] = e
      BY <3>1 DEF TypeOK
    <3> QED BY <1>0, <2>1, <3>4, <3>5 DEF InStep, Claimed
  <2> QED BY <1>7, <2>2, <2>3, <2>4 DEF Settle, LoseClaim
<1> QED BY <1>2, <1>3, <1>4, <1>5, <1>6, <1>7 DEF TickStep

LEMMA EndsStayInStep ==
  ASSUME TypeOK, NEW p \in Procs, InStep(p), Stop(p) \/ Crash(p)
  PROVE  InStep(p)'
<1>1. tick'[p].step = "none" /\ row' = row
  BY Constants DEF Stop, Crash, EndTick, TypeOK
<1>2. CASE Stop(p)
  BY <1>1, <1>2 DEF Stop, InStep, Agree, Claimed
<1>3. CASE Crash(p)
  BY <1>1, <1>3 DEF Crash, InStep, Claimed, TypeOK
<1> QED BY <1>2, <1>3

LEMMA SoleInductive ==
  /\ Init => SoleInv
  /\ TypeOK /\ SlotsAdvance /\ Order /\ SoleInv /\ [Next]_vars => SoleInv'
<1>1. Init => SoleInv
  BY Constants DEF Init, SoleInv, InStep, Claimed
<1>2. ASSUME TypeOK, SlotsAdvance, Order, SoleInv, [Next]_vars, NEW p \in Procs, Alone(p)'
      PROVE  InStep(p)'
  <2>1. CASE Pass \/ UNCHANGED vars
    <3>1. UNCHANGED <<row, loaded, cache, op, loop, tick>>
      BY <2>1 DEF Pass, vars
    <3>2. Alone(p)
      BY <1>2, <3>1 DEF Alone, Absent
    <3> QED BY <1>2, <3>1, <3>2 DEF SoleInv, InStep
  <2>2. ASSUME StepOf(p) PROVE InStep(p)'
    <3>1. Alone(p)
      BY <1>2, <2>2, OthersStay DEF Alone, Absent
    <3>2. InStep(p)
      BY <1>2, <3>1 DEF SoleInv
    <3> QED BY <1>2, <2>2, <3>2, CallsStayInStep, AddsStayInStep, StatusStaysInStep,
               TicksStayInStep, EndsStayInStep DEF StepOf, ApiStep
  <2>3. ASSUME NEW q \in Procs, q # p, StepOf(q) PROVE InStep(p)'
    <3>1. UNCHANGED <<row, loaded, cache, op, loop, tick>>
      BY <1>2, <2>3, AbsentStays DEF Alone
    <3>2. Alone(p)
      BY <1>2, <3>1 DEF Alone, Absent
    <3> QED BY <1>2, <3>1, <3>2 DEF SoleInv, InStep
  <2> QED BY <1>2, <2>1, <2>2, <2>3 DEF Next, StepOf
<1>3. ASSUME TypeOK, SlotsAdvance, Order, SoleInv, [Next]_vars PROVE SoleInv'
  BY <1>2, <1>3 DEF SoleInv
<1> QED BY <1>1, <1>3

\* Whatever calls, ticks, failed transactions, stops and restarts its life is made of, the
\* only process to use a schedule has the row in its cache between two calls.
THEOREM SoleUserInSync == Spec => []SoleProcessInSync
<1>1. SoleInv => SoleProcessInSync
  <2> SUFFICES ASSUME SoleInv, NEW p \in Procs, Alone(p), loaded[p], op[p] = NoOp
               PROVE  InSync(p)
    BY DEF SoleProcessInSync, Alone, InSync
  <2>1. Agree(row, cache[p], op[p]) /\ op[p].step = "none"
    BY Constants DEF SoleInv, InStep
  <2> QED BY <2>1 DEF Agree, Trails, InSync
<1>2. Init => TypeOK /\ SlotsAdvance /\ Order /\ SoleInv
  BY InitTypes, SlotsAdvanceInductive, OrderInductive, SoleInductive
<1>3. /\ TypeOK /\ SlotsAdvance /\ Order /\ SoleInv /\ [Next]_vars
      => (TypeOK /\ SlotsAdvance /\ Order /\ SoleInv)'
  BY NextTypes, SlotsAdvanceInductive, OrderInductive, SoleInductive
<1> QED BY <1>1, <1>2, <1>3, PTL DEF Spec

=============================================================================
