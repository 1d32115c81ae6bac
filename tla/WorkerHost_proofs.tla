--------------------------- MODULE WorkerHost_proofs ---------------------------
(***************************************************************************)
(* Theorems about WorkerHost, for any number of slots and jobs and any     *)
(* sizes of the two pools.  They are about its safety alone: the proofs    *)
(* use Init and Next, and none of the fairness of Spec.                    *)
(***************************************************************************)
EXTENDS WorkerHost, FiniteSetTheorems, TLAPS

\* A slot in one of these phases has a job.
Working == {"async", "permit", "submitted", "threaded", "wantWrite", "writing"}

SlotOK(s) ==
  /\ slot[s].phase \in Working => slot[s].job \in Jobs /\ job[slot[s].job] = "held"
  /\ slot[s].phase \in {"wantWrite", "writing"} /\ slot[s].outcome # "settled" =>
       runs[slot[s].job] < MaxAttempts[slot[s].job]

JobOK(j) ==
  /\ job[j] \in {"unborn", "queued", "soon"} => runs[j] < MaxAttempts[j]
  /\ job[j] = "held" => runs[j] > 0
  /\ job[j] = "unborn" => runs[j] = 0

\* No two slots work on one job.
Exclusive ==
  \A s, t \in Slots :
    s # t /\ slot[s].phase \in Working /\ slot[t].phase \in Working =>
      slot[s].job # slot[t].job

Places == (\A s \in Slots : SlotOK(s)) /\ (\A j \in Jobs : JobOK(j)) /\ Exclusive

-----------------------------------------------------------------------------
(* Deadlines.                                                              *)

\* Only a slot that sleeps, or is about to, and one that has just written a short retry
\* carry deadlines.
Carried == \A s \in Slots :
  slot[s].until # {} => slot[s].phase \in {"starting", "asleep", "wrote"}

\* A deadline is of an attempt that has ended.
Over(d) == d[2] < runs[d[1]] \/ (d[2] = runs[d[1]] /\ job[d[1]] # "held")
Known == wake \cup UNION {slot[s].until : s \in Slots}

\* The deadline of a slot that has just written is new.
New == \A s \in Slots : slot[s].phase = "wrote" =>
  /\ slot[s].until \cap wake = {}
  /\ \A t \in Slots \ {s} : slot[s].until \cap slot[t].until = {}

Due(j) == <<j, runs[j]>>

\* A short retry that waits has its deadline ahead, or a slot is about to push it.
Waiting == \A j \in Jobs : job[j] = "soon" =>
  \/ Due(j) \in wake \ passed
  \/ \E s \in Slots : slot[s].phase = "wrote" /\ Due(j) \in slot[s].until

\* One that has come due is still known, or some slot has yet to look.
Noticed == \A j \in Jobs : job[j] = "queued" /\ runs[j] > 0 =>
  \/ Due(j) \in Known
  \/ \E s \in Slots : slot[s].phase \notin {"starting", "asleep", "empty"}

\* Each deadline has a slot that does not sleep past it, or one that is up.
Watched == \A d \in wake :
  \/ \E s \in Slots : slot[s].phase \notin {"starting", "asleep"}
  \/ \E s \in Slots : Sleepless(s) \/ d \in slot[s].until

Deadlined == Carried /\ (\A d \in Known : Over(d)) /\ New /\ Waiting /\ Noticed /\ Watched

Inv == TypeOK /\ Places /\ PermitsMatchThreads /\ Deadlined

-----------------------------------------------------------------------------
(* Records and sets.                                                       *)

LEMMA Records ==
  /\ Ready \in SlotTypes /\ Ready.phase = "wantFetch" /\ Ready.job = NoJob
  /\ Ready.until = {}
  /\ Awake \in SlotTypes /\ Awake.phase = "cycle" /\ Awake.until = {}
  /\ SyncPool \in Nat /\ IsFiniteSet(Slots) /\ MaxAttempts \in [Jobs -> Nat \ {0}]
<1>1. /\ Ready \in SlotTypes /\ Ready.phase = "wantFetch" /\ Ready.job = NoJob
      /\ Ready.until = {}
  BY DEF Ready, SlotTypes, Phases, Outcomes
<1>2. Awake \in SlotTypes /\ Awake.phase = "cycle" /\ Awake.until = {}
  BY DEF Awake, Ready, SlotTypes, Phases, Outcomes
<1> QED BY <1>1, <1>2, WorkerHostAssumption DEF WorkerHostAssumption

LEMMA SlotFields ==
  ASSUME NEW r \in SlotTypes
  PROVE  /\ r.phase \in Phases /\ r.job \in Jobs \cup {NoJob} /\ r.outcome \in Outcomes
         /\ r.until \subseteq Deadlines
BY DEF SlotTypes

LEMMA DeadlineFields ==
  /\ \A d \in Deadlines : d = <<d[1], d[2]>> /\ d[1] \in Jobs /\ d[2] \in Nat /\ d[2] > 0
  /\ \A j \in Jobs, n \in Nat : 0 < n /\ n <= MaxAttempts[j] => <<j, n>> \in Deadlines
BY Records DEF Deadlines

\* Only slot s changes.
Only(s) == slot' \in [Slots -> SlotTypes] /\ \A t \in Slots \ {s} : slot'[t] = slot[t]

LEMMA OnlySet ==
  ASSUME slot \in [Slots -> SlotTypes], NEW s \in Slots, NEW r \in SlotTypes,
         slot' = [slot EXCEPT ![s] = r]
  PROVE  Only(s) /\ slot'[s] = r
BY DEF Only

LEMMA OnlyGoTo ==
  ASSUME slot \in [Slots -> SlotTypes], NEW s \in Slots, NEW p \in Phases, GoTo(s, p)
  PROVE  /\ Only(s) /\ slot'[s].phase = p /\ slot'[s].job = slot[s].job
         /\ slot'[s].outcome = slot[s].outcome /\ slot'[s].until = slot[s].until
BY DEF GoTo, Only, SlotTypes

LEMMA OnlyEnded ==
  ASSUME slot \in [Slots -> SlotTypes], NEW s \in Slots, NEW o \in Outcomes, Ended(s, o)
  PROVE  /\ Only(s) /\ slot'[s].phase = "wantWrite" /\ slot'[s].job = slot[s].job
         /\ slot'[s].outcome = o /\ slot'[s].until = slot[s].until
         /\ o # "settled" => runs[slot[s].job] < MaxAttempts[slot[s].job]
BY DEF Ended, Only, SlotTypes, Phases

LEMMA KnownSame ==
  ASSUME wake' = wake, \A s \in Slots : slot'[s].until = slot[s].until
  PROVE  Known' = Known
BY DEF Known

-----------------------------------------------------------------------------
(* Permits.                                                                *)

FuturePhases == {"submitted", "threaded"}
Futures == {s \in Slots : slot[s].phase \in FuturePhases}

LEMMA FuturesCount == IsFiniteSet(Futures) /\ Cardinality(Futures) \in Nat
<1>1. IsFiniteSet(Futures)
  BY Records, FS_Subset DEF Futures
<1> QED BY <1>1, FS_CardinalityType

LEMMA FuturesSame ==
  ASSUME NEW s \in Slots, Only(s),
         slot'[s].phase \in FuturePhases <=> slot[s].phase \in FuturePhases
  PROVE  Futures' = Futures
BY DEF Futures, Only

LEMMA FuturesMore ==
  ASSUME NEW s \in Slots, Only(s),
         slot'[s].phase \in FuturePhases, slot[s].phase \notin FuturePhases
  PROVE  Cardinality(Futures') = Cardinality(Futures) + 1
<1>1. Futures' = Futures \cup {s} /\ s \notin Futures
  BY DEF Futures, Only
<1> QED BY <1>1, FuturesCount, FS_AddElement

LEMMA FuturesLess ==
  ASSUME NEW s \in Slots, Only(s),
         slot'[s].phase \notin FuturePhases, slot[s].phase \in FuturePhases
  PROVE  Cardinality(Futures') = Cardinality(Futures) - 1
<1>1. Futures' = Futures \ {s} /\ s \in Futures
  BY DEF Futures, Only
<1> QED BY <1>1, FuturesCount, FS_RemoveElement

LEMMA Permits ==
  PermitsMatchThreads <=> permits + orphans + releasing + Cardinality(Futures) = SyncPool
BY DEF PermitsMatchThreads, Futures, FuturePhases

LEMMA PermitsSame ==
  ASSUME PermitsMatchThreads, TypeOK, UNCHANGED syncVars, Futures' = Futures
  PROVE  /\ PermitsMatchThreads' /\ permits' \in 0 .. SyncPool
         /\ orphans' \in Nat /\ releasing' \in Nat
BY DEF TypeOK, syncVars, PermitsMatchThreads, Futures, FuturePhases

-----------------------------------------------------------------------------
(* Steps of one slot that leave the jobs alone.                            *)

\* What such a step may do to the place of its job.
Onward(s) ==
  /\ slot'[s].phase \in Working => slot[s].phase \in Working /\ slot'[s].job = slot[s].job
  /\ slot'[s].phase \in {"wantWrite", "writing"} /\ slot'[s].outcome # "settled" =>
       runs[slot'[s].job] < MaxAttempts[slot'[s].job]

\* The rest of the state after a step.
Rest ==
  /\ note' \in BOOLEAN /\ event' \in BOOLEAN /\ listening' \in BOOLEAN
  /\ PermitsMatchThreads' /\ permits' \in 0 .. SyncPool
  /\ orphans' \in Nat /\ releasing' \in Nat

LEMMA OnwardPlaces ==
  ASSUME Places, NEW s \in Slots, Only(s), Onward(s), UNCHANGED <<job, runs>>
  PROVE  Places'
<1>1. ASSUME NEW t \in Slots PROVE SlotOK(t)'
  <2>1. CASE t = s
    BY <2>1 DEF Places, SlotOK, Onward
  <2>2. CASE t # s
    BY <2>2 DEF Places, SlotOK, Only
  <2> QED BY <2>1, <2>2
<1>2. \A j \in Jobs : JobOK(j)'
  BY DEF Places, JobOK
<1>3. ASSUME NEW t \in Slots PROVE slot'[t].phase \in Working =>
                                    slot[t].phase \in Working /\ slot'[t].job = slot[t].job
  BY DEF Only, Onward
<1>4. Exclusive'
  BY <1>3 DEF Places, Exclusive
<1> QED BY <1>1, <1>2, <1>4 DEF Places

\* A slot that is up afterwards, without a deadline, looks for jobs before it sleeps.
Up(s) ==
  /\ slot'[s].phase \notin {"starting", "asleep", "empty", "wrote"}
  /\ slot'[s].until = {} /\ slot[s].phase # "wrote"

LEMMA UpDeadlined ==
  ASSUME Deadlined, NEW s \in Slots, Only(s), Up(s), UNCHANGED jobVars
  PROVE  Deadlined'
<1>1. UNCHANGED <<job, runs, wake, passed>>
  BY DEF jobVars
<1>2. \A t \in Slots \ {s} : slot'[t] = slot[t]
  BY DEF Only
<1>3. \A t \in Slots : slot'[t].until \subseteq slot[t].until
  BY <1>2 DEF Up
<1>4. Carried'
  BY <1>2 DEF Carried, Deadlined, Up
<1>5. Known' \subseteq Known
  BY <1>1, <1>3 DEF Known
<1>6. \A d \in Known' : Over(d)'
  BY <1>1, <1>5 DEF Deadlined, Over
<1>7. New'
  BY <1>1, <1>2 DEF New, Deadlined, Up
<1>8. Waiting'
  <2>1. \A t \in Slots : slot[t].phase = "wrote" => slot'[t] = slot[t]
    BY <1>2 DEF Up
  <2>2. \A j \in Jobs : Due(j)' = Due(j)
    BY <1>1 DEF Due
  <2> QED BY <1>1, <2>1, <2>2 DEF Waiting, Deadlined
<1>9. Noticed' /\ Watched'
  BY DEF Noticed, Watched, Up
<1> QED BY <1>4, <1>6, <1>7, <1>8, <1>9 DEF Deadlined

LEMMA UpStep ==
  ASSUME Inv, NEW s \in Slots, Only(s), Onward(s), Up(s), Rest, UNCHANGED jobVars
  PROVE  Inv'
<1>1. UNCHANGED <<job, runs, wake, passed>>
  BY DEF jobVars
<1>2. TypeOK'
  BY <1>1 DEF Inv, TypeOK, Only, Rest
<1> QED BY <1>1, <1>2, OnwardPlaces, UpDeadlined DEF Inv, Rest

\* Only the phase of a slot changes, and the slot stays up.
LEMMA PhaseStep ==
  ASSUME Inv, NEW s \in Slots, NEW p \in Phases, GoTo(s, p), Rest, UNCHANGED jobVars,
         p \notin {"starting", "asleep", "empty", "wrote"},
         slot[s].phase \notin {"starting", "asleep", "wrote"},
         p \in Working => slot[s].phase \in Working,
         p \in {"wantWrite", "writing"} => slot[s].phase \in {"wantWrite", "writing"}
  PROVE  Inv'
<1>1. slot \in [Slots -> SlotTypes] /\ Places /\ Carried
  BY DEF Inv, TypeOK, Deadlined
<1>2. /\ Only(s) /\ slot'[s].phase = p /\ slot'[s].job = slot[s].job
      /\ slot'[s].outcome = slot[s].outcome /\ slot'[s].until = slot[s].until
  BY <1>1, OnlyGoTo
<1>3. Onward(s)
  BY <1>1, <1>2 DEF Onward, Places, SlotOK
<1>4. Up(s)
  BY <1>1, <1>2 DEF Up, Carried
<1> QED BY <1>2, <1>3, <1>4, UpStep

LEMMA QuietRest ==
  ASSUME Inv, UNCHANGED syncVars, Futures' = Futures,
         note' \in BOOLEAN, event' \in BOOLEAN, listening' \in BOOLEAN
  PROVE  Rest
BY PermitsSame DEF Inv, Rest

LEMMA QuietTypes ==
  ASSUME Inv, UNCHANGED wakeVars
  PROVE  note' \in BOOLEAN /\ event' \in BOOLEAN /\ listening' \in BOOLEAN
BY DEF Inv, TypeOK, wakeVars

LEMMA PhaseKeeps ==
  ASSUME Inv, NEW s \in Slots,
         \/ Acquire(s) \/ FetchFails(s) \/ MaybeCleanup(s) \/ TryLock(s)
         \/ Prune(s) \/ Sweep(s)
  PROVE  Inv'
<1> DEFINE From == {"wantFetch", "wantWrite", "wantLock", "wantPrune", "wantSweep",
                    "fetching", "cycle", "trying", "pruning", "sweeping"}
           Into == {"fetching", "writing", "trying", "pruning", "sweeping", "wantFetch",
                    "wantLock", "wantPrune", "wantSweep"}
<1>1. PICK p \in Into : /\ GoTo(s, p) /\ slot[s].phase \in From
                        /\ p = "writing" => slot[s].phase = "wantWrite"
  <2>1. CASE Acquire(s)
    BY <2>1 DEF Acquire, Lent
  <2>2. CASE FetchFails(s)
    BY <2>2 DEF FetchFails, At
  <2>3. CASE MaybeCleanup(s)
    BY <2>3 DEF MaybeCleanup, At
  <2>4. CASE TryLock(s)
    BY <2>4 DEF TryLock, At
  <2>5. CASE Prune(s) \/ Sweep(s)
    BY <2>5 DEF Prune, Sweep, At
  <2> QED BY <2>1, <2>2, <2>3, <2>4, <2>5
<1>2. p \in Phases
  BY DEF Phases
<1>3. UNCHANGED jobVars /\ UNCHANGED wakeVars /\ UNCHANGED syncVars
  BY DEF Acquire, FetchFails, MaybeCleanup, TryLock, Prune, Sweep
<1>4. Futures' = Futures
  <2>1. Only(s) /\ slot'[s].phase = p
    BY <1>1, <1>2, OnlyGoTo DEF Inv, TypeOK
  <2> QED BY <1>1, <2>1, FuturesSame DEF FuturePhases
<1>5. Rest
  BY <1>3, <1>4, QuietRest, QuietTypes
<1> QED BY <1>1, <1>2, <1>3, <1>5, PhaseStep DEF Working

LEMMA PermitKeeps ==
  ASSUME Inv, NEW s \in Slots, Submit(s) \/ StartThread(s)
  PROVE  Inv'
<1>1. UNCHANGED jobVars /\ UNCHANGED wakeVars
  BY DEF Submit, StartThread
<1>2. note' \in BOOLEAN /\ event' \in BOOLEAN /\ listening' \in BOOLEAN
  BY <1>1, QuietTypes
<1>3. slot \in [Slots -> SlotTypes] /\ permits \in 0 .. SyncPool /\ orphans \in Nat /\ releasing \in Nat
  BY DEF Inv, TypeOK
<1>4. CASE Submit(s)
  <2>1. /\ slot[s].phase = "permit" /\ permits > 0 /\ permits' = permits - 1
        /\ GoTo(s, "submitted") /\ UNCHANGED <<orphans, releasing>>
    BY <1>4 DEF Submit, At
  <2>2. Only(s) /\ slot'[s].phase = "submitted"
    BY <1>3, <2>1, OnlyGoTo DEF Phases
  <2>3. Cardinality(Futures') = Cardinality(Futures) + 1
    BY <2>1, <2>2, FuturesMore DEF FuturePhases
  <2>4. permits + orphans + releasing + Cardinality(Futures) = SyncPool
    BY Permits DEF Inv
  <2>5. permits' + orphans' + releasing' + Cardinality(Futures') = SyncPool
    BY <1>3, <2>1, <2>3, <2>4, FuturesCount, Records
  <2>6. PermitsMatchThreads'
    BY <2>5 DEF PermitsMatchThreads, Futures, FuturePhases
  <2>7. Rest
    BY <1>2, <1>3, <2>1, <2>6, Records DEF Rest
  <2> QED BY <1>1, <2>1, <2>7, PhaseStep DEF Phases, Working
<1>5. CASE StartThread(s)
  <2>1. slot[s].phase = "submitted" /\ GoTo(s, "threaded") /\ UNCHANGED syncVars
    BY <1>5 DEF StartThread, At
  <2>2. Only(s) /\ slot'[s].phase = "threaded"
    BY <1>3, <2>1, OnlyGoTo DEF Phases
  <2>3. Rest
    BY <1>2, <2>1, <2>2, FuturesSame, QuietRest DEF FuturePhases
  <2> QED BY <1>1, <2>1, <2>3, PhaseStep DEF Phases, Working
<1> QED BY <1>4, <1>5

\* However a run ends, its permit is accounted for.
LEMMA EndedStep ==
  ASSUME Inv, NEW s \in Slots, NEW o \in Outcomes, Ended(s, o),
         slot[s].phase \in {"async", "permit", "submitted", "threaded"},
         Rest, UNCHANGED jobVars
  PROVE  Inv'
<1>1. /\ Only(s) /\ slot'[s].phase = "wantWrite" /\ slot'[s].job = slot[s].job
      /\ slot'[s].outcome = o /\ slot'[s].until = slot[s].until
      /\ o # "settled" => runs[slot[s].job] < MaxAttempts[slot[s].job]
  BY OnlyEnded DEF Inv, TypeOK
<1>2. Onward(s)
  BY <1>1 DEF Onward, Working
<1>3. Up(s)
  BY <1>1 DEF Inv, Deadlined, Carried, Up
<1> QED BY <1>1, <1>2, <1>3, UpStep

LEMMA EndedKeeps ==
  ASSUME Inv, NEW s \in Slots, NEW o \in Outcomes,
         RunAsync(s, o) \/ EndThread(s, o) \/ JobTimesOut(s, o)
  PROVE  Inv'
<1>1. UNCHANGED jobVars /\ UNCHANGED wakeVars /\ Ended(s, o)
  BY DEF RunAsync, EndThread, JobTimesOut
<1>2. /\ note' \in BOOLEAN /\ event' \in BOOLEAN /\ listening' \in BOOLEAN
      /\ permits \in 0 .. SyncPool /\ orphans \in Nat /\ releasing \in Nat
  BY <1>1, QuietTypes DEF Inv, TypeOK
<1>3. Only(s) /\ slot'[s].phase = "wantWrite"
  BY <1>1, OnlyEnded DEF Inv, TypeOK
<1>4. permits + orphans + releasing + Cardinality(Futures) = SyncPool
  BY Permits DEF Inv
<1>5. CASE slot[s].phase \in {"async", "permit"} /\ UNCHANGED syncVars
  <2>1. Rest
    BY <1>2, <1>3, <1>5, FuturesSame, QuietRest DEF FuturePhases
  <2> QED BY <1>1, <1>5, <2>1, EndedStep
<1>6. CASE /\ slot[s].phase \in FuturePhases /\ permits' = permits
           /\ orphans' \in Nat /\ releasing' \in Nat
           /\ orphans' + releasing' = orphans + releasing + 1
  <2>1. Cardinality(Futures') = Cardinality(Futures) - 1
    BY <1>3, <1>6, FuturesLess DEF FuturePhases
  <2>2. permits' + orphans' + releasing' + Cardinality(Futures') = SyncPool
    <3>1. PICK k \in Nat : k = Cardinality(Futures)
      BY FuturesCount
    <3>2. permits + orphans + releasing + k = SyncPool /\ Cardinality(Futures') = k - 1
      BY <1>4, <2>1, <3>1
    <3>3. permits' + (orphans + releasing + 1) + (k - 1) = SyncPool
      BY <1>2, <1>6, <3>2
    <3>4. permits' + (orphans' + releasing') + (k - 1) = SyncPool
      BY <1>6, <3>3
    <3>5. permits' \in Int
      BY <1>2, <1>6
    <3> QED BY <1>6, <3>2, <3>4, <3>5
  <2>3. PermitsMatchThreads'
    BY <2>2 DEF PermitsMatchThreads, Futures, FuturePhases
  <2>4. Rest
    BY <1>2, <1>6, <2>3 DEF Rest
  <2> QED BY <1>1, <1>6, <2>4, EndedStep DEF FuturePhases
<1>7. CASE RunAsync(s, o)
  BY <1>5, <1>7 DEF RunAsync, At
<1>8. CASE EndThread(s, o)
  <2>1. /\ slot[s].phase = "threaded" /\ permits' = permits /\ orphans' = orphans
        /\ releasing' = releasing + 1
    BY <1>8 DEF EndThread, At
  <2> QED BY <1>2, <1>6, <2>1 DEF FuturePhases
<1>9. CASE JobTimesOut(s, o)
  <2>1. /\ permits' = permits
        /\ \/ slot[s].phase = "permit" /\ orphans' = orphans /\ releasing' = releasing
           \/ slot[s].phase = "submitted" /\ orphans' = orphans /\ releasing' = releasing + 1
           \/ slot[s].phase = "threaded" /\ orphans' = orphans + 1 /\ releasing' = releasing
    BY <1>9 DEF JobTimesOut, At
  <2> QED BY <1>2, <1>5, <1>6, <2>1 DEF FuturePhases, syncVars
<1> QED BY <1>7, <1>8, <1>9

LEMMA WakeUpKeeps ==
  ASSUME Inv, NEW s \in Slots, slot[s].phase \in {"starting", "asleep"},
         slot' = [slot EXCEPT ![s] = Awake], UNCHANGED <<jobVars, wakeVars, syncVars>>
  PROVE  Inv'
<1>1. Only(s) /\ slot'[s] = Awake
  BY Records, OnlySet DEF Inv, TypeOK
<1>2. Onward(s) /\ Up(s)
  BY <1>1, Records DEF Onward, Up, Working
<1>3. Rest
  BY <1>1, Records, FuturesSame, QuietRest, QuietTypes DEF FuturePhases
<1> QED BY <1>1, <1>2, <1>3, UpStep

LEMMA FetchNothingKeeps ==
  ASSUME Inv, NEW s \in Slots, FetchNothing(s)
  PROVE  Inv'
<1>1. /\ slot[s].phase = "fetching" /\ \A j \in Jobs : job[j] # "queued"
      /\ GoTo(s, "empty") /\ UNCHANGED <<jobVars, wakeVars, syncVars>>
  BY DEF FetchNothing, At
<1>2. UNCHANGED <<job, runs, wake, passed>>
  BY <1>1 DEF jobVars
<1>3. slot \in [Slots -> SlotTypes] /\ Deadlined /\ Places
  BY DEF Inv, TypeOK
<1>4. /\ Only(s) /\ slot'[s].phase = "empty" /\ slot'[s].until = slot[s].until
      /\ slot[s].until = {}
  BY <1>1, <1>3, OnlyGoTo DEF Phases, Deadlined, Carried
<1>5. \A t \in Slots : /\ slot'[t].until = slot[t].until
                       /\ slot'[t].phase = "wrote" <=> slot[t].phase = "wrote"
  BY <1>1, <1>4 DEF Only
<1>6. Rest
  BY <1>1, <1>4, FuturesSame, QuietRest, QuietTypes DEF FuturePhases
<1>7. TypeOK'
  BY <1>2, <1>4, <1>6 DEF Inv, TypeOK, Only, Rest
<1>8. Places'
  BY <1>2, <1>3, <1>4, OnwardPlaces DEF Onward, Working
<1>9. Carried'
  BY <1>3, <1>4 DEF Carried, Deadlined, Only
<1>10. \A d \in Known' : Over(d)'
  BY <1>2, <1>3, <1>5 DEF Deadlined, Over, Known
<1>11. New'
  BY <1>2, <1>3, <1>5 DEF New, Deadlined
<1>12. Waiting'
  BY <1>2, <1>3, <1>5 DEF Waiting, Deadlined, Due
<1>13. Noticed' /\ Watched'
  BY <1>1, <1>2, <1>4 DEF Noticed, Watched
<1> QED BY <1>6, <1>7, <1>8, <1>9, <1>10, <1>11, <1>12, <1>13 DEF Inv, Deadlined, Rest

-----------------------------------------------------------------------------
(* Falling asleep.                                                         *)

LEMMA StartWaitKeeps ==
  ASSUME Inv, NEW s \in Slots, StartWait(s)
  PROVE  Inv'
<1>1. slot[s].phase = "starting" /\ UNCHANGED <<jobVars, wakeVars, syncVars>>
  BY DEF StartWait, At
<1>2. CASE slot' = [slot EXCEPT ![s] = Awake]
  BY <1>1, <1>2, WakeUpKeeps
<1>3. CASE slot' = [slot EXCEPT ![s] = [@ EXCEPT !.phase = "asleep"]]
  <2>1. UNCHANGED <<job, runs, wake, passed>>
    BY <1>1 DEF jobVars
  <2>2. slot \in [Slots -> SlotTypes] /\ Deadlined /\ Places
    BY DEF Inv, TypeOK
  <2>3. Only(s) /\ slot'[s].phase = "asleep" /\ slot'[s].until = slot[s].until
    <3>1. GoTo(s, "asleep")
      BY <1>3 DEF GoTo
    <3> QED BY <2>2, <3>1, OnlyGoTo DEF Phases
  <2>4. \A t \in Slots : /\ slot'[t].until = slot[t].until
                         /\ slot'[t].phase = "wrote" <=> slot[t].phase = "wrote"
                         /\ slot[t].phase \notin {"starting", "asleep"} =>
                              slot'[t].phase = slot[t].phase
    BY <1>1, <2>3 DEF Only
  <2>5. Rest
    BY <1>1, <2>3, FuturesSame, QuietRest, QuietTypes DEF FuturePhases
  <2>6. TypeOK'
    BY <2>1, <2>3, <2>5 DEF Inv, TypeOK, Only, Rest
  <2>7. Places'
    BY <2>1, <2>2, <2>3, OnwardPlaces DEF Onward, Working
  <2>8. Carried'
    BY <2>2, <2>3 DEF Carried, Deadlined, Only
  <2>9. Known' = Known
    BY <2>1, <2>4, KnownSame
  <2>10. \A d \in Known' : Over(d)'
    BY <2>1, <2>2, <2>9 DEF Deadlined, Over
  <2>11. New' /\ Waiting'
    BY <2>1, <2>2, <2>4 DEF New, Waiting, Deadlined, Due
  <2>12. Noticed'
    BY <2>1, <2>2, <2>4, <2>9 DEF Noticed, Deadlined, Due
  <2>13. Watched'
    BY <2>1, <2>2, <2>4 DEF Watched, Deadlined, Sleepless
  <2> QED BY <2>5, <2>6, <2>7, <2>8, <2>10, <2>11, <2>12, <2>13 DEF Inv, Deadlined, Rest
<1> QED BY <1>2, <1>3 DEF StartWait

\* The deadlines that have passed go from the heap to the slot that will wake for them; what
\* is still ahead is what was ahead before.
LEMMA DozeKeeps ==
  ASSUME Inv, NEW s \in Slots, Doze(s)
  PROVE  Inv'
<1>1. PICK D : /\ D = IF passed # {} THEN passed ELSE wake
               /\ slot' = [slot EXCEPT ![s].phase = "starting", ![s].until = D]
               /\ wake' = wake \ passed /\ passed' = {}
  BY DEF Doze, IdleTimeout
<1>2. /\ slot[s].phase = "empty" /\ event' = FALSE
      /\ UNCHANGED <<job, runs, note, listening, syncVars>>
  BY DEF Doze, At
<1>3. /\ slot \in [Slots -> SlotTypes] /\ Deadlined /\ Places /\ D \subseteq wake
      /\ passed \subseteq wake /\ wake \subseteq Deadlines /\ slot[s].until = {}
  BY <1>1, <1>2 DEF Inv, TypeOK, Deadlined, Carried
<1>4. Only(s) /\ slot'[s].phase = "starting" /\ slot'[s].until = D
  <2>1. D \in SUBSET Deadlines
    BY <1>3
  <2>2. [slot[s] EXCEPT !.phase = "starting", !.until = D] \in SlotTypes
    BY <1>3, <2>1 DEF SlotTypes, Phases
  <2>3. slot' = [slot EXCEPT ![s] = [slot[s] EXCEPT !.phase = "starting", !.until = D]]
    BY <1>1, <1>3
  <2>4. Only(s) /\ slot'[s] = [slot[s] EXCEPT !.phase = "starting", !.until = D]
    BY <1>3, <2>2, <2>3, OnlySet
  <2> QED BY <1>3, <2>4 DEF SlotTypes
<1>5. \A t \in Slots \ {s} : slot'[t] = slot[t]
  BY <1>4 DEF Only
<1>6. Rest
  BY <1>2, <1>4, FuturesSame, QuietRest DEF FuturePhases, Inv, TypeOK
<1>7. TypeOK'
  BY <1>1, <1>2, <1>3, <1>4, <1>6 DEF Inv, TypeOK, Only, Rest
<1>8. Places'
  BY <1>2, <1>3, <1>4, OnwardPlaces DEF Onward, Working
<1>9. Carried'
  BY <1>3, <1>4, <1>5 DEF Carried, Deadlined
<1>10. Known' \subseteq Known
  BY <1>1, <1>3, <1>4, <1>5 DEF Known
<1>11. wake \subseteq wake' \cup D /\ \A t \in Slots : slot[t].until \subseteq slot'[t].until
  BY <1>1, <1>3, <1>4, <1>5
<1>12. Known \subseteq Known'
  BY <1>4, <1>11 DEF Known
<1>13. \A d \in Known' : Over(d)'
  BY <1>2, <1>3, <1>10 DEF Deadlined, Over
<1>14. New'
  <2>1. ASSUME NEW t \in Slots, slot'[t].phase = "wrote"
        PROVE  /\ slot'[t].until \cap wake' = {}
               /\ \A u \in Slots \ {t} : slot'[t].until \cap slot'[u].until = {}
    <3>1. t # s /\ slot'[t] = slot[t]
      BY <1>4, <1>5, <2>1
    <3>2. /\ slot[t].until \cap wake = {}
          /\ \A u \in Slots \ {t} : slot[t].until \cap slot[u].until = {}
      BY <1>3, <2>1, <3>1 DEF New, Deadlined
    <3> QED BY <1>1, <1>3, <1>4, <1>5, <3>1, <3>2
  <2> QED BY <2>1 DEF New
<1>15. Waiting'
  <2>1. wake' \ passed' = wake \ passed
    BY <1>1
  <2>2. \A t \in Slots : slot[t].phase = "wrote" => slot'[t] = slot[t]
    BY <1>2, <1>5
  <2>3. \A j \in Jobs : Due(j)' = Due(j)
    BY <1>2 DEF Due
  <2> QED BY <1>2, <1>3, <2>1, <2>2, <2>3 DEF Waiting, Deadlined
<1>16. Noticed'
  <2>1. \A t \in Slots : slot[t].phase # "empty" => slot'[t] = slot[t]
    BY <1>2, <1>5
  <2>2. \A j \in Jobs : Due(j)' = Due(j)
    BY <1>2 DEF Due
  <2> QED BY <1>2, <1>3, <1>12, <2>1, <2>2 DEF Noticed, Deadlined
<1>17. Watched'
  <2>1. ASSUME NEW d \in wake' PROVE Sleepless(s)' \/ d \in slot'[s].until
    <3>1. CASE passed # {}
      BY <1>1, <1>4, <3>1 DEF Sleepless
    <3>2. CASE passed = {}
      BY <1>1, <1>4, <2>1, <3>2
    <3> QED BY <3>1, <3>2
  <2> QED BY <2>1 DEF Watched
<1> QED BY <1>6, <1>7, <1>8, <1>9, <1>13, <1>14, <1>15, <1>16, <1>17 DEF Inv, Deadlined, Rest

-----------------------------------------------------------------------------
(* Steps of a slot that move a job.                                        *)

LEMMA FetchKeeps ==
  ASSUME Inv, NEW s \in Slots, NEW j \in Jobs, Fetch(s, j)
  PROVE  Inv'
<1> DEFINE p == IF j \in SyncJobs THEN "permit" ELSE "async"
<1>1. /\ slot[s].phase = "fetching" /\ job[j] = "queued"
      /\ job' = [job EXCEPT ![j] = "held"] /\ runs' = [runs EXCEPT ![j] = runs[j] + 1]
      /\ slot' = [slot EXCEPT ![s].phase = p, ![s].job = j]
      /\ UNCHANGED <<wake, passed>> /\ UNCHANGED wakeVars /\ UNCHANGED syncVars
  BY DEF Fetch, At
<1>2. p \in {"permit", "async"}
  OBVIOUS
<1> HIDE DEF p
<1>3. /\ slot \in [Slots -> SlotTypes] /\ Deadlined /\ Places
      /\ job \in [Jobs -> {"unborn", "queued", "held", "soon", "settled"}]
      /\ runs \in [Jobs -> Nat] /\ \A k \in Jobs : runs[k] <= MaxAttempts[k]
      /\ slot[s].until = {} /\ runs[j] < MaxAttempts[j]
  BY <1>1 DEF Inv, TypeOK, Deadlined, Carried, Places, JobOK
<1>4. /\ Only(s) /\ slot'[s].phase = p /\ slot'[s].job = j /\ slot'[s].until = {}
  BY ZenonT(60), <1>1, <1>2, <1>3 DEF Only, SlotTypes, Phases
<1>5. /\ \A t \in Slots \ {s} : slot'[t] = slot[t]
      /\ \A t \in Slots : slot'[t].until = slot[t].until
      /\ \A k \in Jobs \ {j} : job'[k] = job[k] /\ runs'[k] = runs[k]
      /\ job'[j] = "held" /\ runs'[j] = runs[j] + 1
  BY <1>1, <1>3, <1>4 DEF Only
<1>6. Rest
  BY <1>1, <1>2, <1>4, FuturesSame, QuietRest, QuietTypes DEF FuturePhases
<1>7. TypeOK'
  <2>1. \A k \in Jobs : runs'[k] <= MaxAttempts[k]
    <3>1. runs[j] + 1 <= MaxAttempts[j]
      BY <1>3, Records
    <3> QED BY <1>3, <1>5, <3>1
  <2>2. job' \in [Jobs -> {"unborn", "queued", "held", "soon", "settled"}] /\ runs' \in [Jobs -> Nat]
    BY <1>1, <1>3
  <2> QED BY <1>1, <1>4, <1>6, <2>1, <2>2 DEF Inv, TypeOK, Only, Rest
<1>8. Places'
  <2>1. \A t \in Slots \ {s} : slot[t].phase \in Working => slot[t].job # j
    BY <1>1, <1>3 DEF Places, SlotOK
  <2>2. ASSUME NEW t \in Slots PROVE SlotOK(t)'
    <3>1. CASE t = s
      BY <1>2, <1>4, <1>5, <3>1 DEF SlotOK
    <3>2. CASE t # s
      BY <1>3, <1>5, <2>1, <3>2 DEF Places, SlotOK, Working
    <3> QED BY <3>1, <3>2
  <2>3. \A k \in Jobs : JobOK(k)'
    BY <1>3, <1>5 DEF Places, JobOK
  <2>4. Exclusive'
    BY <1>3, <1>4, <1>5, <2>1 DEF Places, Exclusive
  <2> QED BY <2>2, <2>3, <2>4 DEF Places
<1>9. Carried'
  BY <1>3, <1>4, <1>5 DEF Carried, Deadlined
<1>10. Known' = Known
  BY <1>1, <1>5, KnownSame
<1>11. \A d \in Known' : Over(d)'
  <2>1. Known \subseteq Deadlines
    BY SlotFields DEF Known, Inv, TypeOK
  <2>2. ASSUME NEW d \in Known PROVE Over(d)'
    <3>1. d[1] \in Jobs /\ d[2] \in Nat /\ Over(d)
      BY <1>3, <2>1, <2>2, DeadlineFields DEF Deadlined
    <3>2. CASE d[1] = j
      BY <1>3, <1>5, <3>1, <3>2 DEF Over
    <3>3. CASE d[1] # j
      BY <1>3, <1>5, <3>1, <3>3 DEF Over
    <3> QED BY <3>2, <3>3
  <2> QED BY <1>10, <2>2
<1>12. New'
  BY <1>1, <1>2, <1>3, <1>4, <1>5 DEF New, Deadlined
<1>13. Waiting'
  BY <1>1, <1>3, <1>5 DEF Waiting, Deadlined, Due
<1>14. Noticed' /\ Watched'
  BY <1>2, <1>4 DEF Noticed, Watched
<1> QED BY <1>6, <1>7, <1>8, <1>9, <1>11, <1>12, <1>13, <1>14 DEF Inv, Deadlined, Rest

\* The deadline of a short retry is new: only attempts that have ended have one so far.
LEMMA WriteKeeps ==
  ASSUME Inv, NEW s \in Slots, Write(s)
  PROVE  Inv'
<1>0. PICK j, o, e : j = slot[s].job /\ o = slot[s].outcome /\ e = Due(j)
  OBVIOUS
<1> DEFINE r == IF o = "soon" THEN [Awake EXCEPT !.phase = "wrote", !.until = {e}] ELSE Awake
<1>1. /\ slot[s].phase = "writing" /\ job' = [job EXCEPT ![j] = o]
      /\ slot' = [slot EXCEPT ![s] = r]
      /\ UNCHANGED <<runs, wake, passed>> /\ UNCHANGED wakeVars /\ UNCHANGED syncVars
  BY <1>0 DEF Write, At, Due
<1>2. /\ slot \in [Slots -> SlotTypes] /\ Deadlined /\ Places
      /\ job \in [Jobs -> {"unborn", "queued", "held", "soon", "settled"}]
      /\ runs \in [Jobs -> Nat] /\ \A k \in Jobs : runs[k] <= MaxAttempts[k]
      /\ wake \subseteq Deadlines
  BY DEF Inv, TypeOK
<1>3. /\ j \in Jobs /\ job[j] = "held" /\ runs[j] > 0 /\ o \in Outcomes
      /\ o # "settled" => runs[j] < MaxAttempts[j]
  BY <1>0, <1>1, <1>2, SlotFields DEF Places, SlotOK, JobOK, Working
<1>4. e \in Deadlines /\ e[1] = j /\ e[2] = runs[j]
  BY <1>0, <1>2, <1>3, DeadlineFields DEF Due
<1>5. /\ r \in SlotTypes /\ r.phase \in {"cycle", "wrote"}
      /\ r.phase = "wrote" => o = "soon" /\ r.until = {e}
      /\ r.phase # "wrote" => o # "soon" /\ r.until = {}
  <2>1. [Awake EXCEPT !.phase = "wrote", !.until = {e}] \in SlotTypes
    BY <1>4, Records DEF SlotTypes, Phases
  <2>2. /\ [Awake EXCEPT !.phase = "wrote", !.until = {e}].phase = "wrote"
        /\ [Awake EXCEPT !.phase = "wrote", !.until = {e}].until = {e}
    BY DEF Awake, Ready
  <2> QED BY <2>1, <2>2, Records
<1> HIDE DEF r
<1>6. Only(s) /\ slot'[s] = r
  BY <1>1, <1>2, <1>5, OnlySet
<1>7. /\ \A t \in Slots \ {s} : slot'[t] = slot[t]
      /\ \A k \in Jobs \ {j} : job'[k] = job[k]
      /\ job'[j] = o /\ o \in {"settled", "queued", "soon"} /\ slot[s].until = {}
      /\ \A k \in Jobs : Due(k)' = Due(k)
  BY <1>1, <1>2, <1>3, <1>6 DEF Only, Outcomes, Deadlined, Carried, Due
<1>8. Rest
  BY <1>1, <1>5, <1>6, FuturesSame, QuietRest, QuietTypes DEF FuturePhases
<1>9. TypeOK'
  <2>1. job' \in [Jobs -> {"unborn", "queued", "held", "soon", "settled"}]
    BY <1>1, <1>2, <1>7
  <2> QED BY <1>1, <1>6, <1>8, <2>1 DEF Inv, TypeOK, Only, Rest
<1>10. Places'
  <2>1. \A t \in Slots \ {s} : slot[t].phase \in Working => slot[t].job # j
    BY <1>0, <1>1, <1>2 DEF Places, Exclusive, Working
  <2>2. ASSUME NEW t \in Slots PROVE SlotOK(t)'
    <3>1. CASE t = s
      BY <1>5, <1>6, <3>1 DEF SlotOK, Working
    <3>2. CASE t # s
      BY <1>1, <1>2, <1>7, <2>1, <3>2 DEF Places, SlotOK
    <3> QED BY <3>1, <3>2
  <2>3. \A k \in Jobs : JobOK(k)'
    BY <1>1, <1>2, <1>3, <1>7 DEF Places, JobOK
  <2>4. Exclusive'
    BY <1>2, <1>5, <1>6, <1>7 DEF Places, Exclusive, Working
  <2> QED BY <2>2, <2>3, <2>4 DEF Places
<1>11. Carried'
  BY <1>2, <1>5, <1>6, <1>7 DEF Carried, Deadlined
<1>12. e \notin Known
  BY <1>2, <1>3, <1>4 DEF Deadlined, Over
<1>13. Known' \subseteq Known \cup {e} /\ Known \subseteq Known'
  <2>1. \A t \in Slots : /\ slot'[t].until \subseteq slot[t].until \cup {e}
                         /\ slot[t].until \subseteq slot'[t].until
    BY <1>5, <1>6, <1>7
  <2> QED BY <1>1, <2>1 DEF Known
<1>14. \A d \in Known' : Over(d)'
  <2>1. Known \subseteq Deadlines
    BY <1>2, SlotFields DEF Known
  <2>2. Over(e)'
    BY <1>1, <1>3, <1>4, <1>7 DEF Over
  <2>3. ASSUME NEW d \in Known PROVE Over(d)'
    <3>1. d[1] \in Jobs /\ Over(d)
      BY <1>2, <2>1, <2>3, DeadlineFields DEF Deadlined
    <3> QED BY <1>1, <1>3, <1>7, <3>1 DEF Over
  <2> QED BY <1>13, <2>2, <2>3
<1>15. New'
  <2>1. e \notin wake /\ \A t \in Slots : e \notin slot[t].until
    BY <1>12 DEF Known
  <2>2. ASSUME NEW t \in Slots, slot'[t].phase = "wrote"
        PROVE  /\ slot'[t].until \cap wake' = {}
               /\ \A u \in Slots \ {t} : slot'[t].until \cap slot'[u].until = {}
    <3>1. CASE t = s
      BY <1>1, <1>5, <1>6, <1>7, <2>1, <2>2, <3>1
    <3>2. CASE t # s
      <4>1. /\ slot'[t] = slot[t] /\ slot[t].until \cap wake = {}
            /\ \A u \in Slots \ {t} : slot[t].until \cap slot[u].until = {}
        BY <1>2, <1>7, <2>2, <3>2 DEF New, Deadlined
      <4>2. slot'[t].until \cap slot'[s].until = {}
        BY <1>5, <1>6, <2>1, <4>1
      <4>3. \A u \in Slots \ {t} : slot'[t].until \cap slot'[u].until = {}
        BY <1>7, <4>1, <4>2
      <4> QED BY <1>1, <4>1, <4>3
    <3> QED BY <3>1, <3>2
  <2> QED BY <2>2 DEF New
<1>16. Waiting'
  <2>1. \A t \in Slots : slot[t].phase = "wrote" => slot'[t] = slot[t]
    BY <1>1, <1>7
  <2>2. o = "soon" => slot'[s].phase = "wrote" /\ Due(j) \in slot'[s].until
    BY <1>0, <1>5, <1>6
  <2> QED BY <1>1, <1>2, <1>7, <2>1, <2>2 DEF Waiting, Deadlined
<1>17. Noticed' /\ Watched'
  BY <1>5, <1>6 DEF Noticed, Watched
<1> QED BY <1>8, <1>9, <1>10, <1>11, <1>14, <1>15, <1>16, <1>17 DEF Inv, Deadlined, Rest

LEMMA PushDeadlineKeeps ==
  ASSUME Inv, NEW s \in Slots, PushDeadline(s)
  PROVE  Inv'
<1>1. /\ slot[s].phase = "wrote" /\ wake' = wake \cup slot[s].until
      /\ slot' = [slot EXCEPT ![s] = Awake]
      /\ UNCHANGED <<job, runs, passed>> /\ UNCHANGED wakeVars /\ UNCHANGED syncVars
  BY DEF PushDeadline, At
<1>2. /\ slot \in [Slots -> SlotTypes] /\ Deadlined /\ Places
      /\ wake \subseteq Deadlines /\ passed \subseteq wake /\ slot[s].until \subseteq Deadlines
  BY SlotFields DEF Inv, TypeOK
<1>3. Only(s) /\ slot'[s] = Awake
  BY <1>1, <1>2, Records, OnlySet
<1>4. \A t \in Slots \ {s} : slot'[t] = slot[t]
  BY <1>3 DEF Only
<1>5. Rest
  BY <1>1, <1>3, Records, FuturesSame, QuietRest, QuietTypes DEF FuturePhases
<1>6. TypeOK'
  BY <1>1, <1>2, <1>3, <1>5 DEF Inv, TypeOK, Only, Rest
<1>7. Places'
  BY <1>1, <1>2, <1>3, Records, OnwardPlaces DEF Onward, Working
<1>8. Carried'
  BY <1>2, <1>3, <1>4, Records DEF Carried, Deadlined
<1>9. Known' \subseteq Known
  <2>1. \A t \in Slots : slot'[t].until \subseteq slot[t].until
    BY <1>3, <1>4, Records
  <2> QED BY <1>1, <2>1 DEF Known
<1>10. Known \subseteq Known'
  <2>1. \A t \in Slots : slot[t].until \subseteq slot'[t].until \cup wake'
    BY <1>1, <1>4
  <2> QED BY <1>1, <2>1 DEF Known
<1>11. \A d \in Known' : Over(d)'
  BY <1>1, <1>2, <1>9 DEF Deadlined, Over
<1>12. slot[s].until \cap wake = {} /\ \A t \in Slots \ {s} : slot[s].until \cap slot[t].until = {}
  BY <1>1, <1>2 DEF New, Deadlined
<1>13. New'
  <2>1. ASSUME NEW t \in Slots, slot'[t].phase = "wrote"
        PROVE  /\ slot'[t].until \cap wake' = {}
               /\ \A u \in Slots \ {t} : slot'[t].until \cap slot'[u].until = {}
    <3>1. t # s /\ slot'[t] = slot[t]
      BY <1>3, <1>4, <2>1, Records
    <3>2. /\ slot[t].until \cap wake = {}
          /\ \A u \in Slots \ {t} : slot[t].until \cap slot[u].until = {}
      BY <1>2, <2>1, <3>1 DEF New, Deadlined
    <3> QED BY <1>1, <1>3, <1>4, <1>12, <3>1, <3>2, Records
  <2> QED BY <2>1 DEF New
<1>14. Waiting'
  <2>1. slot[s].until \subseteq wake' \ passed' /\ wake \ passed \subseteq wake' \ passed'
    BY <1>1, <1>2, <1>12
  <2>2. \A j \in Jobs : Due(j)' = Due(j)
    BY <1>1 DEF Due
  <2> QED BY <1>1, <1>2, <1>4, <2>1, <2>2 DEF Waiting, Deadlined
<1>15. Noticed' /\ Watched'
  BY <1>3, Records DEF Noticed, Watched
<1> QED BY <1>5, <1>6, <1>7, <1>8, <1>11, <1>13, <1>14, <1>15 DEF Inv, Deadlined, Rest

-----------------------------------------------------------------------------
(* Steps of the world.                                                     *)

\* Nothing but permits and wake-up flags changes.
LEMMA SameSlotsStep ==
  ASSUME Inv, UNCHANGED jobVars, UNCHANGED slot, Rest
  PROVE  Inv'
<1>1. UNCHANGED <<job, runs, wake, passed, slot>>
  BY DEF jobVars
<1>2. TypeOK'
  BY <1>1 DEF Inv, TypeOK, Rest
<1>3. Places'
  BY <1>1 DEF Inv, Places, SlotOK, JobOK, Exclusive
<1>4. Deadlined'
  BY <1>1 DEF Inv, Deadlined, Carried, Known, Over, New, Waiting, Noticed, Watched, Due, Sleepless
<1> QED BY <1>2, <1>3, <1>4 DEF Inv, Rest

LEMMA ThreadKeeps ==
  ASSUME Inv, EndOrphan \/ Release
  PROVE  Inv'
<1>1. /\ UNCHANGED jobVars /\ UNCHANGED wakeVars /\ UNCHANGED slot
      /\ permits \in 0 .. SyncPool /\ orphans \in Nat /\ releasing \in Nat
  BY DEF EndOrphan, Release, Inv, TypeOK
<1>2. PICK k \in Nat : k = Cardinality(Futures)
  BY FuturesCount
<1>3. permits + orphans + releasing + k = SyncPool
  BY <1>2, Permits DEF Inv
<1>4. Futures' = Futures
  BY <1>1 DEF Futures
<1>5. /\ permits' \in Nat /\ orphans' \in Nat /\ releasing' \in Nat
      /\ permits' + orphans' + releasing' + k = SyncPool
  <2>1. CASE EndOrphan
    <3>1. orphans > 0 /\ orphans' = orphans - 1 /\ releasing' = releasing + 1 /\ permits' = permits
      BY <2>1 DEF EndOrphan
    <3> QED BY <1>1, <1>3, <3>1, Records
  <2>2. CASE Release
    <3>1. releasing > 0 /\ releasing' = releasing - 1 /\ permits' = permits + 1 /\ orphans' = orphans
      BY <2>2 DEF Release
    <3> QED BY <1>1, <1>3, <3>1, Records
  <2> QED BY <2>1, <2>2
<1>6. PermitsMatchThreads'
  BY <1>2, <1>4, <1>5 DEF PermitsMatchThreads, Futures, FuturePhases
<1>7. permits' \in 0 .. SyncPool
  BY <1>2, <1>5, Records
<1>8. Rest
  BY <1>1, <1>5, <1>6, <1>7, QuietTypes DEF Rest
<1> QED BY <1>1, <1>8, SameSlotsStep

LEMMA ListenerDiesKeeps ==
  ASSUME Inv, ListenerDies
  PROVE  Inv'
<1>1. /\ UNCHANGED jobVars /\ UNCHANGED slot /\ UNCHANGED syncVars
      /\ listening' = FALSE /\ note' = FALSE /\ event' = event
  BY DEF ListenerDies
<1>2. Futures' = Futures
  BY <1>1 DEF Futures
<1>3. Rest
  BY <1>1, <1>2, QuietRest DEF Inv, TypeOK
<1> QED BY <1>1, <1>3, SameSlotsStep

\* A job becomes due: a new one, or a short retry, whose deadline somebody knows.
LEMMA DueKeeps ==
  ASSUME Inv, NEW j \in Jobs, Arrive(j) \/ ComeDue(j)
  PROVE  Inv'
<1>1. /\ job[j] \in {"unborn", "soon"} /\ job' = [job EXCEPT ![j] = "queued"]
      /\ UNCHANGED <<runs, wake, passed, slot, event, listening>> /\ UNCHANGED syncVars
      /\ note' \in {note, listening}
  BY DEF Arrive, ComeDue, wakeVars
<1>2. /\ job \in [Jobs -> {"unborn", "queued", "held", "soon", "settled"}]
      /\ Deadlined /\ Places
  BY DEF Inv, TypeOK
<1>3. /\ \A k \in Jobs \ {j} : job'[k] = job[k]
      /\ job'[j] = "queued" /\ \A k \in Jobs : Due(k)' = Due(k)
  BY <1>1, <1>2 DEF Due
<1>4. Futures' = Futures
  BY <1>1 DEF Futures
<1>5. Rest
  BY <1>1, <1>4, QuietRest DEF Inv, TypeOK
<1>6. TypeOK'
  BY <1>1, <1>2, <1>5 DEF Inv, TypeOK, Rest
<1>7. Places'
  <2>1. \A t \in Slots : SlotOK(t)'
    BY <1>1, <1>2, <1>3 DEF Places, SlotOK
  <2>2. \A k \in Jobs : JobOK(k)'
    BY <1>1, <1>2, <1>3 DEF Places, JobOK
  <2>3. Exclusive'
    BY <1>1, <1>2 DEF Places, Exclusive
  <2> QED BY <2>1, <2>2, <2>3 DEF Places
<1>8. Known' = Known
  BY <1>1, KnownSame
<1>9. \A d \in Known' : Over(d)'
  <2>1. Known \subseteq Deadlines
    BY SlotFields DEF Known, Inv, TypeOK
  <2>2. ASSUME NEW d \in Known PROVE Over(d)'
    <3>1. d[1] \in Jobs /\ Over(d)
      BY <1>2, <2>1, <2>2, DeadlineFields DEF Deadlined
    <3> QED BY <1>1, <1>3, <3>1 DEF Over
  <2> QED BY <1>8, <2>2
<1>10. Carried' /\ New'
  BY <1>1, <1>2 DEF Carried, New, Deadlined
<1>11. Waiting'
  BY <1>1, <1>2, <1>3 DEF Waiting, Deadlined
<1>12. Noticed'
  <2>1. ASSUME runs[j] > 0 PROVE Due(j) \in Known
    <3>1. job[j] = "soon"
      BY <1>1, <1>2, <2>1 DEF Places, JobOK
    <3>2. Due(j) \in wake \/ \E s \in Slots : Due(j) \in slot[s].until
      BY <1>2, <3>1 DEF Waiting, Deadlined
    <3> QED BY <3>2 DEF Known
  <2> QED BY <1>1, <1>2, <1>3, <1>8, <2>1 DEF Noticed, Deadlined
<1>13. Watched'
  BY <1>1, <1>2 DEF Watched, Deadlined, Sleepless
<1> QED BY <1>5, <1>6, <1>7, <1>9, <1>10, <1>11, <1>12, <1>13 DEF Inv, Deadlined, Rest

\* A deadline passes once its job is due.
LEMMA PassKeeps ==
  ASSUME Inv, NEW d \in wake, Pass(d)
  PROVE  Inv'
<1>1. /\ ~(job[d[1]] = "soon" /\ runs[d[1]] = d[2]) /\ passed' = passed \cup {d}
      /\ UNCHANGED <<job, runs, wake, slot>> /\ UNCHANGED wakeVars /\ UNCHANGED syncVars
  BY DEF Pass
<1>2. Deadlined /\ Places /\ d \in Deadlines
  BY DEF Inv, TypeOK
<1>3. Futures' = Futures /\ Known' = Known /\ \A k \in Jobs : Due(k)' = Due(k)
  BY <1>1, KnownSame DEF Futures, Due
<1>4. Rest
  BY <1>1, <1>3, QuietRest, QuietTypes
<1>5. TypeOK'
  BY <1>1, <1>4 DEF Inv, TypeOK, Rest
<1>6. Places'
  BY <1>1, <1>2 DEF Places, SlotOK, JobOK, Exclusive
<1>7. Carried' /\ New' /\ \A e \in Known' : Over(e)'
  BY <1>1, <1>2, <1>3 DEF Carried, New, Deadlined, Over
<1>8. Waiting'
  <2>1. \A j \in Jobs : job[j] = "soon" => Due(j) # d
    BY <1>1 DEF Due
  <2> QED BY <1>1, <1>2, <1>3, <2>1 DEF Waiting, Deadlined
<1>9. Noticed'
  BY <1>1, <1>2, <1>3 DEF Noticed, Deadlined
<1>10. Watched'
  <2>1. \A s \in Slots : Sleepless(s) => Sleepless(s)'
    BY <1>1 DEF Sleepless
  <2> QED BY <1>1, <1>2, <2>1 DEF Watched, Deadlined
<1> QED BY <1>4, <1>5, <1>6, <1>7, <1>8, <1>9, <1>10 DEF Inv, Deadlined, Rest

\* A notification wakes every slot that sleeps.
LEMMA DeliverKeeps ==
  ASSUME Inv, Deliver
  PROVE  Inv'
<1>1. /\ note' = FALSE /\ event' = TRUE /\ UNCHANGED listening
      /\ slot' = [s \in Slots |-> IF slot[s].phase = "asleep" THEN Awake ELSE slot[s]]
      /\ UNCHANGED <<job, runs, wake, passed>> /\ UNCHANGED syncVars
  BY DEF Deliver, At, jobVars
<1>2. slot \in [Slots -> SlotTypes] /\ Deadlined /\ Places
  BY DEF Inv, TypeOK
<1>3. /\ slot' \in [Slots -> SlotTypes]
      /\ \A s \in Slots : /\ slot[s].phase = "asleep" => slot'[s] = Awake
                          /\ slot[s].phase # "asleep" => slot'[s] = slot[s]
  BY <1>1, <1>2, Records
<1>4. Futures' = Futures
  BY <1>3, Records DEF Futures, FuturePhases
<1>5. Rest
  BY <1>1, <1>4, QuietRest DEF Inv, TypeOK
<1>6. TypeOK'
  BY <1>1, <1>3, <1>5 DEF Inv, TypeOK, Rest
<1>7. Places'
  <2>1. \A s \in Slots : slot'[s].phase \in Working => slot'[s] = slot[s]
    BY <1>3, Records DEF Working
  <2>2. \A s \in Slots : SlotOK(s)'
    <3>1. ASSUME NEW s \in Slots PROVE SlotOK(s)'
      <4>1. CASE slot'[s] = slot[s]
        BY <1>1, <1>2, <4>1 DEF Places, SlotOK
      <4>2. CASE slot'[s] = Awake
        BY <4>2, Records DEF SlotOK, Working
      <4> QED BY <1>3, <4>1, <4>2
    <3> QED BY <3>1
  <2>3. (\A j \in Jobs : JobOK(j)') /\ Exclusive'
    BY <1>1, <1>2, <2>1 DEF Places, JobOK, Exclusive
  <2> QED BY <2>2, <2>3 DEF Places
<1>8. \A s \in Slots : /\ slot'[s].until \subseteq slot[s].until
                       /\ slot'[s].phase = "wrote" <=> slot[s].phase = "wrote"
                       /\ slot[s].phase = "wrote" => slot'[s] = slot[s]
  BY <1>3, Records
<1>9. Carried'
  <2>1. ASSUME NEW s \in Slots, slot'[s].until # {}
        PROVE  slot'[s].phase \in {"starting", "asleep", "wrote"}
    <3>1. slot'[s] = slot[s]
      BY <1>3, <2>1, Records
    <3> QED BY <1>2, <2>1, <3>1 DEF Carried, Deadlined
  <2> QED BY <2>1 DEF Carried
<1>10. \A d \in Known' : Over(d)'
  <2>1. Known' \subseteq Known
    BY <1>1, <1>8 DEF Known
  <2> QED BY <1>1, <1>2, <2>1 DEF Deadlined, Over
<1>11. New'
  <2>1. ASSUME NEW t \in Slots, slot'[t].phase = "wrote"
        PROVE  /\ slot'[t].until \cap wake' = {}
               /\ \A u \in Slots \ {t} : slot'[t].until \cap slot'[u].until = {}
    <3>1. /\ slot[t].until \cap wake = {}
          /\ \A u \in Slots \ {t} : slot[t].until \cap slot[u].until = {}
      BY <1>2, <1>8, <2>1 DEF New, Deadlined
    <3> QED BY <1>1, <1>8, <3>1
  <2> QED BY <2>1 DEF New
<1>12. \A j \in Jobs : Due(j)' = Due(j)
  BY <1>1 DEF Due
<1>13. Waiting'
  BY <1>1, <1>2, <1>8, <1>12 DEF Waiting, Deadlined
<1>14. CASE \E s \in Slots : slot[s].phase = "asleep"
  <2>1. PICK s \in Slots : slot'[s].phase = "cycle"
    BY <1>3, <1>14, Records
  <2>2. Noticed' /\ Watched'
    BY <2>1 DEF Noticed, Watched
  <2> QED BY <1>5, <1>6, <1>7, <1>9, <1>10, <1>11, <1>13, <2>2 DEF Inv, Deadlined, Rest
<1>15. CASE \A s \in Slots : slot[s].phase # "asleep"
  <2>1. slot' = slot
    BY <1>1, <1>2, <1>15
  <2> QED BY <1>1, <1>5, <2>1, SameSlotsStep DEF jobVars
<1> QED BY <1>14, <1>15

-----------------------------------------------------------------------------
(* Theorems.                                                               *)

LEMMA InitInv == Init => Inv
<1> SUFFICES ASSUME Init PROVE Inv
  OBVIOUS
<1>1. /\ slot \in [Slots -> SlotTypes] /\ \A s \in Slots : slot[s] = Ready
      /\ \A j \in Jobs : job[j] = "unborn" /\ runs[j] = 0 /\ runs[j] < MaxAttempts[j]
  BY Records DEF Init
<1>2. Futures = {}
  BY <1>1, Records DEF Futures, FuturePhases
<1>3. PermitsMatchThreads
  <2>1. permits = SyncPool /\ orphans = 0 /\ releasing = 0
    BY DEF Init
  <2>2. permits + orphans + releasing + Cardinality(Futures) = SyncPool
    BY <1>2, <2>1, FS_EmptySet, Records
  <2> QED BY <2>2, Permits
<1>4. TypeOK
  <2>1. /\ job \in [Jobs -> {"unborn", "queued", "held", "soon", "settled"}]
        /\ runs \in [Jobs -> Nat] /\ \A j \in Jobs : runs[j] <= MaxAttempts[j]
    BY Records DEF Init
  <2>2. permits \in 0 .. SyncPool /\ orphans \in Nat /\ releasing \in Nat
    BY Records DEF Init
  <2> QED BY <1>1, <2>1, <2>2 DEF Init, TypeOK
<1>5. Places
  BY <1>1, Records DEF Places, SlotOK, JobOK, Exclusive, Working
<1>6. wake = {} /\ \A s \in Slots : slot[s].phase = "wantFetch" /\ slot[s].until = {}
  BY <1>1, Records DEF Init
<1>7. Known = {}
  BY <1>6 DEF Known
<1>8. Deadlined
  BY <1>1, <1>6, <1>7 DEF Deadlined, Carried, New, Waiting, Noticed, Watched
<1> QED BY <1>3, <1>4, <1>5, <1>8 DEF Inv

LEMMA StepInv == Inv /\ [Next]_vars => Inv'
<1> SUFFICES ASSUME Inv, [Next]_vars PROVE Inv'
  OBVIOUS
<1>1. CASE UNCHANGED vars
  <2>1. /\ UNCHANGED jobVars /\ UNCHANGED wakeVars /\ UNCHANGED syncVars /\ UNCHANGED slot
    BY <1>1 DEF vars, jobVars, wakeVars, syncVars
  <2>2. Futures' = Futures
    BY <2>1 DEF Futures
  <2> QED BY <2>1, <2>2, QuietRest, QuietTypes, SameSlotsStep
<1>2. CASE World
  BY <1>2, ThreadKeeps, DeliverKeeps, ListenerDiesKeeps, DueKeeps, PassKeeps DEF World
<1>3. ASSUME NEW s \in Slots, SlotStep(s) PROVE Inv'
  <2>1. CASE TimeOut(s)
    BY <2>1, WakeUpKeeps DEF TimeOut, At
  <2>2. CASE Fetched(s)
    BY <2>2, FetchNothingKeeps, FetchKeeps DEF Fetched
  <2> QED BY <1>3, <2>1, <2>2, PhaseKeeps, DozeKeeps, StartWaitKeeps, PermitKeeps, WriteKeeps,
             PushDeadlineKeeps, EndedKeeps DEF SlotStep
<1> QED BY <1>1, <1>2, <1>3 DEF Next

THEOREM WorkerInvariant == Spec => []Inv
<1> QED BY InitInv, StepInv, PTL DEF Spec

\* The slots, jobs and pools of a worker stay within their types; the semaphore's value
\* stays between nothing and the size of the sync pool.
THEOREM WorkerTypes == Spec => []TypeOK
<1>1. Inv => TypeOK
  BY DEF Inv
<1> QED BY <1>1, WorkerInvariant, PTL

\* No permit of the sync pool is lost or handed back twice, by whatever race of the job's
\* timeout with the thread (_execute_job_safely).
THEOREM PermitsConserved == Spec => []PermitsMatchThreads
<1>1. Inv => PermitsMatchThreads
  BY DEF Inv
<1> QED BY <1>1, WorkerInvariant, PTL

\* When all slots sleep, each short retry that waits or has come due has a slot that sleeps
\* no longer than to its deadline, or one is about to wake (on_reschedule, idle_timeout).
THEOREM ShortRetriesAreSleptFor == Spec => []ShortRetriesHaveAWaker
<1>1. ASSUME Inv, \A s \in Slots : At(s, "asleep"), ~\E s \in Slots : Sleepless(s),
             NEW j \in Jobs, job[j] \in {"soon", "queued"}, runs[j] > 0
      PROVE  \E s \in Slots : <<j, runs[j]>> \in slot[s].until
  <2>1. Due(j) \in Known
    <3>1. CASE job[j] = "soon"
      BY <1>1, <3>1 DEF Inv, Deadlined, Waiting, Known, At
    <3>2. CASE job[j] = "queued"
      BY <1>1, <3>2 DEF Inv, Deadlined, Noticed, At
    <3> QED BY <1>1, <3>1, <3>2
  <2>2. CASE Due(j) \in wake
    BY <1>1, <2>2 DEF Inv, Deadlined, Watched, At, Due
  <2>3. CASE \E s \in Slots : Due(j) \in slot[s].until
    BY <2>3 DEF Due
  <2> QED BY <2>1, <2>2, <2>3 DEF Known
<1>2. Inv => ShortRetriesHaveAWaker
  BY <1>1 DEF ShortRetriesHaveAWaker
<1> QED BY <1>2, WorkerInvariant, PTL

==============================================================================
