--------------------------- MODULE JobQueue_proofs ---------------------------
(***************************************************************************)
(* Theorems about JobQueue, for every set of jobs, workers and slots.      *)
(***************************************************************************)
EXTENDS JobQueue, FiniteSetTheorems, TLAPS

-----------------------------------------------------------------------------
(* Type correctness.                                                       *)

\* Every transaction of the storage backend keeps the columns in their types.
LEMMA StoreTypes ==
  ASSUME StoreTypeOK, NEW j \in Jobs, NEW n \in Nat
  PROVE  /\ Insert(j) => StoreTypeOK'
         /\ ComeDue(j) => StoreTypeOK'
         /\ CancelJob(j) => StoreTypeOK'
         /\ DeleteJob(j) => StoreTypeOK'
         /\ NackJob(j) => StoreTypeOK'
         /\ MarkDone(j, n) => StoreTypeOK'
         /\ MarkDeadLetter(j, n) => StoreTypeOK'
         /\ Dropped(j, n) => StoreTypeOK'
         /\ \A k \in Nat : Requeue(j, n, k) => StoreTypeOK'
         /\ \A w \in Workers \cup {NoWorker} : FetchAndLock(j, w) => StoreTypeOK'
<1> USE DEF StoreTypeOK, JobStates, RowStates, BeatStates, workerVars, storeVars
<1>1. Insert(j) => StoreTypeOK'
  BY DEF Insert
<1>2. ComeDue(j) => StoreTypeOK'
  BY DEF ComeDue
<1>3. CancelJob(j) => StoreTypeOK'
  BY DEF CancelJob
<1>4. DeleteJob(j) => StoreTypeOK'
  BY StoreAssumption DEF DeleteJob, Remove
<1>5. NackJob(j) => StoreTypeOK'
  BY StoreAssumption DEF NackJob
<1>6. MarkDone(j, n) => StoreTypeOK'
  <2> SUFFICES ASSUME MarkDone(j, n) PROVE StoreTypeOK'
    OBVIOUS
  <2>1. CASE Remove(j)
    BY <2>1 DEF MarkDone, Remove
  <2>2. CASE status' = [status EXCEPT ![j] = "done"] /\ UNCHANGED <<attempts, owner, due>>
    BY <2>2 DEF MarkDone
  <2>3. QED
    BY <2>1, <2>2 DEF MarkDone
<1>7. MarkDeadLetter(j, n) => StoreTypeOK'
  BY StoreAssumption DEF MarkDeadLetter, Remove
<1>8. Dropped(j, n) => StoreTypeOK'
  BY DEF Dropped
<1>9. \A k \in Nat : Requeue(j, n, k) => StoreTypeOK'
  BY DEF Requeue
<1>10. \A w \in Workers \cup {NoWorker} : FetchAndLock(j, w) => StoreTypeOK'
  BY DEF FetchAndLock
<1>11. QED
  BY <1>1, <1>2, <1>3, <1>4, <1>5, <1>6, <1>7, <1>8, <1>9, <1>10

\* The transactions on workers keep the columns in their types.
LEMMA WorkerTypes ==
  ASSUME StoreTypeOK
  PROVE  /\ CleanupStaleWorkers => StoreTypeOK'
         /\ \A R \in SUBSET Jobs : DeleteExpired(R) => StoreTypeOK'
         /\ \A w \in Workers : RegisterWorker(w) => StoreTypeOK'
         /\ \A w \in Workers : Touch(w) => StoreTypeOK'
         /\ \A w \in Workers : BeatExpires(w) => StoreTypeOK'
<1> USE DEF StoreTypeOK, JobStates, RowStates, BeatStates, jobVars, workerVars
<1>1. CleanupStaleWorkers => StoreTypeOK'
  BY DEF CleanupStaleWorkers
<1>2. \A R \in SUBSET Jobs : DeleteExpired(R) => StoreTypeOK'
  <2> SUFFICES ASSUME NEW R \in SUBSET Jobs, DeleteExpired(R) PROVE StoreTypeOK'
    OBVIOUS
  <2>1. due' \in [Jobs -> BOOLEAN]
    BY Zenon DEF DeleteExpired
  <2>2. owner' \in [Jobs -> Workers \cup {NoWorker}] /\ attempts' \in [Jobs -> Nat]
    BY DEF DeleteExpired
  <2>3. QED
    BY <2>1, <2>2 DEF DeleteExpired
<1>3. \A w \in Workers : RegisterWorker(w) => StoreTypeOK'
  BY DEF RegisterWorker
<1>4. \A w \in Workers : Touch(w) => StoreTypeOK'
  BY DEF Touch
<1>5. \A w \in Workers : BeatExpires(w) => StoreTypeOK'
  BY DEF BeatExpires
<1>6. QED
  BY <1>1, <1>2, <1>3, <1>4, <1>5

\* What happens to the slots keeps them in their types.
SlotTypeOK ==
  /\ pc \in [Slots -> SlotStates]
  /\ held \in [Slots -> Jobs \cup {NoJob}]
  /\ token \in [Slots -> Nat]
  /\ \A s \in Slots : pc[s] \in {"claimed", "running", "recorded"} => held[s] \in Jobs

\* Ending a worker_task or a slot's iteration keeps the slots in their types.
LEMMA SlotTypes ==
  ASSUME SlotTypeOK
  PROVE  /\ \A S \in SUBSET Slots : Exit(S) => SlotTypeOK'
         /\ \A s \in Slots : Release(s) => SlotTypeOK'
<1>1. ASSUME NEW S \in SUBSET Slots, Exit(S) PROVE SlotTypeOK'
  BY <1>1 DEF Exit, SlotTypeOK, SlotStates
<1>2. ASSUME NEW s \in Slots, Release(s) PROVE SlotTypeOK'
  <2>1. PICK p \in {"idle", "exited"} : pc' = [pc EXCEPT ![s] = p]
    BY <1>2 DEF Release
  <2>2. QED
    BY <1>2, <2>1 DEF Release, SlotTypeOK, SlotStates
<1>3. QED
  BY <1>1, <1>2

RestTypeOK ==
  /\ proc \in [Workers -> ProcStates]
  /\ nacks \in [Workers -> SUBSET Jobs]
  /\ faults \in Nat
  /\ spent \in [Jobs -> SUBSET Nat]

\* The type invariant splits into the tables, the slots and the rest.
LEMMA TypeParts == TypeOK <=> StoreTypeOK /\ SlotTypeOK /\ RestTypeOK
  BY DEF TypeOK, SlotTypeOK, RestTypeOK

\* The steps of producers and operators.
LEMMA ClientTypes ==
  ASSUME TypeOK, NEW j \in Jobs, ClientStep(j)
  PROVE  TypeOK'
<1>1. StoreTypeOK'
  BY StoreTypes DEF TypeOK, ClientStep, Enqueue, Elapse, Cancel, Delete
<1>2. UNCHANGED <<proc, pc, held, token, nacks, faults, spent>>
  BY DEF ClientStep, Enqueue, Elapse, Cancel, Delete, slotVars
<1>3. QED
  BY <1>1, <1>2 DEF TypeOK

\* The steps of a slot.
LEMMA SlotStepTypes ==
  ASSUME TypeOK, NEW s \in Slots, SlotStep(s)
  PROVE  TypeOK'
<1> USE DEF RestTypeOK, ProcStates
<1>0. StoreTypeOK /\ SlotTypeOK /\ RestTypeOK
  BY TypeParts
<1>k. token[s] \in Nat /\ (pc[s] # "idle" /\ pc[s] # "exited" => held[s] \in Jobs)
  BY <1>0 DEF SlotTypeOK, SlotStates
<1>u. ASSUME UNCHANGED storeVars PROVE StoreTypeOK'
  BY <1>0, <1>u DEF StoreTypeOK, storeVars
<1>r. ASSUME Recorded(s) PROVE SlotTypeOK' /\ UNCHANGED <<proc, nacks, faults>>
  BY <1>0, <1>r DEF SlotTypeOK, SlotStates, Recorded
<1>1. ASSUME NEW j \in Jobs, Claim(s, j) PROVE TypeOK'
  <2>1. StoreTypeOK'
    <3>1. WorkerOf[s] \in Workers \cup {NoWorker}
      BY QueueAssumption
    <3>2. FetchAndLock(j, WorkerOf[s])
      BY <1>1 DEF Claim
    <3>3. QED
      BY <3>1, <3>2, <1>0, <1>k, StoreTypes
  <2>2. SlotTypeOK'
    BY <1>0, <1>1 DEF Claim, SlotTypeOK, SlotStates, StoreTypeOK
  <2>3. RestTypeOK'
    BY <1>0, <1>1 DEF Claim
  <2>4. QED
    BY <2>1, <2>2, <2>3, TypeParts DEF TypeOK, SlotTypeOK
<1>2. CASE Reject(s)
  <2>1. StoreTypeOK'
    BY <1>0, <1>2, <1>k, StoreTypes DEF Reject
  <2>2. SlotTypeOK'
    BY <1>0, <1>2, SlotTypes DEF Reject
  <2>3. RestTypeOK'
    BY <1>0, <1>2 DEF Reject
  <2>4. QED
    BY <2>1, <2>2, <2>3 DEF TypeOK, SlotTypeOK
<1>3. CASE Begin(s)
  <2>1. StoreTypeOK'
    BY <1>u, <1>3 DEF Begin
  <2>2. SlotTypeOK'
    BY <1>0, <1>3 DEF Begin, SlotTypeOK, SlotStates
  <2>3. RestTypeOK'
    BY <1>0, <1>3, <1>k DEF Begin
  <2>4. QED
    BY <2>1, <2>2, <2>3 DEF TypeOK, SlotTypeOK
<1>4. CASE Succeed(s) \/ Retry(s) \/ GiveUp(s)
  <2>1. Recorded(s) /\ held[s] \in Jobs /\ UNCHANGED spent
    BY <1>4, <1>k DEF Succeed, Retry, GiveUp, Recorded
  <2>2. StoreTypeOK'
    BY <1>0, <1>4, <1>k, <2>1, StoreTypes DEF Succeed, Retry, GiveUp
  <2>3. QED
    BY <1>0, <1>r, <2>1, <2>2 DEF TypeOK, SlotTypeOK
<1>5. CASE Snooze(s)
  <2>1. Recorded(s) /\ held[s] \in Jobs
    BY <1>5, <1>k DEF Snooze, Recorded
  <2>2. (IF token[s] > 0 THEN token[s] - 1 ELSE 0) \in Nat
    BY <1>k
  <2>3. StoreTypeOK'
    BY <1>0, <1>5, <1>k, <2>1, <2>2, StoreTypes DEF Snooze, Reschedule
  <2>4. spent' \in [Jobs -> SUBSET Nat]
    BY <1>0, <1>5, <2>1 DEF Snooze, Reschedule
  <2>5. QED
    BY <1>0, <1>r, <2>1, <2>3, <2>4 DEF TypeOK, SlotTypeOK
<1>6. CASE Clear(s) \/ Clash(s) \/ Fault(s)
  <2>1. StoreTypeOK'
    BY <1>u, <1>6 DEF Clear, Clash, Fault
  <2>2. SlotTypeOK'
    BY <1>0, <1>6, SlotTypes DEF Clear, Clash, Fault
  <2>3. RestTypeOK'
    BY <1>0, <1>6 DEF Clear, Clash, Fault
  <2>4. QED
    BY <2>1, <2>2, <2>3 DEF TypeOK, SlotTypeOK
<1>7. CASE Abort(s)
  <2>1. StoreTypeOK'
    BY <1>u, <1>7 DEF Abort
  <2>2. SlotTypeOK'
    BY <1>0, <1>7 DEF Abort, SlotTypeOK, SlotStates
  <2>3. QED
    BY <1>0, <1>7, <2>1, <2>2 DEF TypeOK, SlotTypeOK, Abort
<1>8. CASE FetchNothing(s)
  <2>1. StoreTypeOK'
    BY <1>u, <1>8 DEF FetchNothing
  <2>2. SlotTypeOK'
    BY <1>0, <1>8, SlotTypes DEF FetchNothing
  <2>3. QED
    BY <1>0, <1>8, <2>1, <2>2 DEF TypeOK, SlotTypeOK, FetchNothing
<1>9. QED
  BY <1>1, <1>2, <1>3, <1>4, <1>5, <1>6, <1>7, <1>8 DEF SlotStep

\* The steps of a worker process.
LEMMA WorkerStepTypes ==
  ASSUME TypeOK, NEW w \in Workers, WorkerStep(w)
  PROVE  TypeOK'
<1> USE DEF RestTypeOK, ProcStates
<1>0. StoreTypeOK /\ SlotTypeOK /\ RestTypeOK
  BY TypeParts
<1>u. ASSUME UNCHANGED storeVars PROVE StoreTypeOK'
  BY <1>0, <1>u DEF StoreTypeOK, storeVars
<1>s. ASSUME UNCHANGED slotVars PROVE SlotTypeOK'
  BY <1>0, <1>s DEF SlotTypeOK, slotVars
<1>o. SlotsOf(w) \in SUBSET Slots
  BY DEF SlotsOf
<1>c. ASSUME StoreTypeOK', SlotTypeOK', RestTypeOK' PROVE TypeOK'
  BY <1>c DEF TypeOK, SlotTypeOK
<1>1. CASE Start(w) \/ Heartbeat(w) \/ Age(w) \/ Sweep(w)
  <2>1. StoreTypeOK'
    BY <1>0, <1>1, WorkerTypes DEF Start, Heartbeat, Age, Sweep
  <2>2. SlotTypeOK'
    BY <1>s, <1>1 DEF Start, Heartbeat, Age, Sweep
  <2>3. RestTypeOK'
    BY <1>0, <1>1 DEF Start, Heartbeat, Age, Sweep
  <2>4. QED
    BY <1>c, <2>1, <2>2, <2>3
<1>2. CASE Expire(w)
  <2>1. StoreTypeOK'
    BY <1>0, <1>2, WorkerTypes DEF Expire
  <2>2. SlotTypeOK'
    BY <1>s, <1>2 DEF Expire
  <2>3. RestTypeOK'
    BY <1>0, <1>2 DEF Expire
  <2>4. QED
    BY <1>c, <2>1, <2>2, <2>3
<1>3. CASE Drain(w) \/ GraceExpires(w) \/ Crash(w)
  <2>1. StoreTypeOK'
    BY <1>u, <1>3 DEF Drain, GraceExpires, Crash
  <2>2. PICK S \in SUBSET Slots : Exit(S)
    BY <1>3, <1>o DEF Drain, GraceExpires, Crash
  <2>3. SlotTypeOK'
    BY <1>0, <2>2, SlotTypes
  <2>4. RestTypeOK'
    BY <1>0, <1>3 DEF Drain, GraceExpires, Crash
  <2>5. QED
    BY <1>c, <2>1, <2>3, <2>4
<1>4. CASE ForceTimeout(w)
  <2> DEFINE syncs == {s \in SlotsOf(w) : Populated(s) /\ held[s] \in SyncJobs}
             asyncs == {s \in SlotsOf(w) : Populated(s)} \ syncs
  <2>1. /\ proc' = [proc EXCEPT ![w] = "forced"]
        /\ nacks' = [nacks EXCEPT ![w] = {held[s] : s \in asyncs}]
        /\ Exit(SlotsOf(w) \ syncs)
        /\ UNCHANGED <<storeVars, faults, spent>>
    BY <1>4 DEF ForceTimeout
  <2>2. \A s \in asyncs : held[s] \in Jobs
    BY <1>0, <1>o DEF SlotTypeOK, Populated
  <2>3. {held[s] : s \in asyncs} \in SUBSET Jobs
    BY <2>2
  <2> HIDE DEF asyncs
  <2>4. SlotsOf(w) \ syncs \in SUBSET Slots
    BY <1>o
  <2> HIDE DEF syncs
  <2>5. SlotTypeOK'
    BY <1>0, <2>1, <2>4, SlotTypes
  <2>6. RestTypeOK'
    BY <1>0, <2>1, <2>3
  <2>7. QED
    BY <1>c, <1>u, <2>1, <2>5, <2>6
<1>5. CASE Stop(w)
  <2>1. StoreTypeOK'
    BY <1>0, <1>u, <1>5, WorkerTypes DEF Stop
  <2>2. SlotTypeOK'
    BY <1>s, <1>5 DEF Stop
  <2>3. RestTypeOK'
    BY <1>0, <1>5 DEF Stop
  <2>4. QED
    BY <1>c, <2>1, <2>2, <2>3
<1>6. ASSUME NEW j \in Jobs, Nack(w, j) PROVE TypeOK'
  <2>1. StoreTypeOK'
    BY <1>0, <1>u, <1>6, StoreTypes DEF Nack
  <2>2. SlotTypeOK'
    BY <1>s, <1>6 DEF Nack
  <2>3. RestTypeOK'
    BY <1>0, <1>6 DEF Nack
  <2>4. QED
    BY <1>c, <2>1, <2>2, <2>3
<1>7. QED
  BY <1>1, <1>2, <1>3, <1>4, <1>5, <1>6 DEF WorkerStep

\* Every step keeps the types.
LEMMA TypeStep == TypeOK /\ [Next]_vars => TypeOK'
<1> SUFFICES ASSUME TypeOK, [Next]_vars PROVE TypeOK'
  OBVIOUS
<1>1. CASE UNCHANGED vars
  BY <1>1 DEF TypeOK, StoreTypeOK, vars, storeVars, slotVars
<1>2. CASE Next
  BY <1>2, ClientTypes, SlotStepTypes, WorkerStepTypes DEF Next
<1>3. QED
  BY <1>1, <1>2

\* The empty database and fleet have the types.
LEMMA TypeInit == Init => TypeOK
  BY StoreAssumption, QueueAssumption
  DEF Init, TypeOK, StoreInit, StoreTypeOK, JobStates, RowStates, BeatStates,
      ProcStates, SlotStates

\* Every variable keeps its type, however the transactions, slots and workers interleave.
THEOREM TypeCorrect == Spec => []TypeOK
<1>1. QED
  BY TypeInit, TypeStep, PTL DEF Spec

-----------------------------------------------------------------------------
(* The claim fence.                                                        *)

\* A step is quiet for the rows if it neither opens a row for claims nor takes an attempt
\* back, and for the slots if no slot gains a claim.
RowsQuiet ==
  /\ \A j \in Jobs : status'[j] \in {"queued", "processing"} =>
       status[j] \in {"queued", "processing"} /\ attempts[j] <= attempts'[j]
  /\ \A j \in Jobs : status'[j] = "unborn" => status[j] = "unborn" /\ attempts'[j] = attempts[j]
  /\ \A j \in dead' : status'[j] = "gone"

SlotsQuiet ==
  \A s \in Slots :
    Live(s)' => Live(s) /\ held'[s] = held[s] /\ token'[s] = token[s]
                /\ (pc'[s] = "claimed" => pc[s] = "claimed")

\* A step whose changes to rows and slots are quiet keeps ClaimInv.
LEMMA QuietStep ==
  ASSUME TypeOK, TypeOK', ClaimInv, RowsQuiet, SlotsQuiet, UNCHANGED spent
  PROVE  ClaimInv'
<1>h. \A s \in Slots : Live(s)' => held[s] \in Jobs /\ token[s] \in Nat
  BY DEF SlotsQuiet, Live, TypeOK, SlotStates
<1>a. \A j \in Jobs : attempts[j] \in Nat /\ attempts'[j] \in Nat
  BY DEF TypeOK, StoreTypeOK
<1>1. \A s, t \in Slots : Live(s)' /\ Live(t)' /\ held'[s] = held'[t] /\ s # t
                            => token'[s] # token'[t]
  BY DEF ClaimInv, SlotsQuiet
<1>2. \A s \in Slots : Live(s)' => status'[held'[s]] # "unborn"
  BY <1>h DEF ClaimInv, SlotsQuiet, RowsQuiet
<1>3. \A s \in Slots : Live(s)' /\ status'[held'[s]] \in {"queued", "processing"}
                         => token'[s] <= attempts'[held'[s]]
  BY <1>h, <1>a DEF ClaimInv, SlotsQuiet, RowsQuiet
<1>4. \A j \in Jobs : status'[j] \in {"unborn", "queued", "processing"}
                        => \A n \in spent'[j] : n <= attempts'[j]
  <2>1. \A j \in Jobs : \A n \in spent[j] : n \in Nat
    BY DEF TypeOK
  <2>2. QED
    BY <1>a, <2>1 DEF ClaimInv, RowsQuiet
<1>5. \A j \in dead' : status'[j] = "gone"
  BY DEF RowsQuiet
<1>6. AttemptRunsOnce'
  BY DEF ClaimInv, AttemptRunsOnce, SlotsQuiet, Live
<1>7. QED
  BY <1>1, <1>2, <1>3, <1>4, <1>5, <1>6 DEF ClaimInv

\* The transactions that are quiet for the rows.
LEMMA QuietTransactions ==
  ASSUME StoreTypeOK, \A j \in dead : status[j] = "gone", NEW j \in Jobs, NEW n \in Nat
  PROVE  /\ UNCHANGED storeVars => RowsQuiet
         /\ ComeDue(j) => RowsQuiet
         /\ CancelJob(j) => RowsQuiet
         /\ DeleteJob(j) => RowsQuiet
         /\ NackJob(j) => RowsQuiet
         /\ MarkDone(j, n) => RowsQuiet
         /\ MarkDeadLetter(j, n) => RowsQuiet
         /\ Dropped(j, n) => RowsQuiet
         /\ Requeue(j, n, n) => RowsQuiet
         /\ \A w \in Workers \cup {NoWorker} : FetchAndLock(j, w) => RowsQuiet
<1> USE DEF StoreTypeOK, RowsQuiet, storeVars
<1>1. UNCHANGED storeVars => RowsQuiet
  OBVIOUS
<1>2. ComeDue(j) => RowsQuiet
  BY DEF ComeDue
<1>3. CancelJob(j) => RowsQuiet
  BY DEF CancelJob
<1>4. DeleteJob(j) => RowsQuiet
  BY DEF DeleteJob, Remove
<1>5. NackJob(j) => RowsQuiet
  BY DEF NackJob
<1>6. MarkDone(j, n) => RowsQuiet
  BY DEF MarkDone, Remove, Matches
<1>7. MarkDeadLetter(j, n) => RowsQuiet
  BY DEF MarkDeadLetter, Remove
<1>8. Dropped(j, n) => RowsQuiet
  BY DEF Dropped
<1>9. Requeue(j, n, n) => RowsQuiet
  BY DEF Requeue, Matches
<1>10. \A w \in Workers \cup {NoWorker} : FetchAndLock(j, w) => RowsQuiet
  BY DEF FetchAndLock
<1>11. QED
  BY <1>1, <1>2, <1>3, <1>4, <1>5, <1>6, <1>7, <1>8, <1>9, <1>10

\* The transactions on workers make quiet changes: a sweep or a takeover of dead processes
\* moves rows back to 'queued' with their attempts.
LEMMA QuietWorkerTransactions ==
  ASSUME StoreTypeOK, \A j \in dead : status[j] = "gone"
  PROVE  /\ CleanupStaleWorkers => RowsQuiet
         /\ \A R \in SUBSET Jobs : DeleteExpired(R) => RowsQuiet
         /\ \A w \in Workers : RegisterWorker(w) \/ Touch(w) \/ BeatExpires(w) => RowsQuiet
<1> USE DEF StoreTypeOK, RowsQuiet, jobVars, workerVars
<1>1. CleanupStaleWorkers => RowsQuiet
  BY DEF CleanupStaleWorkers, ProcessingOf
<1>2. ASSUME NEW R \in SUBSET Jobs, DeleteExpired(R) PROVE RowsQuiet
  BY <1>2 DEF DeleteExpired
<1>3. ASSUME NEW w \in Workers, RegisterWorker(w) PROVE RowsQuiet
  BY <1>3 DEF RegisterWorker, ProcessingOf
<1>4. ASSUME NEW w \in Workers, Touch(w) \/ BeatExpires(w) PROVE RowsQuiet
  BY <1>4 DEF Touch, BeatExpires
<1>5. QED
  BY <1>1, <1>2, <1>3, <1>4

\* Ending a worker_task, an iteration or an execution makes quiet changes to the slots.
LEMMA QuietSlots ==
  ASSUME SlotTypeOK
  PROVE  /\ \A S \in SUBSET Slots : Exit(S) => SlotsQuiet
         /\ \A s \in Slots : Release(s) \/ Recorded(s) \/ Abort(s) => SlotsQuiet
         /\ UNCHANGED slotVars => SlotsQuiet
<1> USE DEF SlotTypeOK, SlotsQuiet, Live
<1>1. ASSUME NEW S \in SUBSET Slots, Exit(S) PROVE SlotsQuiet
  BY <1>1 DEF Exit
<1>2. ASSUME NEW s \in Slots, Release(s) PROVE SlotsQuiet
  <2>1. PICK p \in {"idle", "exited"} : pc' = [pc EXCEPT ![s] = p]
    BY <1>2 DEF Release
  <2>2. QED
    BY <1>2, <2>1 DEF Release
<1>3. ASSUME NEW s \in Slots, Recorded(s) \/ Abort(s) PROVE SlotsQuiet
  BY <1>3 DEF Recorded, Abort
<1>4. UNCHANGED slotVars => SlotsQuiet
  BY DEF slotVars
<1>5. QED
  BY <1>1, <1>2, <1>3, <1>4

\* The three steps that are not quiet: a new row, a claim, and a snooze.
LEMMA EnqueueKeepsClaimInv ==
  ASSUME TypeOK, ClaimInv, NEW j \in Jobs, Enqueue(j)
  PROVE  ClaimInv'
<1> USE DEF Enqueue, Insert, workerVars, slotVars
<1>1. \A s \in Slots : Live(s)' => Live(s) /\ held[s] # j
  BY DEF ClaimInv, Live
<1>2. \A s \in Slots : Live(s) => held[s] \in Jobs
  BY DEF Live, TypeOK
<1>3. \A i \in Jobs : i # j => status'[i] = status[i]
  BY DEF TypeOK, StoreTypeOK
<1>4. status[j] = "unborn" /\ status'[j] = "queued" /\ j \notin dead
  BY DEF TypeOK, StoreTypeOK, ClaimInv
<1>5. QED
  BY <1>1, <1>2, <1>3, <1>4 DEF ClaimInv, AttemptRunsOnce, Live, TypeOK, StoreTypeOK

\* A claim gets an attempt number that no live slot has and that was never executed.
LEMMA ClaimKeepsClaimInv ==
  ASSUME TypeOK, ClaimInv, NEW s \in Slots, NEW j \in Jobs, Claim(s, j)
  PROVE  ClaimInv'
<1>1. /\ pc' = [pc EXCEPT ![s] = "claimed"]
      /\ held' = [held EXCEPT ![s] = j]
      /\ token' = [token EXCEPT ![s] = attempts[j] + 1]
      /\ status' = [status EXCEPT ![j] = "processing"]
      /\ attempts' = [attempts EXCEPT ![j] = @ + 1]
      /\ status[j] = "queued" /\ pc[s] = "idle"
      /\ UNCHANGED <<spent, dead>>
  BY DEF Claim, FetchAndLock
<1>t. /\ attempts \in [Jobs -> Nat] /\ token \in [Slots -> Nat] /\ status \in [Jobs -> JobStates]
      /\ pc \in [Slots -> SlotStates] /\ held \in [Slots -> Jobs \cup {NoJob}]
      /\ spent \in [Jobs -> SUBSET Nat] /\ dead \subseteq Jobs
  BY DEF TypeOK, StoreTypeOK
<1>2. \A t \in Slots : t # s => /\ pc'[t] = pc[t] /\ held'[t] = held[t] /\ token'[t] = token[t]
                               /\ (Live(t)' <=> Live(t))
  BY <1>1, <1>t DEF Live
<1>3. held'[s] = j /\ token'[s] = attempts[j] + 1 /\ pc'[s] = "claimed"
  BY <1>1, <1>t
<1>4. \A t \in Slots : t # s /\ Live(t) /\ held[t] = j => token[t] <= attempts[j]
  BY <1>1 DEF ClaimInv
<1>5. \A n \in spent[j] : n <= attempts[j]
  BY <1>1 DEF ClaimInv
<1>6. \A t, u \in Slots : Live(t)' /\ Live(u)' /\ held'[t] = held'[u] /\ t # u
                            => token'[t] # token'[u]
  BY <1>2, <1>3, <1>4, <1>t DEF ClaimInv
<1>7. \A t \in Slots : Live(t)' => status'[held'[t]] # "unborn"
  <2>1. \A t \in Slots : Live(t) => held[t] \in Jobs
    BY DEF Live, TypeOK
  <2>2. QED
    BY <1>1, <1>2, <1>3, <1>t, <2>1 DEF ClaimInv
<1>8. \A t \in Slots : Live(t)' /\ status'[held'[t]] \in {"queued", "processing"}
                         => token'[t] <= attempts'[held'[t]]
  <2>1. \A t \in Slots : Live(t) => held[t] \in Jobs
    BY DEF Live, TypeOK
  <2>2. \A t \in Slots : t # s /\ Live(t) /\ held[t] = j => token[t] <= attempts'[j]
    BY <1>1, <1>4, <1>t
  <2>3. \A t \in Slots : t # s /\ Live(t) /\ held[t] # j =>
          status'[held[t]] = status[held[t]] /\ attempts'[held[t]] = attempts[held[t]]
    BY <1>1, <1>t, <2>1
  <2>4. token'[s] <= attempts'[held'[s]]
    BY <1>1, <1>3, <1>t
  <2>5. QED
    BY <1>2, <2>2, <2>3, <2>4 DEF ClaimInv
<1>9. \A i \in Jobs : status'[i] \in {"unborn", "queued", "processing"}
                        => \A n \in spent'[i] : n <= attempts'[i]
  BY <1>1, <1>5, <1>t DEF ClaimInv
<1>10. \A i \in dead' : status'[i] = "gone"
  BY <1>1, <1>t DEF ClaimInv
<1>11. AttemptRunsOnce'
  <2>1. attempts[j] + 1 \notin spent[j]
    BY <1>5, <1>t
  <2>2. QED
    BY <1>1, <1>2, <1>3, <2>1 DEF ClaimInv, AttemptRunsOnce
<1>12. QED
  BY <1>6, <1>7, <1>8, <1>9, <1>10, <1>11 DEF ClaimInv

\* A snooze counts attempts down, and only for the slot with the row's highest claim.
LEMMA SnoozeKeepsClaimInv ==
  ASSUME TypeOK, TypeOK', ClaimInv, NEW s \in Slots, Snooze(s)
  PROVE  ClaimInv'
<1> DEFINE j == held[s]
           n == token[s]
<1>t. /\ attempts \in [Jobs -> Nat] /\ token \in [Slots -> Nat] /\ status \in [Jobs -> JobStates]
      /\ pc \in [Slots -> SlotStates] /\ spent \in [Jobs -> SUBSET Nat] /\ dead \subseteq Jobs
  BY DEF TypeOK, StoreTypeOK
<1>r. /\ pc[s] = "running" /\ pc' = [pc EXCEPT ![s] = "recorded"]
      /\ UNCHANGED <<held, token>>
  BY DEF Snooze, Recorded
<1>j. j \in Jobs /\ n \in Nat
  BY <1>r, <1>t DEF TypeOK
<1>l. \A t \in Slots : Live(t)' => Live(t) /\ t # s /\ pc'[t] = pc[t]
  BY <1>r, <1>t DEF Live
<1>1. CASE Dropped(j, n) /\ UNCHANGED spent
  <2>1. RowsQuiet
    BY <1>1, <1>j, QuietTransactions DEF TypeOK, ClaimInv
  <2>2. SlotsQuiet
    BY <1>l, <1>r DEF SlotsQuiet
  <2>3. QED
    BY <1>1, <2>1, <2>2, QuietStep
<1>2. CASE /\ Requeue(j, n, IF n > 0 THEN n - 1 ELSE 0)
           /\ spent' = [spent EXCEPT ![j] = @ \ {n}]
  <2>1. /\ status[j] = "processing" /\ attempts[j] = n
        /\ status' = [status EXCEPT ![j] = "queued"]
        /\ attempts' = [attempts EXCEPT ![j] = IF n > 0 THEN n - 1 ELSE 0]
        /\ dead' = dead
    BY <1>2 DEF Requeue, Matches
  <2>2. \A t \in Slots : Live(t)' => held[t] \in Jobs /\ token[t] \in Nat
    BY <1>l, <1>t DEF Live, TypeOK
  <2>3. \A m \in Nat : m <= n /\ m # n => m <= attempts'[j]
    BY <1>j, <1>t, <2>1
  <2>4. \A t \in Slots : Live(t)' /\ held[t] = j => token[t] <= n /\ token[t] # n
    BY <1>l, <1>r, <2>1 DEF ClaimInv, Live
  <2>5. \A t \in Slots : Live(t)' /\ status'[held'[t]] \in {"queued", "processing"}
                           => token'[t] <= attempts'[held'[t]]
    <3> SUFFICES ASSUME NEW t \in Slots, Live(t)', status'[held[t]] \in {"queued", "processing"}
                 PROVE  token[t] <= attempts'[held[t]]
      BY <1>r
    <3>1. CASE held[t] = j
      BY <3>1, <2>2, <2>3, <2>4
    <3>2. CASE held[t] # j
      BY <3>2, <1>l, <1>t, <2>1, <2>2 DEF ClaimInv
    <3>3. QED
      BY <3>1, <3>2
  <2>6. \A i \in Jobs : status'[i] \in {"unborn", "queued", "processing"}
                          => \A m \in spent'[i] : m <= attempts'[i]
    <3> SUFFICES ASSUME NEW i \in Jobs, status'[i] \in {"unborn", "queued", "processing"},
                        NEW m \in spent'[i]
                 PROVE  m <= attempts'[i]
      OBVIOUS
    <3>1. CASE i = j
      <4>1. m \in spent[j] /\ m # n /\ m \in Nat
        BY <3>1, <1>2, <1>j, <1>t
      <4>2. m <= n
        BY <4>1, <2>1, <1>j DEF ClaimInv
      <4>3. QED
        BY <3>1, <4>1, <4>2, <2>3
    <3>2. CASE i # j
      BY <3>2, <1>2, <1>t, <2>1 DEF ClaimInv
    <3>3. QED
      BY <3>1, <3>2
  <2>7. \A t \in Slots : Live(t)' => status'[held'[t]] # "unborn"
    BY <1>l, <1>r, <1>t, <2>1, <2>2 DEF ClaimInv
  <2>8. \A i \in dead' : status'[i] = "gone"
    BY <1>t, <2>1 DEF ClaimInv
  <2>9. AttemptRunsOnce'
    <3>1. \A i \in Jobs : spent'[i] \subseteq spent[i]
      BY <1>2, <1>t
    <3>2. \A t \in Slots : pc'[t] = "claimed" => pc[t] = "claimed" /\ held[t] \in Jobs
      BY <1>r, <1>t DEF TypeOK
    <3>3. QED
      BY <1>r, <3>1, <3>2 DEF ClaimInv, AttemptRunsOnce
  <2>10. \A t, u \in Slots : Live(t)' /\ Live(u)' /\ held'[t] = held'[u] /\ t # u
                               => token'[t] # token'[u]
    BY <1>l, <1>r DEF ClaimInv
  <2>11. QED
    BY <2>5, <2>6, <2>7, <2>8, <2>9, <2>10 DEF ClaimInv
<1>3. QED
  BY <1>1, <1>2 DEF Snooze, Reschedule

\* Begin spends the claimed attempt; every other claim of the job has another token.
LEMMA BeginKeepsClaimInv ==
  ASSUME TypeOK, ClaimInv, NEW s \in Slots, Begin(s)
  PROVE  ClaimInv'
<1>t. /\ attempts \in [Jobs -> Nat] /\ token \in [Slots -> Nat]
      /\ pc \in [Slots -> SlotStates] /\ spent \in [Jobs -> SUBSET Nat]
  BY DEF TypeOK, StoreTypeOK
<1>1. /\ pc[s] = "claimed" /\ pc' = [pc EXCEPT ![s] = "running"]
      /\ spent' = [spent EXCEPT ![held[s]] = @ \cup {token[s]}]
      /\ UNCHANGED <<status, attempts, dead, held, token>>
  BY DEF Begin, storeVars
<1>2. \A t \in Slots : Live(t)' <=> Live(t)
  BY <1>1, <1>t DEF Live
<1>3. held[s] \in Jobs /\ Live(s)
  BY <1>1, <1>t DEF TypeOK, Live
<1>4. \A j \in Jobs : status'[j] \in {"unborn", "queued", "processing"}
                        => \A n \in spent'[j] : n <= attempts'[j]
  <2> SUFFICES ASSUME NEW j \in Jobs, status[j] \in {"unborn", "queued", "processing"},
                      NEW n \in spent'[j]
               PROVE  n <= attempts[j]
    BY <1>1
  <2>1. CASE n \in spent[j]
    BY <2>1 DEF ClaimInv
  <2>2. CASE n \notin spent[j]
    <3>1. j = held[s] /\ n = token[s]
      BY <2>2, <1>1, <1>3, <1>t
    <3>2. QED
      BY <3>1, <1>3 DEF ClaimInv
  <2>3. QED
    BY <2>1, <2>2
<1>5. AttemptRunsOnce'
  <2> SUFFICES ASSUME NEW t \in Slots, pc'[t] = "claimed"
               PROVE  token[t] \notin spent'[held[t]]
    BY <1>1 DEF AttemptRunsOnce
  <2>1. t # s /\ pc[t] = "claimed" /\ Live(t) /\ held[t] \in Jobs
    BY <1>1, <1>t DEF Live, TypeOK
  <2>2. token[t] \notin spent[held[t]]
    BY <2>1 DEF ClaimInv, AttemptRunsOnce
  <2>3. held[t] = held[s] => token[t] # token[s]
    BY <1>3, <2>1 DEF ClaimInv
  <2>4. QED
    BY <1>1, <1>3, <1>t, <2>1, <2>2, <2>3
<1>6. QED
  BY <1>1, <1>2, <1>4, <1>5 DEF ClaimInv

\* The other steps of slots are quiet.
LEMMA SlotKeepsClaimInv ==
  ASSUME TypeOK, TypeOK', ClaimInv, NEW s \in Slots, SlotStep(s)
  PROVE  ClaimInv'
<1>0. StoreTypeOK /\ SlotTypeOK /\ (\A j \in dead : status[j] = "gone")
  BY TypeParts DEF ClaimInv
<1>k. token[s] \in Nat /\ (pc[s] # "idle" /\ pc[s] # "exited" => held[s] \in Jobs)
  BY DEF TypeOK, SlotStates
<1>u. ASSUME UNCHANGED storeVars PROVE RowsQuiet
  <2>1. \A j \in Jobs : attempts[j] \in Nat
    BY <1>0 DEF StoreTypeOK
  <2>2. QED
    BY <1>0, <1>u, <2>1 DEF RowsQuiet, storeVars, StoreTypeOK
<1>1. ASSUME NEW j \in Jobs, Claim(s, j) PROVE ClaimInv'
  BY <1>1, ClaimKeepsClaimInv
<1>2. CASE Reject(s)
  <2>1. held[s] \in Jobs /\ (MarkDeadLetter(held[s], token[s]) \/ Dropped(held[s], token[s]))
    BY <1>2, <1>k DEF Reject
  <2>2. RowsQuiet
    BY <1>0, <1>k, <2>1, QuietTransactions
  <2>3. SlotsQuiet /\ UNCHANGED spent
    BY <1>0, <1>2, QuietSlots DEF Reject
  <2>4. QED
    BY <2>2, <2>3, QuietStep
<1>3. CASE Begin(s)
  BY <1>3, BeginKeepsClaimInv
<1>4. CASE Succeed(s) \/ Retry(s) \/ GiveUp(s)
  <2>1. Recorded(s) /\ held[s] \in Jobs /\ UNCHANGED spent
    BY <1>4, <1>k DEF Succeed, Retry, GiveUp, Recorded
  <2>2. \/ MarkDone(held[s], token[s]) \/ Dropped(held[s], token[s])
        \/ Requeue(held[s], token[s], token[s]) \/ MarkDeadLetter(held[s], token[s])
    BY <1>4 DEF Succeed, Retry, GiveUp
  <2>3. RowsQuiet
    BY <1>0, <1>k, <2>1, <2>2, QuietTransactions
  <2>4. SlotsQuiet
    BY <1>0, <2>1, QuietSlots
  <2>5. QED
    BY <2>1, <2>3, <2>4, QuietStep
<1>5. CASE Snooze(s)
  BY <1>5, SnoozeKeepsClaimInv
<1>6. CASE Clear(s) \/ Clash(s) \/ Fault(s) \/ Abort(s)
  <2>1. RowsQuiet
    BY <1>u, <1>6 DEF Clear, Clash, Fault, Abort
  <2>2. SlotsQuiet
    BY <1>0, <1>6, QuietSlots DEF Clear, Clash, Fault
  <2>3. QED
    BY <1>6, <2>1, <2>2, QuietStep DEF Clear, Clash, Fault, Abort
<1>7. CASE FetchNothing(s)
  <2>1. RowsQuiet
    BY <1>u, <1>7 DEF FetchNothing
  <2>2. SlotsQuiet
    BY <1>0, <1>7, QuietSlots DEF FetchNothing
  <2>3. QED
    BY <1>7, <2>1, <2>2, QuietStep DEF FetchNothing
<1>8. QED
  BY <1>1, <1>2, <1>3, <1>4, <1>5, <1>6, <1>7 DEF SlotStep

\* All steps of workers are quiet.
LEMMA WorkerKeepsClaimInv ==
  ASSUME TypeOK, TypeOK', ClaimInv, NEW w \in Workers, WorkerStep(w)
  PROVE  ClaimInv'
<1>0. StoreTypeOK /\ SlotTypeOK /\ (\A j \in dead : status[j] = "gone")
  BY TypeParts DEF ClaimInv
<1>u. ASSUME UNCHANGED storeVars PROVE RowsQuiet
  <2>1. \A j \in Jobs : attempts[j] \in Nat
    BY <1>0 DEF StoreTypeOK
  <2>2. QED
    BY <1>0, <1>u, <2>1 DEF RowsQuiet, storeVars, StoreTypeOK
<1>o. SlotsOf(w) \in SUBSET Slots
  BY DEF SlotsOf
<1>1. CASE Start(w) \/ Heartbeat(w) \/ Age(w) \/ Sweep(w)
  <2>1. RowsQuiet
    BY <1>0, <1>1, QuietWorkerTransactions DEF Start, Heartbeat, Age, Sweep
  <2>2. SlotsQuiet
    BY <1>0, <1>1, QuietSlots DEF Start, Heartbeat, Age, Sweep
  <2>3. UNCHANGED spent
    BY <1>1 DEF Start, Heartbeat, Age, Sweep
  <2>4. QED
    BY <2>1, <2>2, <2>3, QuietStep
<1>2. CASE Expire(w)
  <2>1. RowsQuiet
    BY <1>0, <1>2, QuietWorkerTransactions DEF Expire
  <2>2. SlotsQuiet /\ UNCHANGED spent
    BY <1>0, <1>2, QuietSlots DEF Expire
  <2>3. QED
    BY <2>1, <2>2, QuietStep
<1>3. CASE Drain(w) \/ GraceExpires(w) \/ Crash(w) \/ ForceTimeout(w)
  <2>1. RowsQuiet
    BY <1>u, <1>3 DEF Drain, GraceExpires, Crash, ForceTimeout
  <2>2. PICK S \in SUBSET Slots : Exit(S)
    BY <1>3, <1>o DEF Drain, GraceExpires, Crash, ForceTimeout
  <2>3. UNCHANGED spent
    BY <1>3 DEF Drain, GraceExpires, Crash, ForceTimeout
  <2>4. QED
    BY <1>0, <2>1, <2>2, <2>3, QuietSlots, QuietStep
<1>4. CASE Stop(w)
  <2>1. RowsQuiet
    BY <1>0, <1>u, <1>4, QuietWorkerTransactions DEF Stop
  <2>2. SlotsQuiet /\ UNCHANGED spent
    BY <1>0, <1>4, QuietSlots DEF Stop
  <2>3. QED
    BY <2>1, <2>2, QuietStep
<1>5. ASSUME NEW j \in Jobs, Nack(w, j) PROVE ClaimInv'
  <2>1. RowsQuiet
    BY <1>0, <1>u, <1>5, QuietTransactions DEF Nack
  <2>2. SlotsQuiet /\ UNCHANGED spent
    BY <1>0, <1>5, QuietSlots DEF Nack
  <2>3. QED
    BY <2>1, <2>2, QuietStep
<1>6. QED
  BY <1>1, <1>2, <1>3, <1>4, <1>5 DEF WorkerStep

\* Every step keeps the inductive invariant.
LEMMA ClaimInvStep == TypeOK /\ TypeOK' /\ ClaimInv /\ [Next]_vars => ClaimInv'
<1> SUFFICES ASSUME TypeOK, TypeOK', ClaimInv, [Next]_vars PROVE ClaimInv'
  OBVIOUS
<1>0. StoreTypeOK /\ SlotTypeOK /\ (\A j \in dead : status[j] = "gone")
  BY TypeParts DEF ClaimInv
<1>1. CASE UNCHANGED vars
  BY <1>1 DEF vars, storeVars, slotVars, ClaimInv, AttemptRunsOnce, Live
<1>2. ASSUME NEW j \in Jobs, ClientStep(j) PROVE ClaimInv'
  <2>1. CASE Enqueue(j)
    BY <2>1, EnqueueKeepsClaimInv
  <2>2. CASE Elapse(j) \/ Cancel(j) \/ Delete(j)
    <3>1. RowsQuiet
      BY <1>0, <2>2, QuietTransactions DEF Elapse, Cancel, Delete
    <3>2. SlotsQuiet /\ UNCHANGED spent
      BY <1>0, <2>2, QuietSlots DEF Elapse, Cancel, Delete
    <3>3. QED
      BY <3>1, <3>2, QuietStep
  <2>3. QED
    BY <1>2, <2>1, <2>2 DEF ClientStep
<1>3. QED
  BY <1>1, <1>2, SlotKeepsClaimInv, WorkerKeepsClaimInv DEF Next

\* The inductive invariant holds before the first job.
LEMMA ClaimInvInit == Init => ClaimInv
  BY DEF Init, StoreInit, ClaimInv, AttemptRunsOnce, Live

\* The inductive invariant holds in every reachable state.
THEOREM ClaimsInvariant == Spec => []ClaimInv
<1>1. QED
  BY ClaimInvInit, ClaimInvStep, TypeCorrect, PTL DEF Spec

\* Live claims that differ pairwise leave one that can match the row.
LEMMA UniqueHolder == ClaimInv => OneHolder
  BY ZenonT(60) DEF ClaimInv, OneHolder, Holds, Matches

\* The claim fence: whatever stalls, sweeps, nacks, snoozes and crashes happen, at most one
\* slot can write the outcome of a job.
THEOREM ClaimFence == Spec => []OneHolder
<1>1. QED
  BY UniqueHolder, ClaimsInvariant, PTL

\* No attempt of a job is executed twice.
THEOREM EachAttemptOnce == Spec => []AttemptRunsOnce
<1>1. ClaimInv => AttemptRunsOnce
  BY DEF ClaimInv
<1>2. QED
  BY <1>1, ClaimsInvariant, PTL

-----------------------------------------------------------------------------
(* How rows move.                                                          *)

\* Every step runs at most one transaction of the storage backend.
StoreOther ==
  \/ UNCHANGED storeVars
  \/ \E j \in Jobs : Insert(j) \/ ComeDue(j) \/ CancelJob(j) \/ DeleteJob(j) \/ NackJob(j)
  \/ \E j \in Jobs, n \in Nat : MarkDone(j, n) \/ MarkDeadLetter(j, n)
  \/ \E j \in Jobs, n, k \in Nat : Requeue(j, n, k)
  \/ CleanupStaleWorkers
  \/ \E R \in SUBSET Jobs : DeleteExpired(R)
  \/ \E w \in Workers : RegisterWorker(w) \/ Touch(w) \/ BeatExpires(w)

StoreStep ==
  StoreOther \/ \E j \in Jobs, w \in Workers \cup {NoWorker} : FetchAndLock(j, w)

\* A step that is not a claim runs one of the other transactions, or none.
LEMMA ClaimOrOther ==
  TypeOK /\ [Next]_vars => StoreOther \/ \E s \in Slots, j \in Jobs : Claim(s, j)
<1> SUFFICES ASSUME TypeOK, [Next]_vars
             PROVE  StoreOther \/ \E s \in Slots, j \in Jobs : Claim(s, j)
  OBVIOUS
<1>1. CASE UNCHANGED vars
  BY <1>1 DEF vars, StoreOther
<1>2. ASSUME NEW j \in Jobs, ClientStep(j) PROVE StoreOther
  BY <1>2 DEF ClientStep, Enqueue, Elapse, Cancel, Delete, StoreOther
<1>3. ASSUME NEW s \in Slots, SlotStep(s), ~\E j \in Jobs : Claim(s, j) PROVE StoreOther
  <2>k. token[s] \in Nat /\ (pc[s] # "idle" /\ pc[s] # "exited" => held[s] \in Jobs)
    BY DEF TypeOK, SlotStates
  <2>1. CASE Reject(s)
    BY <2>1, <2>k DEF Reject, Dropped, StoreOther
  <2>2. CASE Succeed(s) \/ Retry(s) \/ GiveUp(s)
    BY <2>2, <2>k DEF Succeed, Retry, GiveUp, Recorded, Dropped, StoreOther
  <2>3. CASE Snooze(s)
    <3>1. held[s] \in Jobs /\ (IF token[s] > 0 THEN token[s] - 1 ELSE 0) \in Nat
      BY <2>3, <2>k DEF Snooze, Recorded
    <3>2. QED
      BY <2>3, <2>k, <3>1 DEF Snooze, Reschedule, Dropped, StoreOther
  <2>4. CASE Begin(s) \/ Clear(s) \/ Clash(s) \/ Fault(s) \/ Abort(s) \/ FetchNothing(s)
    BY <2>4 DEF Begin, Clear, Clash, Fault, Abort, FetchNothing, StoreOther
  <2>5. QED
    BY <1>3, <2>1, <2>2, <2>3, <2>4 DEF SlotStep
<1>4. ASSUME NEW w \in Workers, WorkerStep(w) PROVE StoreOther
  <2>1. CASE Start(w) \/ Heartbeat(w) \/ Age(w) \/ Sweep(w) \/ Expire(w) \/ Stop(w)
    BY <2>1 DEF Start, Heartbeat, Age, Sweep, Expire, Stop, StoreOther
  <2>2. CASE Drain(w) \/ ForceTimeout(w) \/ GraceExpires(w) \/ Crash(w)
    BY <2>2 DEF Drain, ForceTimeout, GraceExpires, Crash, StoreOther
  <2>3. ASSUME NEW j \in Jobs, Nack(w, j) PROVE StoreOther
    BY <2>3 DEF Nack, StoreOther
  <2>4. QED
    BY <1>4, <2>1, <2>2, <2>3 DEF WorkerStep
<1>5. QED
  BY <1>1, <1>2, <1>3, <1>4 DEF Next

\* A step of the fleet is one transaction of the storage backend, or none.
LEMMA OneTransaction == TypeOK /\ [Next]_vars => StoreStep
<1>1. ASSUME NEW s \in Slots, NEW j \in Jobs, Claim(s, j) PROVE StoreStep
  <2>1. WorkerOf[s] \in Workers \cup {NoWorker}
    BY QueueAssumption
  <2>2. QED
    BY <1>1, <2>1 DEF Claim, StoreStep
<1>2. QED
  BY <1>1, ClaimOrOther DEF StoreStep

\* A row is processing after a step only if it was before, at the same attempt, or if it
\* was queued and its attempt is new; and a settled row stays settled.
LEMMA RowMoves ==
  ASSUME StoreTypeOK, StoreStep, NEW j \in Jobs
  PROVE  /\ status'[j] = "processing" =>
              \/ status[j] = "processing" /\ attempts'[j] = attempts[j]
              \/ status[j] = "queued" /\ attempts'[j] = attempts[j] + 1
         /\ status[j] \in {"done", "cancelled"} => status'[j] \in {status[j], "gone"}
         /\ status[j] = "gone" => status'[j] = "gone"
<1> DEFINE G == /\ status'[j] = "processing" =>
                     \/ status[j] = "processing" /\ attempts'[j] = attempts[j]
                     \/ status[j] = "queued" /\ attempts'[j] = attempts[j] + 1
                /\ status[j] \in {"done", "cancelled"} => status'[j] \in {status[j], "gone"}
                /\ status[j] = "gone" => status'[j] = "gone"
<1> USE DEF StoreTypeOK
<1>1. CASE UNCHANGED storeVars
  BY <1>1 DEF storeVars
<1>2. ASSUME NEW i \in Jobs,
             Insert(i) \/ ComeDue(i) \/ CancelJob(i) \/ DeleteJob(i) \/ NackJob(i)
      PROVE  G
  BY <1>2 DEF Insert, ComeDue, CancelJob, DeleteJob, NackJob, Remove, RowStates, storeVars
<1>3. ASSUME NEW i \in Jobs, NEW w \in Workers \cup {NoWorker}, FetchAndLock(i, w)
      PROVE  G
  BY <1>3 DEF FetchAndLock
<1>4. ASSUME NEW i \in Jobs, NEW n \in Nat, MarkDone(i, n) \/ MarkDeadLetter(i, n)
      PROVE  G
  BY <1>4 DEF MarkDone, MarkDeadLetter, Remove, Matches
<1>5. ASSUME NEW i \in Jobs, NEW n \in Nat, NEW k \in Nat, Requeue(i, n, k)
      PROVE  G
  BY <1>5 DEF Requeue, Matches
<1>6. CASE CleanupStaleWorkers
  BY <1>6 DEF CleanupStaleWorkers, ProcessingOf
<1>7. ASSUME NEW R \in SUBSET Jobs, DeleteExpired(R) PROVE G
  BY <1>7 DEF DeleteExpired
<1>8. ASSUME NEW w \in Workers, RegisterWorker(w) PROVE G
  BY <1>8 DEF RegisterWorker, ProcessingOf
<1>9. ASSUME NEW w \in Workers, Touch(w) \/ BeatExpires(w) PROVE G
  BY <1>9 DEF Touch, BeatExpires, jobVars
<1>10. QED
  BY <1>1, <1>2, <1>3, <1>4, <1>5, <1>6, <1>7, <1>8, <1>9 DEF StoreStep, StoreOther

\* A done or cancelled row is only ever deleted, and a deleted row does not come back.
THEOREM SettledRowsFinal == Spec => SettledIsFinal
<1>1. TypeOK /\ [Next]_vars =>
        [\A j \in Jobs :
           /\ status[j] \in {"done", "cancelled"} => status'[j] \in {status[j], "gone"}
           /\ status[j] = "gone" => status'[j] = "gone"]_vars
  BY OneTransaction, RowMoves DEF TypeOK
<1>2. QED
  BY <1>1, TypeCorrect, PTL DEF Spec, SettledIsFinal

\* A slot whose claim lost its row stays without it for the rest of the claim.
THEOREM LostClaims == Spec => LostClaimStaysLost
<1>1. ASSUME TypeOK, ClaimInv, Next, NEW s \in Slots,
             Live(s), Live(s)', ~Matches(held[s], token[s])
      PROVE  ~Matches(held[s], token[s])'
  <2>1. held[s] \in Jobs /\ token[s] \in Nat
    BY <1>1 DEF Live, TypeOK
  <2>2. held'[s] = held[s] /\ token'[s] = token[s]
    <3>1. ASSUME NEW t \in Slots, SlotStep(t) PROVE held'[s] = held[s] /\ token'[s] = token[s]
      BY <1>1, <3>1 DEF SlotStep, Claim, Reject, Begin, Recorded, Succeed, Snooze, Retry,
         GiveUp, Clear, Clash, Fault, Abort, FetchNothing, Release, Exit, Live, TypeOK
    <3>2. ASSUME NEW w \in Workers, WorkerStep(w) PROVE held'[s] = held[s] /\ token'[s] = token[s]
      BY <1>1, <3>2 DEF WorkerStep, Start, Heartbeat, Age, Sweep, Expire, Drain, ForceTimeout,
         GraceExpires, Stop, Crash, Nack, Exit, slotVars, Live, TypeOK
    <3>3. ASSUME NEW j \in Jobs, ClientStep(j) PROVE held'[s] = held[s] /\ token'[s] = token[s]
      BY <3>3 DEF ClientStep, Enqueue, Elapse, Cancel, Delete, slotVars
    <3>4. QED
      BY <1>1, <3>1, <3>2, <3>3 DEF Next
  <2>3. StoreStep /\ StoreTypeOK
    BY <1>1, OneTransaction DEF TypeOK
  <2>4. status[held[s]] = "queued" => attempts[held[s]] + 1 # token[s]
    BY <1>1, <2>1 DEF ClaimInv, TypeOK, StoreTypeOK
  <2>5. QED
    BY <1>1, <2>1, <2>2, <2>3, <2>4, RowMoves DEF Matches
<1>2. TypeOK /\ ClaimInv /\ [Next]_vars =>
        [\A s \in Slots : Live(s) /\ Live(s)' /\ ~Matches(held[s], token[s])
                            => ~Matches(held[s], token[s])']_vars
  BY <1>1
<1>3. QED
  BY <1>2, TypeCorrect, ClaimsInvariant, PTL DEF Spec, LostClaimStaysLost

-----------------------------------------------------------------------------
(* Whose rows are processing, in a fleet of workers without run_once calls. *)

FleetOnly == \A s \in Slots : WorkerOf[s] \in Workers

\* Other transactions than a claim leave processing rows with their worker and attempt, and
\* make none.
LEMMA ProcessingRowsStay ==
  ASSUME StoreTypeOK, StoreOther, NEW j \in Jobs, status'[j] = "processing"
  PROVE  status[j] = "processing" /\ attempts'[j] = attempts[j] /\ owner'[j] = owner[j]
<1> DEFINE G == status[j] = "processing" /\ attempts'[j] = attempts[j] /\ owner'[j] = owner[j]
<1> USE DEF StoreTypeOK
<1>1. CASE UNCHANGED storeVars
  BY <1>1 DEF storeVars
<1>2. ASSUME NEW i \in Jobs,
             Insert(i) \/ ComeDue(i) \/ CancelJob(i) \/ DeleteJob(i) \/ NackJob(i)
      PROVE  G
  BY <1>2 DEF Insert, ComeDue, CancelJob, DeleteJob, NackJob, Remove, storeVars
<1>3. ASSUME NEW i \in Jobs, NEW n \in Nat, MarkDone(i, n) \/ MarkDeadLetter(i, n)
      PROVE  G
  BY <1>3 DEF MarkDone, MarkDeadLetter, Remove, Matches
<1>4. ASSUME NEW i \in Jobs, NEW n \in Nat, NEW k \in Nat, Requeue(i, n, k)
      PROVE  G
  BY <1>4 DEF Requeue, Matches
<1>5. CASE CleanupStaleWorkers
  BY <1>5 DEF CleanupStaleWorkers, ProcessingOf
<1>6. ASSUME NEW R \in SUBSET Jobs, DeleteExpired(R) PROVE G
  BY <1>6 DEF DeleteExpired
<1>7. ASSUME NEW w \in Workers, RegisterWorker(w) PROVE G
  BY <1>7 DEF RegisterWorker, ProcessingOf
<1>8. ASSUME NEW w \in Workers, Touch(w) \/ BeatExpires(w) PROVE G
  BY <1>8 DEF Touch, BeatExpires, jobVars
<1>9. QED
  BY <1>1, <1>2, <1>3, <1>4, <1>5, <1>6, <1>7, <1>8 DEF StoreOther

\* A worker whose id is on a processing row has started.
OwnersStarted ==
  \A j \in Jobs, w \in Workers : status[j] = "processing" /\ owner[j] = w => proc[w] # "new"

\* The write for the claim of s raises, and the slot goes on without it.
LosesWrite(s) == Clash(s) \/ Fault(s)

\* A worker that is up was up before or has just started.
LEMMA WorkersComeUp ==
  ASSUME TypeOK, [Next]_vars, NEW w \in Workers
  PROVE  /\ proc'[w] = "new" => proc[w] = "new"
         /\ proc'[w] = "up" => proc[w] \in {"new", "up"}
<1>1. CASE UNCHANGED proc
  BY <1>1
<1>2. ASSUME NEW v \in Workers, NEW p \in {"up", "draining", "forced", "stopped", "crashed"},
             proc' = [proc EXCEPT ![v] = p], p = "up" => proc[v] = "new"
      PROVE  /\ proc'[w] = "new" => proc[w] = "new"
             /\ proc'[w] = "up" => proc[w] \in {"new", "up"}
  BY <1>2 DEF TypeOK
<1>3. ASSUME NEW v \in Workers, WorkerStep(v), ~UNCHANGED proc
      PROVE  \E p \in {"up", "draining", "forced", "stopped", "crashed"} :
               proc' = [proc EXCEPT ![v] = p] /\ (p = "up" => proc[v] = "new")
  BY <1>3 DEF WorkerStep, Start, Heartbeat, Age, Expire, Sweep, Drain, ForceTimeout,
     GraceExpires, Stop, Crash, Nack
<1>4. ASSUME NEW j \in Jobs, ClientStep(j) PROVE UNCHANGED proc
  BY <1>4 DEF ClientStep, Enqueue, Elapse, Cancel, Delete
<1>5. ASSUME NEW s \in Slots, SlotStep(s) PROVE UNCHANGED proc
  BY <1>5 DEF SlotStep, Claim, Reject, Begin, Recorded, Succeed, Snooze, Retry, GiveUp,
     Clear, Clash, Fault, Abort, FetchNothing
<1>6. CASE UNCHANGED vars
  BY <1>6 DEF vars
<1> QED BY <1>1, <1>2, <1>3, <1>4, <1>5, <1>6 DEF Next

\* A slot keeps its claim while its row keeps processing at its attempt and its worker is
\* up: it lets go only after a write that moves the row, or one that raises.
LEMMA UpSlotsHoldOn ==
  ASSUME FleetOnly, TypeOK, [Next]_vars,
         NEW s \in Slots, NEW j \in Jobs, Holds(s, j),
         status'[j] = "processing", attempts'[j] = attempts[j], proc'[WorkerOf[s]] = "up"
  PROVE  Holds(s, j)' \/ LosesWrite(s)
<1>1. /\ pc[s] \in {"claimed", "running"} /\ held[s] = j /\ Matches(j, token[s])
      /\ WorkerOf[s] \in Workers /\ status[j] = "processing" /\ attempts[j] = token[s]
  BY DEF Holds, Live, Matches, FleetOnly
<1>2. ASSUME pc'[s] \in {"claimed", "running"}, held'[s] = held[s], token'[s] = token[s]
      PROVE  Holds(s, j)'
  BY <1>1, <1>2 DEF Holds, Live, Matches
<1>3. ASSUME UNCHANGED slotVars PROVE Holds(s, j)'
  BY <1>1, <1>2, <1>3 DEF slotVars
<1>4. ASSUME NEW S \in SUBSET Slots, Exit(S), s \notin S PROVE Holds(s, j)'
  BY <1>1, <1>2, <1>4 DEF Exit
<1>5. ASSUME NEW t \in Slots, SlotStep(t) PROVE Holds(s, j)' \/ LosesWrite(s)
  <2>1. CASE t # s
    <3>1. pc'[s] = pc[s] /\ held'[s] = held[s] /\ token'[s] = token[s]
      BY <1>5, <2>1 DEF TypeOK, SlotStep, Claim, Reject, Begin, Recorded, Succeed, Snooze,
         Retry, GiveUp, Clear, Clash, Fault, Abort, FetchNothing, Release, Exit
    <3> QED BY <1>1, <1>2, <3>1
  <2>2. CASE t = s
    <3>1. CASE Begin(s)
      BY <1>1, <1>2, <3>1 DEF Begin, TypeOK
    <3>2. CASE Reject(s) \/ Succeed(s) \/ Snooze(s) \/ Retry(s) \/ GiveUp(s)
      <4>1. ~Dropped(held[s], token[s])
        BY <1>1 DEF Dropped
      <4>2. status'[j] # "processing"
        BY <1>1, <3>2, <4>1 DEF Reject, Succeed, Snooze, Reschedule, Retry, GiveUp,
           MarkDeadLetter, MarkDone, Requeue, Remove, TypeOK, StoreTypeOK
      <4> QED BY <4>2
    <3>3. ~Abort(s)
      BY <1>1, StoreAssumption DEF Abort, RunOnce
    <3>4. ~Clear(s) /\ ~FetchNothing(s) /\ \A k \in Jobs : ~Claim(s, k)
      BY <1>1 DEF Clear, FetchNothing, Claim
    <3> QED BY <1>5, <2>2, <3>1, <3>2, <3>3, <3>4 DEF SlotStep, LosesWrite
  <2> QED BY <2>1, <2>2
<1>6. ASSUME NEW w \in Workers, WorkerStep(w) PROVE Holds(s, j)'
  <2>1. CASE UNCHANGED slotVars
    BY <1>3, <2>1
  <2>2. CASE Drain(w) \/ ForceTimeout(w) \/ GraceExpires(w) \/ Crash(w)
    <3>1. proc'[w] # "up"
      BY <2>2 DEF Drain, ForceTimeout, GraceExpires, Crash, TypeOK
    <3>2. PICK S \in SUBSET SlotsOf(w) : Exit(S)
      BY <2>2 DEF Drain, ForceTimeout, GraceExpires, Crash
    <3>3. s \notin S /\ S \in SUBSET Slots
      BY <3>1, <3>2 DEF SlotsOf
    <3> QED BY <1>4, <3>2, <3>3
  <2> QED BY <1>6, <2>1, <2>2 DEF WorkerStep, Start, Heartbeat, Age, Expire, Sweep, Stop, Nack
<1>7. ASSUME NEW k \in Jobs, ClientStep(k) PROVE Holds(s, j)'
  BY <1>3, <1>7 DEF ClientStep, Enqueue, Elapse, Cancel, Delete
<1>8. CASE UNCHANGED vars
  BY <1>3, <1>8 DEF vars
<1> QED BY <1>5, <1>6, <1>7, <1>8 DEF Next

\* One slot at a time loses a write, and each loss is counted.
LEMMA LossesCount ==
  ASSUME TypeOK, NEW s \in Slots, LosesWrite(s)
  PROVE  /\ faults' = faults + 1
         /\ \A t \in Slots : LosesWrite(t) => t = s
<1>1. \A t \in Slots : LosesWrite(t) => Live(t) /\ Release(t)
  BY DEF LosesWrite, Clash, Fault, Live
<1>2. ASSUME NEW t \in Slots, LosesWrite(t), t # s PROVE FALSE
  <2>1. pc[t] \in {"claimed", "running"} /\ pc'[t] \in {"idle", "exited"}
    BY <1>1, <1>2 DEF Live, Release, TypeOK
  <2>2. pc'[t] = pc[t]
    BY <1>1, <1>2 DEF Release, TypeOK
  <2> QED BY <2>1, <2>2
<1>3. faults' = faults + 1
  BY DEF LosesWrite, Clash, Fault
<1> QED BY <1>2, <1>3

LEMMA FaultsGrow ==
  ASSUME TypeOK, [Next]_vars
  PROVE  faults <= faults'
<1>1. faults \in Nat
  BY DEF TypeOK
<1>2. ASSUME NEW t \in Slots, SlotStep(t) PROVE faults' = faults \/ faults' = faults + 1
  BY <1>2 DEF SlotStep, Claim, Reject, Begin, Recorded, Succeed, Snooze, Retry, GiveUp, Clear,
     Clash, Fault, Abort, FetchNothing
<1>3. ASSUME NEW w \in Workers, WorkerStep(w) PROVE faults' = faults \/ faults' = faults + 1
  BY <1>3 DEF WorkerStep, Start, Heartbeat, Age, Expire, Sweep, Drain, ForceTimeout,
     GraceExpires, Stop, Crash, Nack
<1>4. ASSUME NEW j \in Jobs, ClientStep(j) PROVE faults' = faults
  BY <1>4 DEF ClientStep, Enqueue, Elapse, Cancel, Delete
<1>5. ASSUME UNCHANGED vars PROVE faults' = faults
  BY <1>5 DEF vars
<1>6. faults' = faults \/ faults' = faults + 1
  BY <1>2, <1>3, <1>4, <1>5 DEF Next
<1> QED BY <1>1, <1>6

\* What a step does to a row that is processing after it: the row was processing for the
\* same worker before, or the step is the worker's claim of it.
LEMMA ProcessingBefore ==
  ASSUME FleetOnly, TypeOK, [Next]_vars, NEW j \in Jobs, NEW w \in Workers,
         status'[j] = "processing", owner'[j] = w
  PROVE  \/ status[j] = "processing" /\ attempts'[j] = attempts[j] /\ owner[j] = w
         \/ /\ proc[w] \in {"up", "draining"} /\ proc' = proc
            /\ \E t \in SlotsOf(w) : Holds(t, j)'
<1>1. CASE StoreOther
  BY <1>1, ProcessingRowsStay DEF TypeOK
<1>2. ASSUME NEW t \in Slots, NEW i \in Jobs, Claim(t, i)
      PROVE  \/ status[j] = "processing" /\ attempts'[j] = attempts[j] /\ owner[j] = w
             \/ /\ proc[w] \in {"up", "draining"} /\ proc' = proc
                /\ \E u \in SlotsOf(w) : Holds(u, j)'
  <2>1. WorkerOf[t] \in Workers /\ WorkerOf[t] # NoWorker
    BY StoreAssumption DEF FleetOnly
  <2>2. /\ status' = [status EXCEPT ![i] = "processing"]
        /\ attempts' = [attempts EXCEPT ![i] = attempts[i] + 1]
        /\ owner' = [owner EXCEPT ![i] = WorkerOf[t]]
        /\ proc[WorkerOf[t]] \in {"up", "draining"} /\ proc' = proc
        /\ pc' = [pc EXCEPT ![t] = "claimed"] /\ held' = [held EXCEPT ![t] = i]
        /\ token' = [token EXCEPT ![t] = attempts[i] + 1]
    BY <1>2, <2>1 DEF Claim, FetchAndLock, RunOnce
  <2>3. CASE i = j
    <3>1. w = WorkerOf[t]
      BY <2>2, <2>3 DEF TypeOK, StoreTypeOK
    <3>2. t \in SlotsOf(w)
      BY <3>1 DEF SlotsOf
    <3>3. Holds(t, j)'
      BY <2>2, <2>3 DEF Holds, Live, Matches, TypeOK, StoreTypeOK
    <3> QED BY <2>2, <3>1, <3>2, <3>3
  <2>4. CASE i # j
    BY <2>2, <2>4 DEF TypeOK, StoreTypeOK
  <2> QED BY <2>3, <2>4
<1> QED BY <1>1, <1>2, ClaimOrOther

LEMMA OwnersStartedStep == FleetOnly /\ TypeOK /\ OwnersStarted /\ [Next]_vars => OwnersStarted'
<1> SUFFICES ASSUME FleetOnly, TypeOK, OwnersStarted, [Next]_vars,
                    NEW j \in Jobs, NEW w \in Workers, status'[j] = "processing", owner'[j] = w
             PROVE  proc'[w] # "new"
  BY DEF OwnersStarted
<1>1. proc[w] # "new"
  BY ProcessingBefore DEF OwnersStarted
<1> QED BY <1>1, WorkersComeUp

\* A row is newly forgotten only by the slot that loses the write for it.
LEMMA ForgettingLosesAWrite ==
  ASSUME FleetOnly, TypeOK, OwnersStarted, [Next]_vars, NEW j \in Forgotten', j \notin Forgotten
  PROVE  \E s \in Slots : LosesWrite(s) /\ held[s] = j
<1>1. j \in Jobs /\ status'[j] = "processing"
  BY DEF Forgotten
<1>2. PICK w \in Workers : owner'[j] = w /\ proc'[w] = "up" /\ \A s \in SlotsOf(w) : ~Holds(s, j)'
  BY DEF Forgotten, SlotsOf
<1>3. status[j] = "processing" /\ attempts'[j] = attempts[j] /\ owner[j] = w
  BY <1>1, <1>2, ProcessingBefore
<1>4. proc[w] = "up"
  BY <1>1, <1>2, <1>3, WorkersComeUp DEF OwnersStarted
<1>5. PICK s \in SlotsOf(w) : Holds(s, j)
  BY <1>1, <1>3, <1>4 DEF Forgotten
<1>6. s \in Slots /\ WorkerOf[s] = w /\ held[s] = j
  BY <1>5 DEF SlotsOf, Holds
<1>7. LosesWrite(s)
  BY <1>1, <1>2, <1>3, <1>5, <1>6, UpSlotsHoldOn
<1> QED BY <1>6, <1>7

FewForgotten == OwnersStarted /\ IsFiniteSet(Forgotten) /\ OneRowPerLostWrite

LEMMA FewForgottenStep == FleetOnly /\ TypeOK /\ FewForgotten /\ [Next]_vars => FewForgotten'
<1> SUFFICES ASSUME FleetOnly, TypeOK, FewForgotten, [Next]_vars PROVE FewForgotten'
  OBVIOUS
<1>1. OwnersStarted' /\ OwnersStarted /\ IsFiniteSet(Forgotten) /\ Cardinality(Forgotten) <= faults
  BY OwnersStartedStep DEF FewForgotten, OneRowPerLostWrite
<1>2. faults \in Nat /\ faults' \in Nat /\ faults <= faults' /\ Cardinality(Forgotten) \in Nat
  BY <1>1, FaultsGrow, TypeStep, FS_CardinalityType DEF TypeOK
<1>3. PICK F : F = Forgotten'
  OBVIOUS
<1>4. CASE \E s \in Slots : LosesWrite(s)
  <2>1. PICK s \in Slots : LosesWrite(s)
    BY <1>4
  <2>2. faults' = faults + 1 /\ \A t \in Slots : LosesWrite(t) => t = s
    BY <2>1, LossesCount
  <2>3. F \subseteq Forgotten \cup {held[s]}
    BY <1>1, <1>3, <2>2, ForgettingLosesAWrite
  <2>4. /\ IsFiniteSet(Forgotten \cup {held[s]})
        /\ Cardinality(Forgotten \cup {held[s]}) \in {Cardinality(Forgotten), Cardinality(Forgotten) + 1}
    BY <1>1, <1>2, FS_AddElement
  <2>5. IsFiniteSet(F) /\ Cardinality(F) <= Cardinality(Forgotten \cup {held[s]})
    BY <2>3, <2>4, FS_Subset
  <2>6. Cardinality(F) \in Nat
    BY <2>5, FS_CardinalityType
  <2>7. Cardinality(F) <= faults'
    BY <1>1, <1>2, <2>2, <2>4, <2>5, <2>6
  <2> QED BY <1>1, <1>3, <2>5, <2>7 DEF FewForgotten, OneRowPerLostWrite
<1>5. CASE ~\E s \in Slots : LosesWrite(s)
  <2>1. F \subseteq Forgotten
    BY <1>1, <1>3, <1>5, ForgettingLosesAWrite
  <2>2. IsFiniteSet(F) /\ Cardinality(F) <= Cardinality(Forgotten)
    BY <1>1, <2>1, FS_Subset
  <2>3. Cardinality(F) \in Nat
    BY <2>2, FS_CardinalityType
  <2>4. Cardinality(F) <= faults'
    BY <1>1, <1>2, <2>2, <2>3
  <2> QED BY <1>1, <1>3, <2>2, <2>4 DEF FewForgotten, OneRowPerLostWrite
<1> QED BY <1>4, <1>5

\* A worker that is up has forgotten no more rows than there were writes that raised: through
\* stalls, sweeps, takeovers, nacks and the end of other workers, no healthy claim is dropped
\* without one.  A run_once call would break it, since it leaves an old worker id on its row.
THEOREM LostWritesStrandOneRowEach == FleetOnly => (Spec => []OneRowPerLostWrite)
<1>1. Init => FewForgotten
  <2> SUFFICES ASSUME Init PROVE FewForgotten
    OBVIOUS
  <2>1. Forgotten = {} /\ OwnersStarted /\ faults = 0
    BY DEF Init, StoreInit, Forgotten, OwnersStarted
  <2> QED BY <2>1, FS_EmptySet DEF FewForgotten, OneRowPerLostWrite
<1> SUFFICES ASSUME FleetOnly PROVE Spec => []OneRowPerLostWrite
  OBVIOUS
<1>2. TypeOK /\ FewForgotten /\ [Next]_vars => FewForgotten'
  BY FewForgottenStep
<1>3. FewForgotten => OneRowPerLostWrite
  BY DEF FewForgotten
<1> QED BY <1>1, <1>2, <1>3, TypeCorrect, PTL DEF Spec

-----------------------------------------------------------------------------
(* The lease service: each step of the job queue, seen through Life and    *)
(* Holders, is a step of ClaimLease or none.                               *)

LeaseStep == [Lease!Next]_(Lease!vars)

\* Rows stay, and the slots of S stop.
LEMMA SlotsStop ==
  ASSUME TypeOK, NEW S \in SUBSET Slots, UNCHANGED <<status, attempts, dead>>,
         \A s \in Slots, j \in Jobs : Holds(s, j)' <=> Holds(s, j) /\ s \notin S
  PROVE  LeaseStep
<1>1. Life' = Life
  BY DEF Life
<1>2. \A j \in Jobs : {s \in Slots : Holds(s, j)'} = {s \in Slots : Holds(s, j)} \ S
  OBVIOUS
<1>3. Holders' = [j \in Jobs |-> Holders[j] \ S]
  BY <1>2 DEF Holders
<1>4. Lease!Abandon(S)
  BY <1>1, <1>3 DEF Lease!Abandon
<1>5. QED
  BY <1>4 DEF LeaseStep, Lease!Next

\* The rows of R leave 'processing' for 'queued', or leave the table; slots stay.
LEMMA RowsLeave ==
  ASSUME TypeOK, ClaimInv, NEW R \in SUBSET Jobs, UNCHANGED <<slotVars, dead>>,
         \A j \in Jobs : j \notin R => status'[j] = status[j] /\ attempts'[j] = attempts[j],
         \/ \A j \in R : status[j] = "processing" /\ status'[j] = "queued"
         \/ \A j \in R : status[j] \in RowStates /\ status'[j] = "gone",
         status' \in [Jobs -> JobStates]
  PROVE  LeaseStep
<1>1. \A s \in Slots, j \in Jobs : Holds(s, j)' <=> Holds(s, j) /\ j \notin R
  BY DEF Holds, Live, Matches, slotVars
<1>2. \A j \in Jobs : {s \in Slots : Holds(s, j)'}
                        = IF j \in R THEN {} ELSE {s \in Slots : Holds(s, j)}
  BY <1>1
<1>3. Holders' = [j \in Jobs |-> IF j \in R THEN {} ELSE Holders[j]]
  BY <1>2 DEF Holders
<1>4. \A j \in R : j \notin dead /\ Life[j] = status[j]
  BY DEF ClaimInv, Life, RowStates
<1>5. CASE \A j \in R : status[j] = "processing" /\ status'[j] = "queued"
  <2>1. Life' = [j \in Jobs |-> IF j \in R THEN "queued" ELSE Life[j]]
    BY <1>4, <1>5 DEF Life
  <2>2. Lease!Revoke(R)
    BY <1>3, <1>4, <1>5, <2>1 DEF Lease!Revoke
  <2>3. QED
    BY <2>2 DEF LeaseStep, Lease!Next
<1>6. CASE \A j \in R : status[j] \in RowStates /\ status'[j] = "gone"
  <2>1. Life' = [j \in Jobs |-> IF j \in R THEN "gone" ELSE Life[j]]
    BY <1>4, <1>6 DEF Life
  <2>2. Lease!Remove(R)
    BY <1>3, <1>4, <1>6, <2>1 DEF Lease!Remove, RowStates
  <2>3. QED
    BY <2>2 DEF LeaseStep, Lease!Next
<1>7. QED
  BY <1>5, <1>6

\* The slot s that holds j writes its outcome.
LEMMA HolderFinishes ==
  ASSUME TypeOK, ClaimInv, NEW s \in Slots, NEW j \in Jobs, Holds(s, j),
         ~Live(s)',
         \A t \in Slots : t # s => /\ pc'[t] = pc[t]
                                  /\ held'[t] = held[t] /\ token'[t] = token[t],
         \A i \in Jobs : i # j => status'[i] = status[i] /\ attempts'[i] = attempts[i],
         \/ status'[j] \in {"queued", "done", "gone"} /\ dead' = dead
         \/ status'[j] = "gone" /\ dead' = dead \cup {j}
  PROVE  LeaseStep
<1>1. \A t \in Slots : Holds(t, j) => t = s
  BY UniqueHolder DEF OneHolder
<1>2. \A t \in Slots : ~Holds(t, j)'
  BY DEF Holds, Matches
<1>3. \A t \in Slots, i \in Jobs : i # j => (Holds(t, i)' <=> Holds(t, i))
  BY DEF Holds, Matches, Live
<1>4. {t \in Slots : Holds(t, j)} = {s}
  BY <1>1
<1>5. \A i \in Jobs : {t \in Slots : Holds(t, i)'}
                        = IF i = j THEN {} ELSE {t \in Slots : Holds(t, i)}
  BY <1>2, <1>3
<1>6. Holders[j] = {s} /\ Holders' = [Holders EXCEPT ![j] = {}]
  BY <1>4, <1>5 DEF Holders
<1>7. j \notin dead
  BY DEF ClaimInv, Holds, Matches
<1>8. \E l \in {"done", "dead", "gone", "queued"} : Life' = [Life EXCEPT ![j] = l]
  <2>1. CASE status'[j] \in {"queued", "done", "gone"} /\ dead' = dead
    <3>1. Life' = [Life EXCEPT ![j] = status'[j]]
      BY <1>7, <2>1 DEF Life
    <3>2. QED
      BY <2>1, <3>1
  <2>2. CASE status'[j] = "gone" /\ dead' = dead \cup {j}
    <3>1. Life' = [Life EXCEPT ![j] = "dead"]
      BY <2>2 DEF Life
    <3>2. QED
      BY <3>1
  <2>3. QED
    BY <2>1, <2>2
<1>9. Lease!Finish(j, s)
  BY <1>6, <1>8 DEF Lease!Finish
<1>10. QED
  BY <1>9 DEF LeaseStep, Lease!Next

\* What ends in a slot leaves the other slots alone.
OnlyStops(s) ==
  /\ ~Live(s)'
  /\ \A t \in Slots : t # s => pc'[t] = pc[t] /\ held'[t] = held[t] /\ token'[t] = token[t]

\* A slot that ends an iteration or an execution leaves the other slots alone.
LEMMA EndsInSlot ==
  ASSUME TypeOK, NEW s \in Slots, Release(s) \/ Recorded(s) \/ Abort(s)
  PROVE  OnlyStops(s)
<1> USE DEF TypeOK, OnlyStops, Live
<1>1. CASE Release(s)
  <2>1. PICK p \in {"idle", "exited"} : pc' = [pc EXCEPT ![s] = p]
    BY <1>1 DEF Release
  <2>2. QED
    BY <1>1, <2>1 DEF Release
<1>2. CASE Recorded(s) \/ Abort(s)
  BY <1>2 DEF Recorded, Abort
<1>3. QED
  BY <1>1, <1>2

\* A slot that stops without a row changing, and slots that exit together.
LEMMA SlotAbandons ==
  ASSUME TypeOK, NEW s \in Slots, OnlyStops(s), UNCHANGED storeVars
  PROVE  LeaseStep
<1>1. UNCHANGED <<status, attempts, dead>>
  BY DEF storeVars
<1>2. \A t \in Slots, j \in Jobs : Holds(t, j)' <=> Holds(t, j) /\ t \notin {s}
  BY <1>1 DEF OnlyStops, Holds, Live, Matches
<1>3. {s} \in SUBSET Slots
  OBVIOUS
<1>4. QED
  BY <1>1, <1>2, <1>3, SlotsStop

\* Ending worker_tasks without a write abandons their leases.
LEMMA SlotsAbandon ==
  ASSUME TypeOK, NEW S \in SUBSET Slots, Exit(S), UNCHANGED storeVars
  PROVE  LeaseStep
<1>1. UNCHANGED <<status, attempts, dead>>
  BY DEF storeVars
<1>2. \A t \in Slots, j \in Jobs : Holds(t, j)' <=> Holds(t, j) /\ t \notin S
  BY <1>1 DEF Exit, Holds, Live, Matches
<1>3. QED
  BY <1>1, <1>2, SlotsStop

\* A step on workers, schedules or the progress of a claim.
LEMMA NothingLeased ==
  ASSUME TypeOK, UNCHANGED <<status, attempts, dead, held, token>>,
         \A s \in Slots : Live(s)' <=> Live(s)
  PROVE  LeaseStep
<1>1. PICK S \in SUBSET Slots : S = {}
  OBVIOUS
<1>2. \A s \in Slots, j \in Jobs : Holds(s, j)' <=> Holds(s, j) /\ s \notin S
  BY <1>1 DEF Holds, Matches
<1>3. UNCHANGED <<status, attempts, dead>>
  OBVIOUS
<1>4. QED
  BY <1>2, <1>3, SlotsStop

\* An outcome write: the slot holds the row, or the write is dropped.
LEMMA OutcomeStep ==
  ASSUME TypeOK, ClaimInv, NEW s \in Slots, Live(s), OnlyStops(s),
         NEW j \in Jobs, j = held[s], NEW n \in Nat, n = token[s], NEW k \in Nat,
         MarkDone(j, n) \/ MarkDeadLetter(j, n) \/ Requeue(j, n, k) \/ Dropped(j, n)
  PROVE  LeaseStep
<1>1. CASE Dropped(j, n)
  BY <1>1, SlotAbandons DEF Dropped
<1>2. CASE MarkDone(j, n) \/ MarkDeadLetter(j, n) \/ Requeue(j, n, k)
  <2>1. Holds(s, j)
    BY <1>2 DEF Holds, MarkDone, MarkDeadLetter, Requeue
  <2>2. \A i \in Jobs : i # j => status'[i] = status[i] /\ attempts'[i] = attempts[i]
    BY <1>2 DEF MarkDone, MarkDeadLetter, Requeue, Remove, TypeOK, StoreTypeOK
  <2>3. \/ status'[j] \in {"queued", "done", "gone"} /\ dead' = dead
        \/ status'[j] = "gone" /\ dead' = dead \cup {j}
    BY <1>2 DEF MarkDone, MarkDeadLetter, Requeue, Remove, TypeOK, StoreTypeOK
  <2>4. QED
    BY <2>1, <2>2, <2>3, HolderFinishes DEF OnlyStops
<1>3. QED
  BY <1>1, <1>2

-----------------------------------------------------------------------------
(* The steps.                                                              *)

\* The steps of producers and operators are lease steps.
LEMMA ClientLease ==
  ASSUME TypeOK, TypeOK', ClaimInv, NEW j \in Jobs, ClientStep(j)
  PROVE  LeaseStep
<1>t. status \in [Jobs -> JobStates] /\ attempts \in [Jobs -> Nat]
      /\ status' \in [Jobs -> JobStates]
  BY DEF TypeOK, StoreTypeOK
<1>1. CASE Enqueue(j)
  <2>1. /\ status[j] = "unborn" /\ status' = [status EXCEPT ![j] = "queued"]
        /\ UNCHANGED <<attempts, dead, pc, held, token>>
    BY <1>1 DEF Enqueue, Insert, slotVars
  <2>2. j \notin dead
    BY <2>1 DEF ClaimInv
  <2>3. Life[j] = "unborn" /\ Life' = [Life EXCEPT ![j] = "queued"]
    BY <2>1, <2>2, <1>t DEF Life
  <2>4. \A s \in Slots, i \in Jobs : Holds(s, i)' <=> Holds(s, i)
    BY <2>1, <1>t DEF Holds, Live, Matches
  <2>5. Holders' = Holders
    BY <2>4 DEF Holders
  <2>6. QED
    BY <2>3, <2>5 DEF LeaseStep, Lease!Next, Lease!Submit
<1>2. CASE Cancel(j)
  <2>1. /\ status[j] = "queued" /\ status' = [status EXCEPT ![j] = "cancelled"]
        /\ UNCHANGED <<attempts, dead, pc, held, token>>
    BY <1>2 DEF Cancel, CancelJob, slotVars
  <2>2. j \notin dead
    BY <2>1 DEF ClaimInv
  <2>3. Life[j] = "queued" /\ Life' = [Life EXCEPT ![j] = "cancelled"]
    BY <2>1, <2>2, <1>t DEF Life
  <2>4. \A s \in Slots, i \in Jobs : Holds(s, i)' <=> Holds(s, i)
    BY <2>1, <1>t DEF Holds, Live, Matches
  <2>5. Holders' = Holders
    BY <2>4 DEF Holders
  <2>6. QED
    BY <2>3, <2>5 DEF LeaseStep, Lease!Next, Lease!Cancel
<1>3. CASE Elapse(j)
  <2>1. UNCHANGED <<status, attempts, dead, pc, held, token>>
    BY <1>3 DEF Elapse, ComeDue, slotVars
  <2>2. QED
    BY <2>1, NothingLeased DEF Live
<1>4. CASE Delete(j)
  <2>1. /\ status[j] \in RowStates /\ status' = [status EXCEPT ![j] = "gone"]
        /\ attempts' = [attempts EXCEPT ![j] = 0]
        /\ UNCHANGED <<slotVars, dead>>
    BY <1>4 DEF Delete, DeleteJob, Remove
  <2>2. /\ \A i \in Jobs : i \notin {j} => status'[i] = status[i] /\ attempts'[i] = attempts[i]
        /\ \A i \in {j} : status[i] \in RowStates /\ status'[i] = "gone"
    BY <2>1, <1>t
  <2>3. QED
    BY ZenonT(60), <2>1, <2>2, <1>t, RowsLeave
<1>5. QED
  BY <1>1, <1>2, <1>3, <1>4 DEF ClientStep

\* A claim takes the lease: no slot holds a queued job, and s holds nothing else.
LEMMA ClaimLeases ==
  ASSUME TypeOK, ClaimInv, NEW s \in Slots, NEW j \in Jobs, Claim(s, j)
  PROVE  LeaseStep
<1>t. /\ status \in [Jobs -> JobStates] /\ attempts \in [Jobs -> Nat]
      /\ pc \in [Slots -> SlotStates] /\ token \in [Slots -> Nat]
      /\ held \in [Slots -> Jobs \cup {NoJob}]
  BY DEF TypeOK, StoreTypeOK
<1>1. /\ pc' = [pc EXCEPT ![s] = "claimed"]
      /\ held' = [held EXCEPT ![s] = j]
      /\ token' = [token EXCEPT ![s] = attempts[j] + 1]
      /\ status' = [status EXCEPT ![j] = "processing"]
      /\ attempts' = [attempts EXCEPT ![j] = @ + 1]
      /\ status[j] = "queued" /\ pc[s] = "idle" /\ dead' = dead
  BY DEF Claim, FetchAndLock
<1>2. Holds(s, j)'
  BY <1>1, <1>t DEF Holds, Live, Matches
<1>3. \A t \in Slots : Holds(t, j)' => t = s
  <2> SUFFICES ASSUME NEW t \in Slots, Holds(t, j)', t # s PROVE FALSE
    OBVIOUS
  <2>1. Live(t) /\ held[t] = j /\ token[t] = attempts[j] + 1
    BY <1>1, <1>t DEF Holds, Live, Matches
  <2>2. token[t] <= attempts[j]
    BY <1>1, <2>1 DEF ClaimInv
  <2>3. QED
    BY <2>1, <2>2, <1>t
<1>4. \A t \in Slots, i \in Jobs : i # j => (Holds(t, i)' <=> Holds(t, i))
  <2> SUFFICES ASSUME NEW t \in Slots, NEW i \in Jobs, i # j PROVE Holds(t, i)' <=> Holds(t, i)
    OBVIOUS
  <2>1. CASE t = s
    BY <1>1, <1>t, <2>1 DEF Holds, Live
  <2>2. CASE t # s
    BY <1>1, <1>t, <2>2 DEF Holds, Live, Matches
  <2>3. QED
    BY <2>1, <2>2
<1>5. \A i \in Jobs : {t \in Slots : Holds(t, i)'}
                        = IF i = j THEN {s} ELSE {t \in Slots : Holds(t, i)}
  BY <1>2, <1>3, <1>4
<1>6. Holders' = [Holders EXCEPT ![j] = {s}]
  BY <1>5 DEF Holders
<1>7. j \notin dead
  BY <1>1 DEF ClaimInv
<1>8. Life[j] = "queued" /\ Life' = [Life EXCEPT ![j] = "processing"]
  BY <1>1, <1>7, <1>t DEF Life
<1>9. Lease!Take(j, s)
  BY <1>6, <1>8 DEF Lease!Take
<1>10. QED
  BY <1>9 DEF LeaseStep, Lease!Next

\* The steps of a slot are lease steps.
LEMMA SlotLease ==
  ASSUME TypeOK, ClaimInv, NEW s \in Slots, SlotStep(s)
  PROVE  LeaseStep
<1>k. /\ token[s] \in Nat
      /\ pc[s] \in {"claimed", "running", "recorded"} => held[s] \in Jobs
  BY DEF TypeOK
<1>1. ASSUME NEW j \in Jobs, Claim(s, j) PROVE LeaseStep
  BY <1>1, ClaimLeases
<1>2. CASE Reject(s)
  <2>1. OnlyStops(s) /\ Live(s) /\ held[s] \in Jobs
    BY <1>2, <1>k, EndsInSlot DEF Reject, Live
  <2>2. MarkDeadLetter(held[s], token[s]) \/ Dropped(held[s], token[s])
    BY <1>2 DEF Reject
  <2>3. QED
    BY <1>k, <2>1, <2>2, OutcomeStep
<1>3. CASE Succeed(s) \/ Snooze(s) \/ Retry(s) \/ GiveUp(s)
  <2>1. Recorded(s)
    BY <1>3 DEF Succeed, Snooze, Reschedule, Retry, GiveUp
  <2>2. OnlyStops(s) /\ Live(s) /\ held[s] \in Jobs
    BY <2>1, <1>k, EndsInSlot DEF Recorded, Live
  <2>3. PICK k \in Nat : \/ MarkDone(held[s], token[s]) \/ MarkDeadLetter(held[s], token[s])
                         \/ Requeue(held[s], token[s], k) \/ Dropped(held[s], token[s])
    <3>1. (IF token[s] > 0 THEN token[s] - 1 ELSE 0) \in Nat
      BY <1>k
    <3>2. QED
      BY <1>3, <1>k, <3>1 DEF Succeed, Snooze, Reschedule, Retry, GiveUp
  <2>4. QED
    BY <1>k, <2>2, <2>3, OutcomeStep
<1>4. CASE Begin(s)
  <2>1. UNCHANGED <<status, attempts, dead, held, token>>
    BY <1>4 DEF Begin, storeVars
  <2>2. \A t \in Slots : Live(t)' <=> Live(t)
    BY <1>4 DEF Begin, Live, TypeOK
  <2>3. QED
    BY <2>1, <2>2, NothingLeased
<1>5. CASE Clear(s) \/ Clash(s) \/ Fault(s) \/ Abort(s)
  <2>1. OnlyStops(s)
    BY <1>5, EndsInSlot DEF Clear, Clash, Fault
  <2>2. UNCHANGED storeVars
    BY <1>5 DEF Clear, Clash, Fault, Abort
  <2>3. QED
    BY <2>1, <2>2, SlotAbandons
<1>6. CASE FetchNothing(s)
  BY <1>6, SlotsAbandon DEF FetchNothing
<1>7. QED
  BY <1>1, <1>2, <1>3, <1>4, <1>5, <1>6 DEF SlotStep

\* The steps of a worker process are lease steps.
LEMMA WorkerLease ==
  ASSUME TypeOK, TypeOK', ClaimInv, NEW w \in Workers, WorkerStep(w)
  PROVE  LeaseStep
<1>t. status \in [Jobs -> JobStates] /\ status' \in [Jobs -> JobStates]
  BY DEF TypeOK, StoreTypeOK
<1>i. ASSUME UNCHANGED <<storeVars, slotVars>> \/ UNCHANGED <<jobVars, slotVars>>
      PROVE  LeaseStep
  <2>1. UNCHANGED <<status, attempts, dead, pc, held, token>>
    BY <1>i DEF storeVars, jobVars, slotVars
  <2>2. QED
    BY <2>1, NothingLeased DEF Live
<1>r. ASSUME RegisterWorker(w), UNCHANGED slotVars PROVE LeaseStep
  <2> DEFINE R == ProcessingOf(DeadPeers(w))
  <2>1. /\ status' = [j \in Jobs |-> IF j \in R THEN "queued" ELSE status[j]]
        /\ UNCHANGED <<attempts, dead>>
    BY <1>r DEF RegisterWorker
  <2>2. R \in SUBSET Jobs /\ \A j \in R : status[j] = "processing"
    BY DEF ProcessingOf
  <2> HIDE DEF R
  <2>3. QED
    BY <1>r, <1>t, <2>1, <2>2, RowsLeave
<1>1. CASE Start(w)
  BY <1>1, <1>r DEF Start
<1>2. CASE Heartbeat(w)
  BY <1>2, <1>i, <1>r DEF Heartbeat, Touch
<1>3. CASE Age(w)
  BY <1>3, <1>i DEF Age, BeatExpires
<1>4. CASE Expire(w)
  <2>1. PICK R \in SUBSET Jobs : DeleteExpired(R)
    BY <1>4 DEF Expire
  <2>2. /\ \A j \in Jobs : j \notin R => status'[j] = status[j] /\ attempts'[j] = attempts[j]
        /\ \A j \in R : status[j] \in RowStates /\ status'[j] = "gone"
        /\ dead' = dead
    BY <2>1 DEF DeleteExpired, RowStates
  <2>3. UNCHANGED slotVars
    BY <1>4 DEF Expire
  <2>4. QED
    BY <1>t, <2>2, <2>3, RowsLeave
<1>5. CASE Sweep(w)
  <2> DEFINE R == ProcessingOf({v \in Workers : beat[v] # "fresh"})
  <2>1. /\ status' = [j \in Jobs |-> IF j \in R THEN "queued" ELSE status[j]]
        /\ UNCHANGED <<attempts, dead, slotVars>>
    BY <1>5 DEF Sweep, CleanupStaleWorkers
  <2>2. R \in SUBSET Jobs /\ \A j \in R : status[j] = "processing"
    BY DEF ProcessingOf
  <2> HIDE DEF R
  <2>3. QED
    BY <1>t, <2>1, <2>2, RowsLeave
<1>6. CASE Drain(w) \/ ForceTimeout(w) \/ GraceExpires(w) \/ Crash(w)
  <2>1. UNCHANGED storeVars
    BY <1>6 DEF Drain, ForceTimeout, GraceExpires, Crash
  <2>2. PICK S \in SUBSET Slots : Exit(S)
    BY <1>6 DEF Drain, ForceTimeout, GraceExpires, Crash, SlotsOf
  <2>3. QED
    BY <2>1, <2>2, SlotsAbandon
<1>7. CASE Stop(w)
  BY <1>7, <1>i DEF Stop, Touch
<1>8. ASSUME NEW j \in Jobs, Nack(w, j) PROVE LeaseStep
  <2>1. CASE UNCHANGED storeVars
    BY <1>8, <1>i, <2>1 DEF Nack
  <2>2. CASE ~UNCHANGED storeVars
    <3>1. /\ status[j] = "processing" /\ status' = [status EXCEPT ![j] = "queued"]
          /\ UNCHANGED <<attempts, dead, slotVars>>
      BY <1>8, <2>2 DEF Nack, NackJob
    <3>2. /\ \A i \in Jobs : i \notin {j} => status'[i] = status[i] /\ attempts'[i] = attempts[i]
          /\ \A i \in {j} : status[i] = "processing" /\ status'[i] = "queued"
      BY <1>t, <3>1
    <3>3. QED
      BY <1>t, <3>1, <3>2, RowsLeave
  <2>3. QED
    BY <2>1, <2>2
<1>9. QED
  BY <1>1, <1>2, <1>3, <1>4, <1>5, <1>6, <1>7, <1>8 DEF WorkerStep

\* The queue implements the lease service.
THEOREM LeaseRefinement == Spec => ImplementsLease
<1>1. Init => Lease!Init
  <2>1. ASSUME Init PROVE Lease!Init
    <3>1. Life = [j \in Jobs |-> "unborn"]
      BY <2>1 DEF Init, StoreInit, Life
    <3>2. \A j \in Jobs : {s \in Slots : Holds(s, j)} = {}
      BY <2>1 DEF Init, Holds, Live
    <3>3. Holders = [j \in Jobs |-> {}]
      BY <3>2 DEF Holders
    <3>4. QED
      BY <3>1, <3>3 DEF Lease!Init
  <2>2. QED
    BY <2>1
<1>2. TypeOK /\ TypeOK' /\ ClaimInv /\ [Next]_vars => [Lease!Next]_(Lease!vars)
  <2> SUFFICES ASSUME TypeOK, TypeOK', ClaimInv, [Next]_vars PROVE LeaseStep
    BY DEF LeaseStep
  <2>1. CASE UNCHANGED vars
    <3>1. UNCHANGED <<status, attempts, dead, pc, held, token>>
      BY <2>1 DEF vars, storeVars, slotVars
    <3>2. QED
      BY <3>1, NothingLeased DEF Live
  <2>2. CASE Next
    BY <2>2, ClientLease, SlotLease, WorkerLease DEF Next
  <2>3. QED
    BY <2>1, <2>2
<1>3. QED
  BY <1>1, <1>2, TypeCorrect, ClaimsInvariant, PTL DEF Spec, ImplementsLease, Lease!Spec

=============================================================================
