--------------------------- MODULE DeadLetters_proofs --------------------------
(***************************************************************************)
(* Theorems about DeadLetters, for every set of jobs, callers, operators   *)
(* and tags.  The inductive invariant joins that of the producers, which   *)
(* the steps of the dead-letter service keep, with three facts: a job is   *)
(* in the dead-letter table only once its row has left the job table, an   *)
(* entry that is not there is blank, and a count in progress has missed no *)
(* row that it will not find in its second statement.                      *)
(***************************************************************************)
EXTENDS DeadLetters, Producers_proofs

Apart ==
  \A j \in Jobs : /\ dlq[j].here => row[j].state = "gone"
                  /\ ~dlq[j].here => dlq[j] = NoEntry

Counts ==
  \A o \in Operators :
    /\ op[o].do = "counting" => stayed[o] \subseteq op[o].first \cup Buried
    /\ op[o].do = "counted" => stayed[o] \subseteq op[o].first \cup op[o].second

Inv == TypeOK /\ ProducersInv /\ Apart /\ Counts

-----------------------------------------------------------------------------
(* Records.                                                                *)

LEMMA Entry ==
  /\ NoEntry \in Entries /\ NoEntry.here = FALSE /\ NoEntry.tags = {} /\ NoEntry.count = 0
  /\ NoOp \in Ops /\ NoOp.do = "nothing" /\ MaxReplays \in Nat
BY DeadLettersAssumption DEF DeadLettersAssumption, NoEntry, Entries, NoOp, Ops

LEMMA OpFields ==
  ASSUME NEW p \in Ops
  PROVE  /\ p.do = "tagging" => p.id \in Jobs /\ p.read \subseteq Tags /\ p.add \in Tags
         /\ p.do = "replaying" => p \in [do : {"replaying"}, rest : SUBSET Jobs]
         /\ p.do \in {"counting", "counted"} => p.first \subseteq Jobs
BY DEF Ops, NoOp

LEMMA EntryFields ==
  ASSUME NEW e \in Entries
  PROVE  e.here \in BOOLEAN /\ e.count \in 0 .. MaxReplays /\ e.tags \subseteq Tags
BY DEF Entries

\* The parts of the invariant that most steps read.
LEMMA Parts ==
  ASSUME Inv
  PROVE  /\ ProducersTypeOK /\ row \in [Jobs -> RowTypes] /\ dlq \in [Jobs -> Entries]
         /\ op \in [Operators -> Ops] /\ stayed \in [Operators -> SUBSET Jobs]
         /\ Buried \subseteq Jobs /\ Stored \subseteq Jobs
BY DEF Inv, TypeOK, ProducersTypeOK, Buried, Stored

-----------------------------------------------------------------------------
(* What the service does to the table of jobs.                             *)

LEMMA QuietProducers ==
  ASSUME ProducersInv, UNCHANGED producerVars
  PROVE  ProducersInv' /\ row' = row
<1>1. ProducersTypeOK'
  BY StepKeepsTypes DEF ProducersInv
<1>2. Transactions' /\ Returns' /\ ReturnedJobStarts'
  BY StepKeepsReturns
<1> QED BY <1>1, <1>2 DEF ProducersInv, producerVars

\* A row that a producer sees as queued, or relies on, is not one that is discarded.
LEMMA DiscardKeepsProducers ==
  ASSUME ProducersInv, NEW j \in Jobs, Discard(j)
  PROVE  ProducersInv'
<1>1. /\ row \in [Jobs -> RowTypes] /\ open \in [Callers -> SUBSET Jobs]
      /\ last \in [Callers -> Jobs \cup {NoJob}]
  BY DEF ProducersInv, ProducersTypeOK
<1>2. /\ row[j].state \in {"processing", "settled"} /\ row' = [row EXCEPT ![j] = Removed]
      /\ UNCHANGED <<open, call, last, left, faults>>
  BY DEF Discard
<1>3. ProducersTypeOK'
  BY <1>1, <1>2, Constants DEF ProducersInv, ProducersTypeOK
<1>4. \A k \in Jobs \ {j} : row'[k] = row[k]
  BY <1>1, <1>2
<1>5. \A d \in Callers : j \notin open[d]
  BY <1>2 DEF ProducersInv, Transactions
<1>6. \A d \in Callers, k \in Jobs : SeesQueued(d, k) => SeesQueued(d, k)'
  BY <1>2, <1>4, <1>5 DEF SeesQueued
<1>7. Transactions'
  BY <1>1, <1>2, <1>4, <1>5 DEF ProducersInv, Transactions
<1>8. Returns'
  BY <1>2, <1>6 DEF ProducersInv, Returns, Startable
<1>9. ReturnedJobStarts'
  BY <1>1, <1>2, <1>6 DEF ProducersInv, ReturnedJobStarts
<1> QED BY <1>3, <1>7, <1>8, <1>9 DEF ProducersInv

\* Callers that rely on a queued row that is deleted know that it has left the queue.
LEMMA LeaveKeepsProducers ==
  ASSUME ProducersInv, NEW j \in Jobs, Leave(j, Removed)
  PROVE  ProducersInv'
<1>1. /\ row \in [Jobs -> RowTypes] /\ open \in [Callers -> SUBSET Jobs]
      /\ left \in [Callers -> SUBSET Jobs] /\ last \in [Callers -> Jobs \cup {NoJob}]
  BY DEF ProducersInv, ProducersTypeOK
<1>2. /\ row[j].state = "queued" /\ row' = [row EXCEPT ![j] = Removed]
      /\ left' = [d \in Callers |-> IF call[d] # NoCall \/ last[d] = j
                                    THEN left[d] \cup {j} ELSE left[d]]
      /\ UNCHANGED <<open, call, last, faults>>
  BY DEF Leave
<1>3. left' \in [Callers -> SUBSET Jobs]
  BY <1>1, <1>2
<1>4. ProducersTypeOK'
  BY <1>1, <1>2, <1>3, Constants DEF ProducersInv, ProducersTypeOK
<1>5. /\ \A k \in Jobs \ {j} : row'[k] = row[k]
      /\ \A d \in Callers : left'[d] = IF call[d] # NoCall \/ last[d] = j
                                       THEN left[d] \cup {j} ELSE left[d]
  BY <1>1, <1>2
<1>6. \A d \in Callers : j \notin open[d]
  BY <1>2 DEF ProducersInv, Transactions
<1>7. \A d \in Callers, k \in Jobs : SeesQueued(d, k) => SeesQueued(d, k)' \/ k = j
  BY <1>2, <1>5 DEF SeesQueued
<1>8. Transactions'
  BY <1>1, <1>2, <1>5, <1>6 DEF ProducersInv, Transactions
<1>9. Returns'
  BY <1>2, <1>5, <1>7, Constants DEF ProducersInv, Returns, Startable
<1>10. ReturnedJobStarts'
  BY <1>1, <1>2, <1>5, <1>7 DEF ProducersInv, ReturnedJobStarts
<1> QED BY <1>4, <1>8, <1>9, <1>10 DEF ProducersInv

\* A replayed copy is a new row, which nobody relies on yet.
LEMMA CopyKeepsProducers ==
  ASSUME ProducersInv, NEW k \in Jobs, row[k] = Unborn,
         row' = [row EXCEPT ![k].state = "queued"],
         UNCHANGED <<open, call, last, left, faults>>
  PROVE  /\ ProducersInv' /\ \A j \in Jobs \ {k} : row'[j] = row[j]
<1>1. /\ row \in [Jobs -> RowTypes] /\ open \in [Callers -> SUBSET Jobs]
      /\ last \in [Callers -> Jobs \cup {NoJob}]
  BY DEF ProducersInv, ProducersTypeOK
<1>2. [row[k] EXCEPT !.state = "queued"] \in RowTypes
  BY <1>1 DEF RowTypes, RowStates
<1>3. row' = [row EXCEPT ![k] = [row[k] EXCEPT !.state = "queued"]]
  BY <1>1
<1>4. /\ row' \in [Jobs -> RowTypes] /\ row'[k].state = "queued"
      /\ \A j \in Jobs \ {k} : row'[j] = row[j]
  BY <1>1, <1>2, <1>3 DEF RowTypes
<1>5. ProducersTypeOK'
  BY <1>4 DEF ProducersInv, ProducersTypeOK
<1>6. \A d \in Callers : k \notin open[d]
  BY Constants DEF ProducersInv, Transactions
<1>7. \A d \in Callers, j \in Jobs : SeesQueued(d, j) => SeesQueued(d, j)'
  BY <1>4, <1>6 DEF SeesQueued
<1>8. Transactions'
  BY <1>1, <1>4, <1>6 DEF ProducersInv, Transactions
<1>9. Returns'
  BY <1>7 DEF ProducersInv, Returns, Startable
<1>10. ReturnedJobStarts'
  BY <1>1, <1>7 DEF ProducersInv, ReturnedJobStarts
<1> QED BY <1>4, <1>5, <1>8, <1>9, <1>10 DEF ProducersInv

\* What has left the table of jobs does not come back.
LEMMA GoneStays ==
  ASSUME ProducersInv, ProducersNext, NEW j \in Jobs, row[j].state = "gone"
  PROVE  row'[j] = row[j]
<1>1. /\ row \in [Jobs -> RowTypes] /\ row[j] # Unborn
      /\ \A c \in Callers : j \notin open[c]
  BY Constants DEF ProducersInv, ProducersTypeOK, Transactions
<1>2. ASSUME NEW c \in Callers, CallStep(c) PROVE row'[j] = row[j]
  <2>1. CASE Begin(c) \/ Conflict(c) \/ Find(c) \/ Notify(c)
    BY <2>1 DEF Begin, Conflict, Find, Notify
  <2>2. CASE Insert(c)
    <3>1. \E k \in Jobs : row[k] = Unborn /\
            row' = [row EXCEPT ![k] =
              [state |-> IF call[c].tx THEN "uncommitted" ELSE "queued", key |-> call[c].key]]
      BY <2>2 DEF Insert
    <3> QED BY <1>1, <3>1
  <2>3. CASE Raise(c) \/ Rollback(c) \/ BreakDeadlock(c)
    BY <1>1, <2>3 DEF Raise, Rollback, BreakDeadlock, Undo
  <2>4. CASE Commit(c)
    BY <1>1, <2>4 DEF Commit
  <2>5. ASSUME NEW S \in SUBSET Jobs, EnqueueMany(c, S) PROVE row'[j] = row[j]
    BY <1>1, <2>5 DEF EnqueueMany, InsertAll
  <2> QED BY <1>2, <2>1, <2>2, <2>3, <2>4, <2>5 DEF CallStep
<1>3. ASSUME NEW k \in Jobs, RowStep(k) PROVE row'[j] = row[j]
  <2>1. k # j /\ \E r : row' = [row EXCEPT ![k] = r]
    BY <1>3 DEF RowStep, Claim, Cancel, Finish, Requeue, Leave
  <2> QED BY <1>1, <2>1
<1> QED BY <1>2, <1>3 DEF ProducersNext

-----------------------------------------------------------------------------
(* One lemma per action.                                                   *)

\* Counts in progress keep what they know while no entry disappears unseen.
LEMMA CountsStay ==
  ASSUME Inv, UNCHANGED op, \A o \in Operators : stayed'[o] \subseteq stayed[o],
         \A o \in Operators : stayed'[o] \cap Buried \subseteq Buried'
  PROVE  Counts'
BY DEF Inv, Counts

LEMMA ProducerStepKeeps ==
  ASSUME Inv, ProducersNext, UNCHANGED <<dlq, op, stayed>>
  PROVE  Inv'
<1>1. ProducersTypeOK'
  BY StepKeepsTypes DEF Inv, ProducersInv
<1>2. ProducersInv'
  BY <1>1, StepKeepsReturns DEF Inv, ProducersInv
<1>3. TypeOK'
  BY <1>1 DEF Inv, TypeOK
<1>4. Apart'
  BY GoneStays DEF Inv, Apart
<1>5. Counts'
  BY CountsStay DEF Buried
<1> QED BY <1>2, <1>3, <1>4, <1>5 DEF Inv

LEMMA MarkDeadLetterKeeps ==
  ASSUME Inv, NEW j \in Jobs, MarkDeadLetter(j)
  PROVE  Inv'
<1> DEFINE e == [NoEntry EXCEPT !.here = TRUE]
<1>1. /\ Discard(j) /\ dlq' = [dlq EXCEPT ![j] = e] /\ UNCHANGED <<op, stayed>>
  BY DEF MarkDeadLetter
<1>2. e \in Entries /\ e.here = TRUE
  BY Entry DEF Entries
<1> HIDE DEF e
<1>3. ProducersInv' /\ ProducersTypeOK'
  BY <1>1, DiscardKeepsProducers DEF Inv, ProducersInv
<1>4. /\ dlq' \in [Jobs -> Entries] /\ dlq'[j].here
      /\ \A k \in Jobs \ {j} : dlq'[k] = dlq[k] /\ row'[k] = row[k]
      /\ row'[j] = Removed
  BY <1>1, <1>2, Parts DEF Discard
<1>5. TypeOK'
  BY <1>1, <1>3, <1>4 DEF Inv, TypeOK
<1>6. Apart'
  BY <1>4 DEF Inv, Apart, Removed
<1>7. Counts'
  <2>1. Buried \subseteq Buried'
    BY <1>4 DEF Buried
  <2> QED BY <1>1, <2>1, CountsStay
<1> QED BY <1>3, <1>5, <1>6, <1>7 DEF Inv

LEMMA ReviveKeeps ==
  ASSUME Inv, NEW j \in Jobs, Revive(j), UNCHANGED <<open, call, last, left, faults>>
  PROVE  /\ ProducersInv' /\ dlq' \in [Jobs -> Entries] /\ Apart' /\ Buried' = Buried
         /\ \A i \in Jobs : dlq'[i].tags = dlq[i].tags
<1>1. CASE UNCHANGED <<row, dlq>>
  <2>1. ProducersInv'
    BY <1>1, QuietProducers DEF Inv, producerVars
  <2> QED BY <1>1, <2>1, Parts DEF Inv, Apart, Buried
<1>2. ASSUME NEW k \in Jobs, row[k] = Unborn, row' = [row EXCEPT ![k].state = "queued"],
             dlq[j].here, dlq[j].count < MaxReplays, dlq' = [dlq EXCEPT ![j].count = @ + 1]
      PROVE  /\ ProducersInv' /\ dlq' \in [Jobs -> Entries] /\ Apart' /\ Buried' = Buried
             /\ \A i \in Jobs : dlq'[i].tags = dlq[i].tags
  <2>1. ProducersInv' /\ \A i \in Jobs \ {k} : row'[i] = row[i]
    BY <1>2, CopyKeepsProducers DEF Inv
  <2> DEFINE n == dlq[j].count + 1
             e == [dlq[j] EXCEPT !.count = n]
  <2>2. dlq[j] \in Entries /\ n \in 0 .. MaxReplays
    BY <1>2, Entry, Parts DEF Entries
  <2> HIDE DEF n
  <2>3. e \in Entries /\ e.here = dlq[j].here /\ e.tags = dlq[j].tags
    BY <2>2 DEF Entries
  <2>4. dlq' = [dlq EXCEPT ![j] = e]
    BY <1>2, Parts DEF n
  <2> HIDE DEF e
  <2>5. /\ dlq' \in [Jobs -> Entries] /\ dlq'[j] = e
        /\ \A i \in Jobs \ {j} : dlq'[i] = dlq[i]
    BY <2>3, <2>4, Parts
  <2>6. \A i \in Jobs : dlq'[i].here = dlq[i].here /\ dlq'[i].tags = dlq[i].tags
    BY <2>3, <2>5
  <2>7. Apart'
    <3>1. \A i \in Jobs : dlq[i].here => i # k
      BY <1>2, Constants DEF Inv, Apart
    <3> QED BY <1>2, <2>1, <2>5, <2>6, <3>1 DEF Inv, Apart
  <2> QED BY <2>1, <2>5, <2>6, <2>7 DEF Buried
<1> QED BY <1>1, <1>2 DEF Revive

LEMMA ReplayKeeps ==
  ASSUME Inv, NEW j \in Jobs, Replay(j)
  PROVE  Inv'
<1>1. Revive(j) /\ UNCHANGED <<open, call, last, left, faults, op, stayed>>
  BY DEF Replay
<1>2. ProducersInv' /\ dlq' \in [Jobs -> Entries] /\ Apart' /\ Buried' = Buried
  BY <1>1, ReviveKeeps
<1>3. TypeOK'
  BY <1>1, <1>2 DEF Inv, TypeOK, ProducersInv
<1>4. Counts'
  BY <1>1, <1>2, CountsStay
<1> QED BY <1>2, <1>3, <1>4 DEF Inv

LEMMA EraseKeeps ==
  ASSUME Inv, NEW j \in Jobs, NEW S, Erase(j, S)
  PROVE  Inv'
<1>1. /\ Leave(j, Removed) \/ Discard(j)
      /\ stayed' = [o \in Operators |-> stayed[o] \ {j}] /\ UNCHANGED <<dlq, op>>
  BY DEF Erase, Gone
<1>2. ProducersInv'
  BY <1>1, LeaveKeepsProducers, DiscardKeepsProducers DEF Inv
<1>3. row' = [row EXCEPT ![j] = Removed]
  BY <1>1 DEF Leave, Discard
<1>4. \A k \in Jobs : row[k].state = "gone" => row'[k].state = "gone"
  BY <1>3, Parts DEF Removed
<1>5. TypeOK'
  <2>1. stayed' \in [Operators -> SUBSET Jobs]
    BY <1>1, Parts
  <2> QED BY <1>1, <1>2, <2>1 DEF Inv, TypeOK, ProducersInv
<1>6. Apart'
  BY <1>1, <1>4 DEF Inv, Apart
<1>7. Counts'
  <2>1. Buried' = Buried
    BY <1>1 DEF Buried
  <2> QED BY <1>1, <2>1, CountsStay
<1> QED BY <1>2, <1>5, <1>6, <1>7 DEF Inv

LEMMA PurgeKeeps ==
  ASSUME Inv, NEW D \in SUBSET Jobs, Purge(D)
  PROVE  Inv'
<1>1. /\ dlq' = [j \in Jobs |-> IF j \in D THEN NoEntry ELSE dlq[j]]
      /\ stayed' = [o \in Operators |-> stayed[o] \ D]
      /\ UNCHANGED producerVars /\ UNCHANGED op
  BY DEF Purge, Gone
<1>2. ProducersInv' /\ row' = row
  BY <1>1, QuietProducers DEF Inv
<1>3. TypeOK'
  <2>1. dlq' \in [Jobs -> Entries] /\ stayed' \in [Operators -> SUBSET Jobs]
    BY <1>1, Entry, Parts
  <2> QED BY <1>1, <1>2, <2>1 DEF Inv, TypeOK, ProducersInv
<1>4. Apart'
  BY <1>1, <1>2, Entry DEF Inv, Apart
<1>5. Counts'
  <2>1. \A o \in Operators : stayed'[o] \subseteq stayed[o] \ D
    BY <1>1
  <2>2. Buried \ D \subseteq Buried'
    BY <1>1 DEF Buried
  <2> QED BY <1>1, <2>1, <2>2, CountsStay
<1> QED BY <1>2, <1>3, <1>4, <1>5 DEF Inv

\* Steps of an operator change only what it is in the middle of, and its count.
LEMMA OperatorTurn ==
  ASSUME Inv, NEW o \in Operators, NEW p \in Ops, NEW S \in SUBSET Jobs,
         op' = [op EXCEPT ![o] = p], stayed' = [stayed EXCEPT ![o] = S],
         ProducersInv', dlq' \in [Jobs -> Entries], Apart', Buried' = Buried,
         p.do = "counting" => S \subseteq p.first \cup Buried,
         p.do = "counted" => S \subseteq p.first \cup p.second
  PROVE  Inv'
<1>1. /\ op' \in [Operators -> Ops] /\ stayed' \in [Operators -> SUBSET Jobs]
      /\ op'[o] = p /\ stayed'[o] = S
      /\ \A q \in Operators \ {o} : op'[q] = op[q] /\ stayed'[q] = stayed[q]
  BY Parts
<1>2. TypeOK'
  BY <1>1 DEF TypeOK, ProducersInv
<1>3. ASSUME NEW q \in Operators
      PROVE  /\ op'[q].do = "counting" => stayed'[q] \subseteq op'[q].first \cup Buried'
             /\ op'[q].do = "counted" => stayed'[q] \subseteq op'[q].first \cup op'[q].second
  <2>1. CASE q = o
    BY <1>1, <2>1
  <2>2. CASE q # o
    BY <1>1, <2>2 DEF Inv, Counts
  <2> QED BY <2>1, <2>2
<1>4. Counts'
  BY <1>3 DEF Counts
<1> QED BY <1>2, <1>4 DEF Inv

\* The same for a step that touches neither table: only op and stayed change.
LEMMA QuietTurn ==
  ASSUME Inv, NEW o \in Operators, NEW p \in Ops, NEW S \in SUBSET Jobs,
         UNCHANGED producerVars, UNCHANGED dlq,
         op' = [op EXCEPT ![o] = p], stayed' = [stayed EXCEPT ![o] = S],
         p.do = "counting" => S \subseteq p.first \cup Buried,
         p.do = "counted" => S \subseteq p.first \cup p.second
  PROVE  Inv'
<1>1. ProducersInv' /\ row' = row
  BY QuietProducers DEF Inv
<1>2. dlq' \in [Jobs -> Entries] /\ Buried' = Buried
  BY Parts DEF Buried
<1>3. Apart'
  BY <1>1 DEF Inv, Apart
<1> QED BY <1>1, <1>2, <1>3, OperatorTurn

LEMMA BulkReplayKeeps ==
  ASSUME Inv, NEW o \in Operators, BeginBulkReplay(o) \/ BulkReplayNext(o)
  PROVE  Inv'
<1>1. CASE BeginBulkReplay(o)
  <2>0. PICK D \in Matching : op' = [op EXCEPT ![o] = [do |-> "replaying", rest |-> D]]
    BY <1>1 DEF BeginBulkReplay
  <2> DEFINE p == [do |-> "replaying", rest |-> D]
  <2>1. p \in Ops /\ p.do = "replaying"
    BY Parts DEF Ops, Matching
  <2>2. op' = [op EXCEPT ![o] = p] /\ UNCHANGED producerVars /\ UNCHANGED <<dlq, stayed>>
    BY <1>1, <2>0 DEF BeginBulkReplay
  <2> HIDE DEF p
  <2>3. stayed' = [stayed EXCEPT ![o] = stayed[o]] /\ stayed[o] \in SUBSET Jobs
    BY <2>2, Parts
  <2> QED BY <2>1, <2>2, <2>3, QuietTurn
<1>2. ASSUME BulkReplayNext(o), NEW j \in op[o].rest, Revive(j),
             op' = [op EXCEPT ![o] =
                      IF @.rest = {j} THEN NoOp
                      ELSE [do |-> "replaying", rest |-> @.rest \ {j}]]
      PROVE  Inv'
  <2>1. /\ op[o].do = "replaying" /\ UNCHANGED <<open, call, last, left, faults, stayed>>
    BY <1>2 DEF BulkReplayNext
  <2>2. op[o] \in [do : {"replaying"}, rest : SUBSET Jobs]
    BY <2>1, Parts, OpFields
  <2>3. /\ ProducersInv' /\ dlq' \in [Jobs -> Entries] /\ Apart' /\ Buried' = Buried
    BY <1>2, <2>1, <2>2, ReviveKeeps
  <2> DEFINE p == IF op[o].rest = {j} THEN NoOp
                     ELSE [do |-> "replaying", rest |-> op[o].rest \ {j}]
  <2>4. p \in Ops /\ p.do \notin {"counting", "counted"}
    BY <2>2, Entry DEF Ops
  <2>5. op' = [op EXCEPT ![o] = p]
    BY <1>2, Parts
  <2> HIDE DEF p
  <2>6. stayed' = [stayed EXCEPT ![o] = stayed[o]] /\ stayed[o] \in SUBSET Jobs
    BY <2>1, Parts
  <2> QED BY <2>3, <2>4, <2>5, <2>6, OperatorTurn
<1>3. CASE BulkReplayNext(o)
  BY <1>2, <1>3 DEF BulkReplayNext
<1> QED BY <1>1, <1>3

LEMMA ReadTagsKeeps ==
  ASSUME Inv, NEW o \in Operators, NEW j \in Jobs, NEW t \in Tags, ReadTags(o, j, t)
  PROVE  Inv'
<1> DEFINE p == [do |-> "tagging", id |-> j, add |-> t,
                 read |-> IF dlq[j].here THEN dlq[j].tags ELSE {}]
<1>1. p \in Ops /\ p.do = "tagging"
  <2>1. dlq[j].tags \subseteq Tags
    BY Parts, EntryFields
  <2> QED BY <2>1 DEF Ops
<1>2. op' = [op EXCEPT ![o] = p] /\ UNCHANGED producerVars /\ UNCHANGED <<dlq, stayed>>
  BY DEF ReadTags
<1> HIDE DEF p
<1>3. stayed' = [stayed EXCEPT ![o] = stayed[o]] /\ stayed[o] \in SUBSET Jobs
  BY <1>2, Parts
<1> QED BY <1>1, <1>2, <1>3, QuietTurn

\* Tags that are written back change no other field, and nothing of a row that is gone.
LEMMA WriteTagsKeeps ==
  ASSUME Inv, NEW o \in Operators, WriteTags(o)
  PROVE  Inv'
<1> DEFINE j == op[o].id
           new == op[o].read \cup {op[o].add}
           e == [dlq[j] EXCEPT !.tags = new]
<1>1. /\ op[o].do = "tagging" /\ UNCHANGED producerVars /\ stayed' = stayed
      /\ dlq' = IF dlq[j].here THEN [dlq EXCEPT ![j].tags = new] ELSE dlq
      /\ op' = [op EXCEPT ![o] = NoOp]
  BY DEF WriteTags
<1>2. j \in Jobs /\ new \subseteq Tags /\ dlq[j] \in Entries
  BY <1>1, Parts, OpFields
<1>3. e \in Entries /\ e.here = dlq[j].here
  BY <1>2 DEF Entries
<1>4. dlq' = IF dlq[j].here THEN [dlq EXCEPT ![j] = e] ELSE dlq
  BY <1>1, <1>2, Parts
<1> HIDE DEF j, new, e
<1>5. ProducersInv' /\ row' = row
  BY <1>1, QuietProducers DEF Inv
<1>6. /\ dlq' \in [Jobs -> Entries]
      /\ \A k \in Jobs : dlq'[k].here = dlq[k].here /\ (~dlq[k].here => dlq'[k] = dlq[k])
  BY <1>2, <1>3, <1>4, Parts
<1>7. Apart' /\ Buried' = Buried
  BY <1>5, <1>6 DEF Inv, Apart, Buried
<1>8. stayed' = [stayed EXCEPT ![o] = stayed[o]] /\ stayed[o] \in SUBSET Jobs
  BY <1>1, Parts
<1>9. NoOp \in Ops /\ NoOp.do = "nothing"
  BY Entry
<1> QED BY <1>1, <1>5, <1>6, <1>7, <1>8, <1>9, OperatorTurn

\* The first statement has counted what the job table holds: what it has not counted is in
\* the dead-letter table.  The second counts what is there by then.
LEMMA CountingKeeps ==
  ASSUME Inv, NEW o \in Operators, CountFirst(o) \/ CountSecond(o) \/ ReturnCounts(o)
  PROVE  Inv'
<1>1. CASE CountFirst(o)
  <2> DEFINE p == [do |-> "counting", first |-> Stored]
             S == Stored \cup Buried
  <2>1. p \in Ops /\ p.do = "counting" /\ p.first = Stored /\ S \in SUBSET Jobs
    BY Parts DEF Ops
  <2>2. /\ op' = [op EXCEPT ![o] = p] /\ stayed' = [stayed EXCEPT ![o] = S]
        /\ UNCHANGED producerVars /\ UNCHANGED dlq
    BY <1>1 DEF CountFirst, Snapshot
  <2>3. S \subseteq Stored \cup Buried
    OBVIOUS
  <2> HIDE DEF p, S
  <2> QED BY <2>1, <2>2, <2>3, QuietTurn
<1>2. CASE CountSecond(o)
  <2>1. op[o].do = "counting" /\ op[o].first \subseteq Jobs
    BY <1>2, Parts, OpFields DEF CountSecond
  <2> DEFINE p == [do |-> "counted", first |-> op[o].first, second |-> Buried]
  <2>2. p \in Ops /\ p.do = "counted" /\ p.first = op[o].first /\ p.second = Buried
    BY <2>1, Parts DEF Ops
  <2>3. /\ op' = [op EXCEPT ![o] = p] /\ UNCHANGED producerVars /\ UNCHANGED <<dlq, stayed>>
    BY <1>2 DEF CountSecond, Snapshot
  <2> HIDE DEF p
  <2>4. stayed' = [stayed EXCEPT ![o] = stayed[o]] /\ stayed[o] \in SUBSET Jobs
    BY <2>3, Parts
  <2>5. stayed[o] \subseteq op[o].first \cup Buried
    BY <2>1 DEF Inv, Counts
  <2> QED BY <2>2, <2>3, <2>4, <2>5, QuietTurn
<1>3. CASE ReturnCounts(o)
  <2>1. /\ op' = [op EXCEPT ![o] = NoOp] /\ stayed' = [stayed EXCEPT ![o] = {}]
        /\ UNCHANGED producerVars /\ UNCHANGED dlq
    BY <1>3 DEF ReturnCounts
  <2>2. NoOp \in Ops /\ NoOp.do = "nothing" /\ {} \in SUBSET Jobs
    BY Entry
  <2> QED BY <2>1, <2>2, QuietTurn
<1> QED BY <1>1, <1>2, <1>3

-----------------------------------------------------------------------------
(* The invariant.                                                          *)

LEMMA DeadInit == Init => Inv
<1> SUFFICES ASSUME Init PROVE Inv
  OBVIOUS
<1>1. ProducersInv
  BY InitInv DEF Init
<1>2. /\ dlq = [j \in Jobs |-> NoEntry] /\ op = [o \in Operators |-> NoOp]
      /\ stayed = [o \in Operators |-> {}]
  BY DEF Init
<1>3. TypeOK
  BY <1>1, <1>2, Entry DEF TypeOK, ProducersInv
<1>4. Apart
  BY <1>2, Entry DEF Apart
<1>5. Counts
  BY <1>2, Entry DEF Counts
<1> QED BY <1>1, <1>3, <1>4, <1>5 DEF Inv

LEMMA DeadStep == Inv /\ [Next]_vars => Inv'
<1> SUFFICES ASSUME Inv, [Next]_vars PROVE Inv'
  OBVIOUS
<1>1. ASSUME NEW c \in Callers, CallStep(c), UNCHANGED <<dlq, op, stayed>> PROVE Inv'
  BY <1>1, ProducerStepKeeps DEF ProducersNext
<1>2. ASSUME NEW j \in Jobs, RowStep(j), UNCHANGED <<dlq, op, stayed>> PROVE Inv'
  BY <1>2, ProducerStepKeeps DEF ProducersNext
<1>3. ASSUME NEW j \in Jobs, TableStep(j) PROVE Inv'
  BY <1>3, MarkDeadLetterKeeps, ReplayKeeps, EraseKeeps
     DEF TableStep, Delete, DeleteIdle, Expire
<1>4. ASSUME NEW D \in SUBSET Jobs, Purge(D) PROVE Inv'
  BY <1>4, PurgeKeeps
<1>5. ASSUME NEW o \in Operators, OperatorStep(o) PROVE Inv'
  BY <1>5, BulkReplayKeeps, ReadTagsKeeps, WriteTagsKeeps, CountingKeeps DEF OperatorStep
<1>6. CASE UNCHANGED vars
  <2>1. ProducersInv' /\ row' = row
    BY <1>6, QuietProducers DEF Inv, vars, producerVars
  <2>2. UNCHANGED <<dlq, op, stayed>>
    BY <1>6 DEF vars
  <2>3. TypeOK'
    BY <2>1, <2>2 DEF Inv, TypeOK, ProducersInv
  <2> QED BY <2>1, <2>2, <2>3 DEF Inv, Apart, Counts, Buried
<1> QED BY <1>1, <1>2, <1>3, <1>4, <1>5, <1>6 DEF Next

\* The inductive invariant of the dead-letter service and the producers together.
THEOREM DeadInvariant == Spec => []Inv
BY DeadInit, DeadStep, PTL DEF Spec

\* Every variable has its type, whatever producers, operators and rows do.
THEOREM DeadTypes == Spec => []TypeOK
<1>1. Inv => TypeOK
  BY DEF Inv
<1> QED BY <1>1, DeadInvariant, PTL

\* get_queue_stats counts every row that was there from its first statement to its second,
\* also one that mark_job_dead_letter moves in between.
THEOREM CountsOverlookNothing == Spec => []NoJobOverlooked
<1>1. Inv => NoJobOverlooked
  BY DEF Inv, Counts, NoJobOverlooked
<1> QED BY <1>1, DeadInvariant, PTL

\* The promise that enqueue makes to its caller survives everything that the dead-letter
\* service, the deletions and the expiry of results do to the table of jobs.
THEOREM ReturnedJobStartsDespiteOperators == Spec => []ReturnedJobStarts
<1>1. Inv => ReturnedJobStarts
  BY DEF Inv, ProducersInv
<1> QED BY <1>1, DeadInvariant, PTL

-----------------------------------------------------------------------------
(* Tags.                                                                   *)

\* The step formula of OnlyOverlapLosesTags.
TagsLost(j, t) ==
  dlq'[j].here => \E o \in Operators :
    op[o].do = "tagging" /\ op[o].id = j /\ t \notin op[o].read

LEMMA OnlyWritesLoseTags ==
  ASSUME Inv, [Next]_vars, NEW j \in Jobs, NEW t \in dlq[j].tags \ dlq'[j].tags
  PROVE  TagsLost(j, t)
<1>1. ASSUME dlq' = dlq PROVE TagsLost(j, t)
  BY <1>1
<1>2. ASSUME NEW i \in Jobs, Revive(i) PROVE dlq'[j].tags = dlq[j].tags
  <2>1. CASE UNCHANGED <<row, dlq>>
    BY <2>1
  <2>2. CASE dlq' = [dlq EXCEPT ![i].count = @ + 1]
    <3> DEFINE n == dlq[i].count + 1
    <3>1. dlq' = [dlq EXCEPT ![i] = [dlq[i] EXCEPT !.count = n]]
      BY <2>2, Parts
    <3> HIDE DEF n
    <3>2. dlq[i] \in Entries
      BY Parts
    <3>3. [dlq[i] EXCEPT !.count = n].tags = dlq[i].tags
      BY <3>2 DEF Entries
    <3> QED BY <3>1, <3>3, Parts
  <2> QED BY <1>2, <2>1, <2>2 DEF Revive
<1>3. ASSUME NEW i \in Jobs, TableStep(i) PROVE TagsLost(j, t)
  <2>1. CASE MarkDeadLetter(i)
    <3> DEFINE e == [NoEntry EXCEPT !.here = TRUE]
    <3>1. row[i].state = "processing" /\ dlq' = [dlq EXCEPT ![i] = e]
      BY <2>1 DEF MarkDeadLetter
    <3> HIDE DEF e
    <3>2. i = j
      BY <3>1, Parts
    <3>3. dlq[j] = NoEntry
      BY <3>1, <3>2 DEF Inv, Apart
    <3> QED BY <3>3, Entry
  <2>2. CASE Replay(i)
    BY <1>2, <2>2 DEF Replay
  <2>3. CASE Delete(i) \/ DeleteIdle(i) \/ Expire(i)
    BY <1>1, <2>3 DEF Delete, DeleteIdle, Expire, Erase
  <2> QED BY <1>3, <2>1, <2>2, <2>3 DEF TableStep
<1>4. ASSUME NEW D \in SUBSET Jobs, Purge(D) PROVE TagsLost(j, t)
  <2>1. dlq'[j] = IF j \in D THEN NoEntry ELSE dlq[j]
    BY <1>4 DEF Purge
  <2> QED BY <2>1, Entry DEF TagsLost
<1>5. ASSUME NEW o \in Operators, WriteTags(o) PROVE TagsLost(j, t)
  <2> DEFINE k == op[o].id
             new == op[o].read \cup {op[o].add}
             e == [dlq[k] EXCEPT !.tags = new]
  <2>1. /\ op[o].do = "tagging"
        /\ dlq' = IF dlq[k].here THEN [dlq EXCEPT ![k].tags = new] ELSE dlq
    BY <1>5 DEF WriteTags
  <2>2. k \in Jobs /\ dlq[k] \in Entries
    BY <2>1, Parts, OpFields
  <2>3. e.tags = new
    BY <2>2 DEF Entries
  <2>4. dlq' = IF dlq[k].here THEN [dlq EXCEPT ![k] = e] ELSE dlq
    BY <2>1, <2>2, Parts
  <2>5. t \notin op[o].read \/ t \in new
    OBVIOUS
  <2>6. t \in new => t \in e.tags
    BY <2>3
  <2> HIDE DEF e, new
  <2>7. k = j
    BY <2>2, <2>4, Parts
  <2>8. t \notin op[o].read
    <3>1. t \in op[o].read => t \in new
      BY DEF new
    <3>2. dlq'[j] = e
      BY <2>2, <2>4, <2>7, Parts
    <3> QED BY <2>6, <3>1, <3>2
  <2> QED BY <2>1, <2>7, <2>8 DEF TagsLost
<1>6. ASSUME NEW o \in Operators, OperatorStep(o) PROVE TagsLost(j, t)
  <2>1. CASE BulkReplayNext(o)
    <3>1. \E i \in op[o].rest : Revive(i)
      BY <2>1 DEF BulkReplayNext
    <3>2. op[o].rest \subseteq Jobs
      BY <2>1, Parts, OpFields DEF BulkReplayNext
    <3> QED BY <1>2, <3>1, <3>2
  <2>2. CASE WriteTags(o)
    BY <1>5, <2>2
  <2>3. CASE BeginBulkReplay(o) \/ CountFirst(o) \/ CountSecond(o) \/ ReturnCounts(o)
    BY <1>1, <2>3 DEF BeginBulkReplay, CountFirst, CountSecond, ReturnCounts
  <2>4. ASSUME NEW i \in Jobs, NEW u \in Tags, ReadTags(o, i, u) PROVE TagsLost(j, t)
    BY <1>1, <2>4 DEF ReadTags
  <2> QED BY <1>6, <2>1, <2>2, <2>3, <2>4 DEF OperatorStep
<1>7. CASE UNCHANGED vars
  BY <1>1, <1>7 DEF vars
<1> QED BY <1>1, <1>3, <1>4, <1>6, <1>7 DEF Next

\* add_tags_to_job loses a tag only to a call that had read the row before it was added;
\* no replay, purge or move to the dead-letter table takes a tag off a row that stays.
THEOREM TagsAreLostOnlyToOverlap == Spec => OnlyOverlapLosesTags
<1>1. Inv /\ [Next]_vars =>
        [\A j \in Jobs : \A t \in dlq[j].tags \ dlq'[j].tags :
           dlq'[j].here => \E o \in Operators :
             op[o].do = "tagging" /\ op[o].id = j /\ t \notin op[o].read]_vars
  BY OnlyWritesLoseTags DEF TagsLost
<1> QED BY <1>1, DeadInvariant, PTL DEF Spec, OnlyOverlapLosesTags

==============================================================================
