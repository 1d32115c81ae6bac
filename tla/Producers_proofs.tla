-------------------------- MODULE Producers_proofs --------------------------
(***************************************************************************)
(* Theorems about Producers, for every set of callers, jobs and keys.  The *)
(* id that enqueue is about to return, or has returned, is Startable: it   *)
(* waits where the caller sees it, or has left 'queued' since the call     *)
(* began.  That is inductive together with two facts about transactions:   *)
(* the rows an open one has inserted are uncommitted, and two transactions *)
(* have no row in common.                                                  *)
(***************************************************************************)
EXTENDS Producers, TLAPS

\* Rows of open transactions.
Transactions ==
  /\ \A c \in Callers : \A j \in open[c] : row[j].state = "uncommitted"
  /\ \A c, d \in Callers : c # d => open[c] \cap open[d] = {}

\* What a call that returns j may rely on.
Startable(c, j) == SeesQueued(c, j) \/ j \in left[c]

\* Ids of calls that have ended, or are about to.
Returns ==
  /\ \A c \in Callers : call[c] # NoCall => last[c] = NoJob
  /\ \A c \in Callers : call[c].phase = "notifying" =>
       call[c].id \in Jobs /\ Startable(c, call[c].id)

ProducersInv == ProducersTypeOK /\ Transactions /\ Returns /\ ReturnedJobStarts

\* The idle call and the first row.
LEMMA Constants ==
  /\ NoCall \in CallTypes /\ NoCall.phase = "idle" /\ Unborn \in RowTypes
  /\ Settled \in RowTypes /\ Removed \in RowTypes /\ Unborn.state = "unborn"
  /\ NoJob \notin Jobs
BY ProducersAssumption
DEF ProducersAssumption, NoCall, CallTypes, Phases, Unborn, RowTypes, RowStates, Settled, Removed

LEMMA InitInv == ProducersInit => ProducersInv
<1> SUFFICES ASSUME ProducersInit PROVE ProducersInv
  OBVIOUS
<1>1. ProducersTypeOK
  BY Constants, ProducersAssumption DEF ProducersInit, ProducersTypeOK, ProducersAssumption
<1>2. Transactions /\ Returns /\ ReturnedJobStarts
  BY Constants DEF ProducersInit, Transactions, Returns, ReturnedJobStarts
<1> QED BY <1>1, <1>2 DEF ProducersInv

-----------------------------------------------------------------------------
(* Types.                                                                  *)

LEMMA StepKeepsTypes ==
  ASSUME ProducersTypeOK, [ProducersNext]_producerVars
  PROVE  ProducersTypeOK'
<1>0. /\ row \in [Jobs -> RowTypes] /\ open \in [Callers -> SUBSET Jobs]
      /\ call \in [Callers -> CallTypes] /\ last \in [Callers -> Jobs \cup {NoJob}]
      /\ left \in [Callers -> SUBSET Jobs] /\ faults \in 0 .. MaxFaults
      /\ MaxFaults \in Nat /\ DedupAttempts \in Nat \ {0}
  BY ProducersAssumption DEF ProducersTypeOK, ProducersAssumption
<1>1. ASSUME NEW c \in Callers, End(c)
      PROVE  call' \in [Callers -> CallTypes] /\ left' \in [Callers -> SUBSET Jobs]
  BY <1>0, <1>1, Constants DEF End
<1>2. ASSUME NEW c \in Callers, Undo(c)
      PROVE  row' \in [Jobs -> RowTypes] /\ open' \in [Callers -> SUBSET Jobs]
  BY <1>0, <1>2, Constants DEF Undo
<1>3. ASSUME NEW c \in Callers, Begin(c) PROVE ProducersTypeOK'
  <2>1. PICK k \in Keys, tx \in BOOLEAN : call' = [call EXCEPT ![c] =
          [phase |-> "inserting", key |-> k, tx |-> tx, round |-> 1, id |-> NoJob]]
    BY <1>3 DEF Begin
  <2> DEFINE r == [phase |-> "inserting", key |-> k, tx |-> tx, round |-> 1, id |-> NoJob]
  <2>2. r \in CallTypes
    BY <1>0 DEF CallTypes, Phases
  <2> HIDE DEF r
  <2>3. call' \in [Callers -> CallTypes]
    BY <1>0, <2>1, <2>2 DEF r
  <2> QED BY <1>0, <1>3, <2>3 DEF Begin, ProducersTypeOK
<1>4. ASSUME NEW c \in Callers, Insert(c) PROVE ProducersTypeOK'
  <2>1. PICK j \in Jobs :
          /\ row' = [row EXCEPT ![j] =
               [state |-> IF call[c].tx THEN "uncommitted" ELSE "queued", key |-> call[c].key]]
          /\ open' = IF call[c].tx THEN [open EXCEPT ![c] = @ \cup {j}] ELSE open
          /\ call' = [call EXCEPT ![c] = [call[c] EXCEPT !.phase = "notifying", !.id = j]]
    BY ZenonT(60), <1>4, <1>0 DEF Insert
  <2>2. [state |-> IF call[c].tx THEN "uncommitted" ELSE "queued", key |-> call[c].key] \in RowTypes
    BY <1>0 DEF RowTypes, RowStates, CallTypes
  <2>3. [call[c] EXCEPT !.phase = "notifying", !.id = j] \in CallTypes
    BY ZenonT(60), <1>0 DEF CallTypes, Phases
  <2>4. row' \in [Jobs -> RowTypes] /\ open' \in [Callers -> SUBSET Jobs]
    BY <1>0, <2>1, <2>2
  <2>5. call' \in [Callers -> CallTypes]
    BY <1>0, <2>1, <2>3
  <2> QED BY <1>0, <1>4, <2>4, <2>5 DEF Insert, ProducersTypeOK
<1>5. ASSUME NEW c \in Callers, Conflict(c) PROVE ProducersTypeOK'
  <2>1. call' = [call EXCEPT ![c] = [call[c] EXCEPT !.phase = "finding"]]
    BY <1>5 DEF Conflict
  <2>2. [call[c] EXCEPT !.phase = "finding"] \in CallTypes
    BY <1>0 DEF CallTypes, Phases
  <2>3. call' \in [Callers -> CallTypes]
    BY <1>0, <2>1, <2>2
  <2> QED BY <1>0, <1>5, <2>3 DEF Conflict, ProducersTypeOK
<1>6. ASSUME NEW c \in Callers, Find(c) PROVE ProducersTypeOK'
  <2>1. CASE End(c)
    BY <1>0, <1>1, <1>6, <2>1 DEF Find, ProducersTypeOK
  <2>2. CASE UNCHANGED left /\ \E j \in Clashing(c, call[c].key) :
               call' = [call EXCEPT ![c] = [call[c] EXCEPT !.phase = "notifying", !.id = j]]
    <3>1. PICK j \in Jobs :
            call' = [call EXCEPT ![c] = [call[c] EXCEPT !.phase = "notifying", !.id = j]]
      BY <2>2 DEF Clashing
    <3>2. [call[c] EXCEPT !.phase = "notifying", !.id = j] \in CallTypes
      BY ZenonT(60), <1>0 DEF CallTypes, Phases
    <3>3. call' \in [Callers -> CallTypes]
      BY <1>0, <3>1, <3>2
    <3> QED BY <1>0, <1>6, <2>2, <3>3 DEF Find, ProducersTypeOK
  <2>3. CASE /\ UNCHANGED left /\ call[c].round < DedupAttempts
             /\ call' = [call EXCEPT ![c] =
                          [call[c] EXCEPT !.phase = "inserting", !.round = call[c].round + 1]]
    <3> DEFINE n == call[c].round + 1
    <3>1. n \in 0 .. DedupAttempts
      BY <1>0, <2>3 DEF CallTypes
    <3> HIDE DEF n
    <3>2. [call[c] EXCEPT !.phase = "inserting", !.round = n] \in CallTypes
      BY ZenonT(60), <1>0, <3>1 DEF CallTypes, Phases
    <3>3. call' \in [Callers -> CallTypes]
      BY <1>0, <2>3, <3>2 DEF n
    <3> QED BY <1>0, <1>6, <2>3, <3>3 DEF Find, ProducersTypeOK
  <2> QED BY <1>6, <2>1, <2>2, <2>3 DEF Find
<1>7. ASSUME NEW c \in Callers, Notify(c) PROVE ProducersTypeOK'
  <2>1. call[c].id \in Jobs \cup {NoJob}
    BY <1>0 DEF CallTypes
  <2>2. last' \in [Callers -> Jobs \cup {NoJob}]
    BY <1>0, <1>7, <2>1 DEF Notify
  <2> QED BY <1>0, <1>7, <2>2, Constants DEF Notify, ProducersTypeOK
<1>8. ASSUME NEW c \in Callers, Raise(c) \/ BreakDeadlock(c) PROVE ProducersTypeOK'
  <2>1. End(c) /\ Undo(c) /\ last' = last /\ faults' \in 0 .. MaxFaults
    BY <1>0, <1>8 DEF Raise, BreakDeadlock
  <2> QED BY <1>0, <1>1, <1>2, <2>1 DEF ProducersTypeOK
<1>9. ASSUME NEW c \in Callers, Commit(c) PROVE ProducersTypeOK'
  <2>1. ASSUME NEW j \in Jobs PROVE [row[j] EXCEPT !.state = "queued"] \in RowTypes
    BY <1>0 DEF RowTypes, RowStates
  <2>2. row' \in [Jobs -> RowTypes]
    BY <1>0, <1>9, <2>1 DEF Commit
  <2> QED BY <1>0, <1>9, <2>2 DEF Commit, ProducersTypeOK
<1>10. ASSUME NEW c \in Callers, Rollback(c) PROVE ProducersTypeOK'
  <2>1. last' \in [Callers -> Jobs \cup {NoJob}]
    BY <1>0, <1>10 DEF Rollback
  <2> QED BY <1>0, <1>2, <1>10, <2>1 DEF Rollback, ProducersTypeOK
<1>11. ASSUME NEW c \in Callers, NEW S \in SUBSET Jobs, EnqueueMany(c, S) PROVE ProducersTypeOK'
  <2>1. [state |-> "queued", key |-> NoKey] \in RowTypes
    BY DEF RowTypes, RowStates
  <2>2. row' \in [Jobs -> RowTypes]
    BY <1>0, <1>11, <2>1 DEF EnqueueMany, InsertAll
  <2> QED BY <1>0, <1>11, <2>2 DEF EnqueueMany, InsertAll, ProducersTypeOK
<1>12. ASSUME NEW j \in Jobs, RowStep(j) PROVE ProducersTypeOK'
  <2>1. /\ [row[j] EXCEPT !.state = "processing"] \in RowTypes
        /\ [row[j] EXCEPT !.state = "queued"] \in RowTypes
    BY <1>0 DEF RowTypes, RowStates
  <2>2. \E r \in RowTypes : row' = [row EXCEPT ![j] = r]
    BY <1>0, <1>12, <2>1, Constants DEF RowStep, Claim, Cancel, Finish, Requeue, Leave
  <2>3. row' \in [Jobs -> RowTypes]
    BY <1>0, <2>2
  <2>4. left' \in [Callers -> SUBSET Jobs]
    BY <1>0, <1>12 DEF RowStep, Claim, Cancel, Finish, Requeue, Leave
  <2>5. UNCHANGED <<open, call, last, faults>>
    BY <1>12 DEF RowStep, Claim, Cancel, Finish, Requeue, Leave
  <2> QED BY <1>0, <2>3, <2>4, <2>5 DEF ProducersTypeOK
<1>13. CASE UNCHANGED producerVars
  BY <1>0, <1>13 DEF producerVars, ProducersTypeOK
<1> QED
  BY <1>3, <1>4, <1>5, <1>6, <1>7, <1>8, <1>9, <1>10, <1>11, <1>12, <1>13
  DEF ProducersNext, CallStep

-----------------------------------------------------------------------------
(* Transactions and returned ids.                                          *)

\* Steps that change only the call of c, which is in its loop or about to return a job
\* that it may rely on, keep the rest.
LEMMA CallStepKeepsReturns ==
  ASSUME ProducersInv, NEW c \in Callers, UNCHANGED <<row, open, last, left>>,
         call[c] # NoCall, \A d \in Callers \ {c} : call'[d] = call[d],
         call'[c].phase = "notifying" => call'[c].id \in Jobs /\ Startable(c, call'[c].id)
  PROVE  Transactions' /\ Returns' /\ ReturnedJobStarts'
<1>1. Transactions' /\ ReturnedJobStarts'
  BY DEF ProducersInv, Transactions, ReturnedJobStarts, SeesQueued
<1>2. Returns'
  BY DEF ProducersInv, Returns, Startable, SeesQueued
<1> QED BY <1>1, <1>2

\* A call of c that raises, and whose transaction is rolled back, returns nothing; no other
\* call relied on the rows that disappear.
LEMMA RaisingKeepsReturns ==
  ASSUME ProducersInv, NEW c \in Callers, call[c] # NoCall, End(c), Undo(c), UNCHANGED last
  PROVE  Transactions' /\ Returns' /\ ReturnedJobStarts'
<1>0. /\ row \in [Jobs -> RowTypes] /\ open \in [Callers -> SUBSET Jobs]
      /\ call \in [Callers -> CallTypes] /\ left \in [Callers -> SUBSET Jobs]
      /\ last \in [Callers -> Jobs \cup {NoJob}]
  BY DEF ProducersInv, ProducersTypeOK
<1>1. /\ last[c] = NoJob /\ call'[c] = NoCall
      /\ \A d \in Callers \ {c} :
           call'[d] = call[d] /\ left'[d] = left[d] /\ open'[d] = open[d]
      /\ open'[c] = {}
  BY <1>0 DEF ProducersInv, Returns, End, Undo
<1>2. \A d \in Callers \ {c}, j \in Jobs : SeesQueued(d, j) => SeesQueued(d, j)'
  <2>1. \A j \in Jobs : j \notin open[c] => row'[j] = row[j]
    BY DEF Undo
  <2>2. \A j \in open[c] : row[j].state # "queued"
    BY DEF ProducersInv, Transactions
  <2> QED BY <1>1, <2>1, <2>2 DEF SeesQueued
<1>3. Transactions'
  <2>1. \A d \in Callers \ {c} : \A j \in open[d] : j \notin open[c] /\ j \in Jobs
    BY <1>0 DEF ProducersInv, Transactions
  <2>2. \A d \in Callers \ {c} : \A j \in open[d] : row'[j] = row[j]
    BY <2>1 DEF Undo
  <2> QED BY <1>1, <2>2 DEF ProducersInv, Transactions
<1>4. Returns'
  BY <1>1, <1>2, Constants DEF ProducersInv, Returns, Startable
<1>5. ReturnedJobStarts'
  BY <1>0, <1>1, <1>2 DEF ProducersInv, ReturnedJobStarts
<1> QED BY <1>3, <1>4, <1>5

LEMMA StepKeepsReturns ==
  ASSUME ProducersInv, [ProducersNext]_producerVars
  PROVE  Transactions' /\ Returns' /\ ReturnedJobStarts'
<1> DEFINE Goal == Transactions' /\ Returns' /\ ReturnedJobStarts'
<1>0. /\ row \in [Jobs -> RowTypes] /\ open \in [Callers -> SUBSET Jobs]
      /\ call \in [Callers -> CallTypes] /\ left \in [Callers -> SUBSET Jobs]
      /\ last \in [Callers -> Jobs \cup {NoJob}]
  BY DEF ProducersInv, ProducersTypeOK
<1>1. ASSUME NEW c \in Callers, Begin(c) PROVE Goal
  <2>1. /\ last'[c] = NoJob /\ call'[c].phase = "inserting"
        /\ \A d \in Callers \ {c} :
             call'[d] = call[d] /\ left'[d] = left[d] /\ last'[d] = last[d]
    BY <1>0, <1>1 DEF Begin
  <2>2. UNCHANGED <<row, open>>
    BY <1>1 DEF Begin
  <2> QED BY <2>1, <2>2 DEF ProducersInv, Transactions, Returns, ReturnedJobStarts, Startable,
            SeesQueued
<1>2. ASSUME NEW c \in Callers, Insert(c) PROVE Goal
  <2>1. PICK j \in Jobs :
          /\ row[j] = Unborn
          /\ row' = [row EXCEPT ![j] =
               [state |-> IF call[c].tx THEN "uncommitted" ELSE "queued", key |-> call[c].key]]
          /\ open' = IF call[c].tx THEN [open EXCEPT ![c] = @ \cup {j}] ELSE open
          /\ call' = [call EXCEPT ![c] = [call[c] EXCEPT !.phase = "notifying", !.id = j]]
    BY ZenonT(60), <1>0, <1>2 DEF Insert
  <2>2. /\ call'[c].phase = "notifying" /\ call'[c].id = j /\ call[c] # NoCall
        /\ \A d \in Callers \ {c} : call'[d] = call[d] /\ open'[d] = open[d]
    BY <1>0, <1>2, <2>1, Constants DEF Insert, CallTypes
  <2>3. /\ row'[j].state = (IF call[c].tx THEN "uncommitted" ELSE "queued")
        /\ \A k \in Jobs \ {j} : row'[k] = row[k]
        /\ open'[c] = IF call[c].tx THEN open[c] \cup {j} ELSE open[c]
    BY <1>0, <2>1
  <2>4. \A d \in Callers : j \notin open[d]
    BY <2>1, Constants DEF ProducersInv, Transactions
  <2>5. \A d \in Callers, k \in Jobs : SeesQueued(d, k) => SeesQueued(d, k)'
    BY <2>1, <2>2, <2>3, Constants DEF SeesQueued
  <2>6. SeesQueued(c, j)'
    BY <2>3 DEF SeesQueued
  <2>7. UNCHANGED <<last, left>>
    BY <1>2 DEF Insert
  <2>8. Transactions'
    BY <1>0, <2>2, <2>3, <2>4 DEF ProducersInv, Transactions
  <2>9. Returns'
    BY <2>2, <2>5, <2>6, <2>7, Constants DEF ProducersInv, Returns, Startable
  <2>10. ReturnedJobStarts'
    BY <1>0, <2>5, <2>7 DEF ProducersInv, ReturnedJobStarts
  <2> QED BY <2>8, <2>9, <2>10
<1>3. ASSUME NEW c \in Callers, Conflict(c) PROVE Goal
  <2>1. call[c] # NoCall
    BY <1>3, Constants DEF Conflict
  <2>2. call'[c].phase = "finding" /\ \A d \in Callers \ {c} : call'[d] = call[d]
    BY <1>0, <1>3 DEF Conflict, CallTypes
  <2> QED BY <1>3, <2>1, <2>2, CallStepKeepsReturns DEF Conflict
<1>4. ASSUME NEW c \in Callers, Find(c) PROVE Goal
  <2>1. call[c] # NoCall
    BY <1>4, Constants DEF Find
  <2>2. CASE End(c)
    <3>1. /\ call'[c] = NoCall /\ last[c] = NoJob
          /\ \A d \in Callers \ {c} : call'[d] = call[d] /\ left'[d] = left[d]
      BY <1>0, <2>1, <2>2 DEF End, ProducersInv, Returns
    <3>2. UNCHANGED <<row, open, last>>
      BY <1>4 DEF Find
    <3> QED BY <3>1, <3>2, Constants DEF ProducersInv, Transactions, Returns, ReturnedJobStarts,
              Startable, SeesQueued
  <2>3. CASE UNCHANGED left /\ \E j \in Clashing(c, call[c].key) :
               call' = [call EXCEPT ![c] = [call[c] EXCEPT !.phase = "notifying", !.id = j]]
    <3>1. PICK j \in Clashing(c, call[c].key) :
            call' = [call EXCEPT ![c] = [call[c] EXCEPT !.phase = "notifying", !.id = j]]
      BY <2>3
    <3>2. call'[c].id = j /\ \A d \in Callers \ {c} : call'[d] = call[d]
      BY <1>0, <3>1 DEF CallTypes
    <3>3. j \in Jobs /\ Startable(c, j)
      BY DEF Clashing, Startable
    <3> QED BY <1>4, <2>1, <2>3, <3>2, <3>3, CallStepKeepsReturns DEF Find
  <2>4. CASE /\ UNCHANGED left
             /\ call' = [call EXCEPT ![c] =
                          [call[c] EXCEPT !.phase = "inserting", !.round = call[c].round + 1]]
    <3>1. call'[c].phase = "inserting" /\ \A d \in Callers \ {c} : call'[d] = call[d]
      BY <1>0, <2>4 DEF CallTypes
    <3> QED BY <1>4, <2>1, <2>4, <3>1, CallStepKeepsReturns DEF Find
  <2> QED BY <1>4, <2>2, <2>3, <2>4 DEF Find
<1>5. ASSUME NEW c \in Callers, Notify(c) PROVE Goal
  <2> DEFINE j == call[c].id
  <2>1. j \in Jobs /\ Startable(c, j)
    BY <1>5 DEF Notify, ProducersInv, Returns
  <2>2. /\ last'[c] = j /\ call'[c] = NoCall /\ left'[c] = left[c] \cap {j}
        /\ \A d \in Callers \ {c} :
             last'[d] = last[d] /\ call'[d] = call[d] /\ left'[d] = left[d]
    BY <1>0, <1>5 DEF Notify
  <2>3. UNCHANGED <<row, open>>
    BY <1>5 DEF Notify
  <2> HIDE DEF j
  <2>4. Transactions' /\ Returns'
    BY <2>2, <2>3, Constants DEF ProducersInv, Transactions, Returns, Startable, SeesQueued
  <2>5. ReturnedJobStarts'
    BY <2>1, <2>2, <2>3 DEF ProducersInv, ReturnedJobStarts, Startable, SeesQueued
  <2> QED BY <2>4, <2>5
<1>6. ASSUME NEW c \in Callers, Raise(c) \/ BreakDeadlock(c) PROVE Goal
  <2>1. call[c] # NoCall /\ End(c) /\ Undo(c) /\ UNCHANGED last
    BY <1>6, Constants DEF Raise, BreakDeadlock
  <2> QED BY <2>1, RaisingKeepsReturns
<1>7. ASSUME NEW c \in Callers, Commit(c) PROVE Goal
  <2>1. /\ open'[c] = {} /\ \A d \in Callers \ {c} : open'[d] = open[d]
        /\ UNCHANGED <<call, last, left>>
    BY <1>0, <1>7 DEF Commit
  <2>2. \A j \in Jobs : IF j \in open[c] THEN row'[j].state = "queued" ELSE row'[j] = row[j]
    BY <1>0, <1>7 DEF Commit, RowTypes
  <2>3. \A d \in Callers, k \in Jobs : SeesQueued(d, k) => SeesQueued(d, k)'
    BY <2>1, <2>2 DEF SeesQueued
  <2>4. Transactions'
    BY <1>0, <2>1, <2>2 DEF ProducersInv, Transactions
  <2>5. Returns'
    BY <2>1, <2>3 DEF ProducersInv, Returns, Startable
  <2>6. ReturnedJobStarts'
    BY <1>0, <2>1, <2>3 DEF ProducersInv, ReturnedJobStarts
  <2> QED BY <2>4, <2>5, <2>6
<1>8. ASSUME NEW c \in Callers, Rollback(c) PROVE Goal
  <2>1. /\ open'[c] = {} /\ \A d \in Callers \ {c} : open'[d] = open[d] /\ last'[d] = last[d]
        /\ last'[c] = IF last[c] \in open[c] THEN NoJob ELSE last[c]
        /\ UNCHANGED <<call, left>>
    BY <1>0, <1>8 DEF Rollback, Undo
  <2>2. \A j \in Jobs : j \notin open[c] => row'[j] = row[j]
    BY <1>8 DEF Rollback, Undo
  <2>3. \A j \in open[c] : row[j].state # "queued"
    BY DEF ProducersInv, Transactions
  <2>4. \A d \in Callers, k \in Jobs : SeesQueued(d, k) => SeesQueued(d, k)' \/ (d = c /\ k \in open[c])
    BY <2>1, <2>2, <2>3 DEF SeesQueued
  <2>5. Transactions'
    BY <1>0, <2>1, <2>2 DEF ProducersInv, Transactions
  <2>6. Returns'
    BY <1>8, <2>1, <2>4, Constants DEF Rollback, ProducersInv, Returns, Startable
  <2>7. ReturnedJobStarts'
    BY <1>0, <2>1, <2>4 DEF ProducersInv, ReturnedJobStarts
  <2> QED BY <2>5, <2>6, <2>7
<1>9. ASSUME NEW c \in Callers, NEW S \in SUBSET Jobs, EnqueueMany(c, S) PROVE Goal
  <2>1. UNCHANGED <<open, call, last, left>>
    BY <1>9 DEF EnqueueMany, InsertAll
  <2>2. \A j \in Jobs : IF j \in S THEN row[j].state = "unborn" /\ row'[j].state = "queued"
                       ELSE row'[j] = row[j]
    BY <1>9, Constants DEF EnqueueMany, InsertAll
  <2>3. \A d \in Callers, k \in Jobs : SeesQueued(d, k) => SeesQueued(d, k)'
    BY <2>1, <2>2 DEF SeesQueued
  <2>4. Transactions'
    BY <1>0, <2>1, <2>2 DEF ProducersInv, Transactions
  <2>5. Returns' /\ ReturnedJobStarts'
    BY <1>0, <2>1, <2>3 DEF ProducersInv, Returns, Startable, ReturnedJobStarts
  <2> QED BY <2>4, <2>5
<1>10. ASSUME NEW j \in Jobs, Claim(j) \/ Cancel(j) PROVE Goal
  <2>1. /\ row[j].state = "queued" /\ \A k \in Jobs \ {j} : row'[k] = row[k]
        /\ UNCHANGED <<open, call, last>>
    BY <1>0, <1>10 DEF Claim, Cancel, Leave
  <2>2. \A d \in Callers : left'[d] = IF call[d] # NoCall \/ last[d] = j
                                      THEN left[d] \cup {j} ELSE left[d]
    BY <1>10 DEF Claim, Cancel, Leave
  <2>3. \A d \in Callers : j \notin open[d]
    BY <2>1 DEF ProducersInv, Transactions
  <2>4. \A d \in Callers, k \in Jobs : SeesQueued(d, k) => SeesQueued(d, k)' \/ k = j
    BY <2>1 DEF SeesQueued
  <2>5. Transactions'
    BY <1>0, <2>1, <2>3 DEF ProducersInv, Transactions
  <2>6. Returns'
    BY <2>1, <2>2, <2>4, Constants DEF ProducersInv, Returns, Startable
  <2>7. ReturnedJobStarts'
    BY <1>0, <2>1, <2>2, <2>4 DEF ProducersInv, ReturnedJobStarts
  <2> QED BY <2>5, <2>6, <2>7
<1>11. ASSUME NEW j \in Jobs, Finish(j) \/ Requeue(j) PROVE Goal
  <2>1. /\ row[j].state = "processing" /\ \A k \in Jobs \ {j} : row'[k] = row[k]
        /\ UNCHANGED <<open, call, last, left>>
    BY <1>0, <1>11 DEF Finish, Requeue
  <2>2. \A d \in Callers : j \notin open[d]
    BY <2>1 DEF ProducersInv, Transactions
  <2>3. \A d \in Callers, k \in Jobs : SeesQueued(d, k) => SeesQueued(d, k)'
    BY <2>1, <2>2 DEF SeesQueued
  <2>4. Transactions'
    BY <1>0, <2>1, <2>2 DEF ProducersInv, Transactions
  <2>5. Returns' /\ ReturnedJobStarts'
    BY <1>0, <2>1, <2>3 DEF ProducersInv, Returns, Startable, ReturnedJobStarts
  <2> QED BY <2>4, <2>5
<1>12. CASE UNCHANGED producerVars
  BY <1>12 DEF producerVars, ProducersInv, Transactions, Returns, Startable, SeesQueued,
     ReturnedJobStarts
<1> QED
  BY <1>1, <1>2, <1>3, <1>4, <1>5, <1>6, <1>7, <1>8, <1>9, <1>10, <1>11, <1>12
  DEF ProducersNext, CallStep, RowStep

-----------------------------------------------------------------------------
(* Theorems.                                                               *)

\* The inductive invariant of producers.
THEOREM ProducersInvariant == ProducersSpec => []ProducersInv
<1>1. ProducersInit => ProducersInv
  BY InitInv
<1>2. ProducersInv /\ [ProducersNext]_producerVars => ProducersInv'
  <2> SUFFICES ASSUME ProducersInv, [ProducersNext]_producerVars PROVE ProducersInv'
    OBVIOUS
  <2>1. ProducersTypeOK'
    BY StepKeepsTypes DEF ProducersInv
  <2>2. Transactions' /\ Returns' /\ ReturnedJobStarts'
    BY StepKeepsReturns
  <2> QED BY <2>1, <2>2 DEF ProducersInv
<1> QED BY <1>1, <1>2, PTL DEF ProducersSpec

\* An enqueue never returns the id of a job that had started when the call began, nor that of
\* a row in somebody else's open transaction (_create_job_on_conn), for every number of
\* callers, keys and rounds.
THEOREM EnqueuedJobsStart == ProducersSpec => []ReturnedJobStarts
BY ProducersInvariant, PTL DEF ProducersInv

=============================================================================
