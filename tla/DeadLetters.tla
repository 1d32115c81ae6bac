---------------------------- MODULE DeadLetters -----------------------------
(***************************************************************************)
(* The dead-letter table and its operators: DeadLetterService              *)
(* (soniq/features/dead_letter.py), mark_job_dead_letter and               *)
(* get_queue_stats (soniq/backends/postgres/__init__.py), over the table   *)
(* of jobs that Producers describes.                                       *)
(*                                                                         *)
(* Abstractions.  Filters and the age limit of the cleanup choose any set  *)
(* of rows; get, list and export read and are left out, except the list    *)
(* that bulk_replay works through; counts are the sets of rows counted.    *)
(***************************************************************************)
EXTENDS Producers

CONSTANTS
  Operators,   \* callers of the dead-letter service and of get_queue_stats
  Tags,        \* tags an operator may add
  MaxReplays,  \* bound: resurrection_count
  Tasks        \* what each operator does, of "tag", "stats" and "replay"

ASSUME DeadLettersAssumption ==
  /\ MaxReplays \in Nat
  /\ Tasks \in [Operators -> SUBSET {"tag", "stats", "replay"}]

VARIABLES
  dlq,     \* rows of soniq_dead_letter_jobs: present, resurrection_count, tags
  op,      \* what each operator is in the middle of
  stayed   \* history: rows present in a table ever since the count began

vars == <<row, open, call, last, left, faults, dlq, op, stayed>>

NoEntry == [here |-> FALSE, count |-> 0, tags |-> {}]
Entries == [here : BOOLEAN, count : 0 .. MaxReplays, tags : SUBSET Tags]
NoOp == [do |-> "nothing"]
Ops == {NoOp}
  \cup [do : {"tagging"}, id : Jobs, read : SUBSET Tags, add : Tags]
  \cup [do : {"replaying"}, rest : SUBSET Jobs]
  \cup [do : {"counting"}, first : SUBSET Jobs]
  \cup [do : {"counted"}, first : SUBSET Jobs, second : SUBSET Jobs]

TypeOK ==
  /\ ProducersTypeOK
  /\ dlq \in [Jobs -> Entries]
  /\ op \in [Operators -> Ops]
  /\ stayed \in [Operators -> SUBSET Jobs]

Init ==
  /\ ProducersInit
  /\ dlq = [j \in Jobs |-> NoEntry]
  /\ op = [o \in Operators |-> NoOp]
  /\ stayed = [o \in Operators |-> {}]

Stored == {j \in Jobs : row[j].state \in {"queued", "processing", "settled"}}
Buried == {j \in Jobs : dlq[j].here}

\* A row that is no longer queued disappears.
Discard(j) ==
  /\ row[j].state \in {"processing", "settled"}
  /\ row' = [row EXCEPT ![j] = Removed]
  /\ UNCHANGED <<open, call, last, left, faults>>

\* Rows of D leave the database.
Gone(D) == stayed' = [o \in Operators |-> stayed[o] \ D]

-----------------------------------------------------------------------------
\* mark_job_dead_letter: the row moves from one table to the other in one transaction.
MarkDeadLetter(j) ==
  /\ row[j].state = "processing" /\ Discard(j)
  /\ dlq' = [dlq EXCEPT ![j] = [NoEntry EXCEPT !.here = TRUE]]
  /\ UNCHANGED <<op, stayed>>

\* Fault: the copy carries the count on.
ReviveTwice(j) ==
  /\ dlq[j].here /\ \E k \in Jobs : row[k] = Unborn
  /\ \E k \in Jobs : row[k] = Unborn /\ row' = [row EXCEPT ![k].state = "queued"]
  /\ dlq' = [dlq EXCEPT ![j].count = @ + 2]

\* replay: under the lock of the dead-letter row, insert a copy with a new id and neither
\* dedup key nor unique flag, and count it.  Nothing happens when the row is gone, its job
\* is not registered in this process, or a statement fails.
Revive(j) ==
  \/ /\ dlq[j].here /\ dlq[j].count < MaxReplays
     /\ \E k \in Jobs :
          /\ row[k] = Unborn
          /\ row' = [row EXCEPT ![k].state = "queued"]
     /\ dlq' = [dlq EXCEPT ![j].count = @ + 1]
  \/ UNCHANGED <<row, dlq>>

Replay(j) ==
  /\ dlq[j].here
  /\ Revive(j)
  /\ UNCHANGED <<open, call, last, left, faults, op, stayed>>

\* What a DeadLetterFilter may select: by its conditions and limit, any of the rows.
Matching == (SUBSET Buried) \ {{}}

\* bulk_replay lists rows and then replays them one by one.
BeginBulkReplay(o) ==
  /\ op[o] = NoOp /\ "replay" \in Tasks[o]
  /\ \E D \in Matching : op' = [op EXCEPT ![o] = [do |-> "replaying", rest |-> D]]
  /\ UNCHANGED <<producerVars, dlq, stayed>>

BulkReplayNext(o) ==
  /\ op[o].do = "replaying"
  /\ \E j \in op[o].rest :
       /\ Revive(j)
       /\ op' = [op EXCEPT ![o] =
                   IF @.rest = {j} THEN NoOp
                   ELSE [do |-> "replaying", rest |-> @.rest \ {j}]]
  /\ UNCHANGED <<open, call, last, left, faults, stayed>>

\* delete_dead_letter_job, bulk_delete and cleanup_old_dead_letter_jobs: one DELETE.
Purge(D) ==
  /\ D \in Matching
  /\ dlq' = [j \in Jobs |-> IF j \in D THEN NoEntry ELSE dlq[j]]
  /\ Gone(D)
  /\ UNCHANGED <<producerVars, op>>

\* The row of a job in one of these states is deleted.
Erase(j, states) ==
  /\ row[j].state \in states
  /\ Leave(j, Removed) \/ Discard(j)
  /\ Gone({j})
  /\ UNCHANGED <<dlq, op>>

\* delete_job asks nothing, the dashboard's leaves running jobs alone, and the expiry of
\* results takes done ones.
Delete(j) == Erase(j, {"queued", "processing", "settled"})
DeleteIdle(j) == Erase(j, {"queued", "settled"})
Expire(j) == Erase(j, {"settled"})

\* add_tags_to_job: read the tags, none when there is no such row ...
ReadTags(o, j, t) ==
  /\ op[o] = NoOp /\ "tag" \in Tasks[o]
  /\ op' = [op EXCEPT ![o] = [do |-> "tagging", id |-> j, add |-> t,
                              read |-> IF dlq[j].here THEN dlq[j].tags ELSE {}]]
  /\ UNCHANGED <<producerVars, dlq, stayed>>

\* Fault: the new tags replace the old ones.
WriteNewTags(o) ==
  LET j == op[o].id IN
  /\ op[o].do = "tagging"
  /\ dlq' = IF dlq[j].here THEN [dlq EXCEPT ![j].tags = {op[o].add}] ELSE dlq
  /\ op' = [op EXCEPT ![o] = NoOp]
  /\ UNCHANGED <<producerVars, stayed>>

\* ... and write them back with the new one, over whatever is there by now.
WriteTags(o) ==
  LET j == op[o].id IN
  /\ op[o].do = "tagging"
  /\ dlq' = IF dlq[j].here THEN [dlq EXCEPT ![j].tags = op[o].read \cup {op[o].add}] ELSE dlq
  /\ op' = [op EXCEPT ![o] = NoOp]
  /\ UNCHANGED <<producerVars, stayed>>

\* Fault: the dead-letter table is counted first.
SnapshotSwapped(n) == IF n = 1 THEN Buried ELSE Stored

\* The rows that the n-th statement of get_queue_stats counts.
Snapshot(n) == IF n = 1 THEN Stored ELSE Buried

\* get_queue_stats: two statements, each with its own snapshot.
CountFirst(o) ==
  /\ op[o] = NoOp /\ "stats" \in Tasks[o]
  /\ op' = [op EXCEPT ![o] = [do |-> "counting", first |-> Snapshot(1)]]
  /\ stayed' = [stayed EXCEPT ![o] = Stored \cup Buried]
  /\ UNCHANGED <<producerVars, dlq>>

CountSecond(o) ==
  /\ op[o].do = "counting"
  /\ op' = [op EXCEPT ![o] =
              [do |-> "counted", first |-> op[o].first, second |-> Snapshot(2)]]
  /\ UNCHANGED <<producerVars, dlq, stayed>>

ReturnCounts(o) ==
  /\ op[o].do = "counted"
  /\ op' = [op EXCEPT ![o] = NoOp]
  /\ stayed' = [stayed EXCEPT ![o] = {}]
  /\ UNCHANGED <<producerVars, dlq>>

-----------------------------------------------------------------------------
OperatorStep(o) ==
  \/ BeginBulkReplay(o) \/ BulkReplayNext(o) \/ WriteTags(o)
  \/ CountFirst(o) \/ CountSecond(o) \/ ReturnCounts(o)
  \/ \E j \in Jobs, t \in Tags : ReadTags(o, j, t)

TableStep(j) == MarkDeadLetter(j) \/ Replay(j) \/ Delete(j) \/ DeleteIdle(j) \/ Expire(j)

Next ==
  \/ \E c \in Callers : CallStep(c) /\ UNCHANGED <<dlq, op, stayed>>
  \/ \E j \in Jobs : RowStep(j) /\ UNCHANGED <<dlq, op, stayed>>
  \/ \E j \in Jobs : TableStep(j)
  \/ \E D \in SUBSET Jobs : Purge(D)
  \/ \E o \in Operators : OperatorStep(o)

Spec == Init /\ [][Next]_vars

-----------------------------------------------------------------------------
(* Properties.                                                             *)

\* A count that races the move of a job to the dead-letter table never overlooks it:
\* every row that was there all along is counted, because the job table is counted first
\* and the move is one transaction (get_queue_stats, mark_job_dead_letter).
NoJobOverlooked ==
  \A o \in Operators :
    op[o].do = "counted" => stayed[o] \subseteq op[o].first \cup op[o].second

\* A tag disappears from a dead-letter row only with the row, or through a call that had
\* read the tags before this one was added (add_tags_to_job).
OnlyOverlapLosesTags ==
  [][\A j \in Jobs : \A t \in dlq[j].tags \ dlq'[j].tags :
       dlq'[j].here => \E o \in Operators :
         op[o].do = "tagging" /\ op[o].id = j /\ t \notin op[o].read]_vars

=============================================================================
