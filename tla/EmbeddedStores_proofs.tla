------------------------ MODULE EmbeddedStores_proofs ------------------------
(***************************************************************************)
(* Theorems about EmbeddedStores, for every set of jobs and coroutines and *)
(* for both backends.  The inductive invariant says of each coroutine what *)
(* its claim and the call it is in still know about the tables, whatever   *)
(* the others have done to them between two of its statements: claims of   *)
(* one job carry different numbers and none exceeds the row's attempts;    *)
(* what _write_lock protects is as it was when the lock was taken; and a   *)
(* row that is gone was removed or has its copy in the dead-letter table,  *)
(* in what the connection sees and in what would survive a crash.          *)
(***************************************************************************)
EXTENDS EmbeddedStores, TLAPS

\* Claims with a number are claims of a job.
GoodClaims == {c \in Claims : c.job = NoJob => c.n = 0}

\* The claims that t works on or will work on once its call has returned, except the one
\* that its fetch has selected and not yet written.
Own(t) == {claim[t]} \cup (IF call[t].step = "update" THEN {} ELSE {call[t].then})

Kept(d, j) == d.row[j].state # "none" \/ j \in d.dead
FreshRow == [NoRow EXCEPT !.state = "queued"]
Fresh(d, j) == d.row[j] = FreshRow

\* Types, and what a call needs of its own record.
Shapes ==
  /\ TypeOK
  /\ \A t \in Tasks :
       /\ claim[t] \in GoodClaims /\ call[t].then \in GoodClaims
       /\ call[t].step = "insert" => call[t].job \in Jobs
       /\ call[t].step = "update" => claim[t] = NoClaim /\ call[t].then.n > 0
       /\ call[t].step \in {"copy", "drop"} => claim[t].n > 0
       /\ call[t].step = "drop" => claim[t].job \in db.dead

Locks == \A t \in Tasks : call[t].step \in {"insert", "update"} => lock = t

\* A claim's number is at most the row's attempts, and a row that is gone is gone for good.
Fits(c) ==
  c.n > 0 => /\ db.row[c.job].state # "none" => c.n <= db.row[c.job].attempts
             /\ db.row[c.job].state = "none" => c.job \in removed \cup db.dead

Numbers ==
  /\ \A t \in Tasks : \A c \in Own(t) : Fits(c)
  /\ \A t, u \in Tasks : t # u =>
       \A c \in Own(t), e \in Own(u) : c.n > 0 /\ c.job = e.job => c.n # e.n

\* What a fetch of t has selected waits for its number, or is gone for good.
SelectedBy(t, c) ==
  /\ db.row[c.job].state \in {"none", "queued", "cancelled"}
  /\ db.row[c.job].state # "none" => c.n = db.row[c.job].attempts + 1
  /\ db.row[c.job].state = "none" => c.job \in removed \cup db.dead
  /\ \A u \in Tasks \ {t} : \A e \in Own(u) : e.job = c.job => e.n < c.n
Selected(t) == SelectedBy(t, call[t].then)

\* The job that t creates is not there, and no other of its key is unclaimed.
Unclashing(t) ==
  LET j == call[t].job IN
  /\ db.row[j] = NoRow /\ j \notin db.dead \cup removed
  /\ \A k \in Jobs : KeyOf[k] = KeyOf[j] => ~Fresh(db, k)

Locked ==
  \A t \in Tasks : /\ call[t].step = "update" => Selected(t)
                   /\ call[t].step = "insert" => Unclashing(t)

\* Rows that run have been counted, and no two jobs of one key are unclaimed.
Sound(d) ==
  /\ \A j \in Jobs : d.row[j].state = "processing" =>
       d.row[j].attempts > 0 /\ d.row[j].worker > 0
  /\ \A j, k \in Jobs : j # k /\ KeyOf[j] = KeyOf[k] => ~(Fresh(d, j) /\ Fresh(d, k))

\* Accepted jobs are kept, on the connection and on disk, and so is one that create_job has
\* inserted and will have accepted once it has committed.
Durable ==
  /\ \A j \in acked \ removed : Kept(db, j) /\ (backend = "sqlite" => Kept(disk, j))
  /\ \A t \in Tasks : call[t].step = "commit" /\ call[t].job # NoJob =>
       call[t].job \in removed \/ Kept(db, call[t].job)

Inv == Shapes /\ Locks /\ Numbers /\ Locked /\ Sound(db) /\ Sound(disk) /\ Durable

-----------------------------------------------------------------------------
(* Constants, rows and tables.                                             *)

LEMMA Constants ==
  /\ NoTask \notin Tasks /\ NoJob \notin Jobs /\ MaxFaults \in Nat /\ 1 \in Lives
  /\ Lives \subseteq 0 .. MaxLives /\ MaxLives \in Nat
  /\ NoRow \in RowTypes /\ NoRow.state = "none"
  /\ FreshRow \in RowTypes /\ FreshRow.state = "queued" /\ FreshRow.attempts = 0
  /\ FreshRow.worker = 0
  /\ NoClaim \in GoodClaims /\ NoClaim.n = 0
  /\ NoCall \in Calls /\ NoCall.step = "idle" /\ NoCall.job = NoJob /\ NoCall.then = NoClaim
  /\ GoodClaims \subseteq Claims
<1>1. MaxLives \in Nat \ {0} /\ NoTask \notin Tasks /\ NoJob \notin Jobs /\ MaxFaults \in Nat
  BY EmbeddedAssumption DEF EmbeddedAssumption
<1>2. 1 \in Lives /\ Lives \subseteq 0 .. MaxLives
  BY <1>1 DEF Lives
<1>3. /\ NoRow \in RowTypes /\ NoRow.state = "none"
      /\ FreshRow \in RowTypes /\ FreshRow.state = "queued" /\ FreshRow.attempts = 0
      /\ FreshRow.worker = 0
  BY <1>1 DEF NoRow, FreshRow, RowTypes
<1>4. NoClaim \in GoodClaims /\ NoClaim.n = 0 /\ GoodClaims \subseteq Claims
  BY DEF NoClaim, GoodClaims, Claims
<1>5. /\ NoCall \in Calls /\ NoCall.step = "idle" /\ NoCall.job = NoJob
      /\ NoCall.then = NoClaim
  BY <1>4 DEF NoCall, Calls, Steps
<1> QED BY <1>1, <1>2, <1>3, <1>4, <1>5

LEMMA RowFields ==
  ASSUME NEW r \in RowTypes
  PROVE  /\ r.state \in {"none", "queued", "processing", "done", "cancelled"}
         /\ r.attempts \in Nat /\ r.worker \in Nat
BY Constants DEF RowTypes

LEMMA TableFields ==
  ASSUME NEW d \in Tables
  PROVE  /\ d.row \in [Jobs -> RowTypes] /\ d.dead \subseteq Jobs
         /\ d.worker \in [Lives -> {"absent", "active", "stopped"}]
BY DEF Tables

\* A statement that writes one row.
LEMMA OneRow ==
  ASSUME NEW d \in Tables, NEW j \in Jobs, NEW r \in RowTypes
  PROVE  /\ [d EXCEPT !.row[j] = r] \in Tables
         /\ [d EXCEPT !.row[j] = r].dead = d.dead
         /\ [d EXCEPT !.row[j] = r].row[j] = r
         /\ \A k \in Jobs \ {j} : [d EXCEPT !.row[j] = r].row[k] = d.row[k]
BY DEF Tables

\* The row as it is after nack_job.
NackedRow(r) == IF r.state = "processing" THEN [r EXCEPT !.state = "queued", !.worker = 0] ELSE r

LEMMA NackedTables ==
  ASSUME NEW d \in Tables, NEW j \in Jobs
  PROVE  /\ Nacked(d, j) \in Tables /\ Nacked(d, j).dead = d.dead
         /\ Nacked(d, j).row[j] = NackedRow(d.row[j]) /\ NackedRow(d.row[j]) \in RowTypes
         /\ \A k \in Jobs \ {j} : Nacked(d, j).row[k] = d.row[k]
<1>1. d.row[j] \in RowTypes
  BY TableFields
<1>2. [d.row[j] EXCEPT !.state = "queued", !.worker = 0] \in RowTypes
  <2>1. 0 \in 0 .. MaxLives
    BY Constants
  <2> QED BY <1>1, <2>1 DEF RowTypes
<1>3. NackedRow(d.row[j]) \in RowTypes
  BY <1>1, <1>2 DEF NackedRow
<1>4. CASE d.row[j].state = "processing"
  <2>1. Nacked(d, j) = [d EXCEPT !.row[j] = [d.row[j] EXCEPT !.state = "queued", !.worker = 0]]
    BY ZenonT(60), <1>1, <1>4, TableFields DEF Nacked, Tables, RowTypes
  <2> QED BY <1>2, <1>3, <1>4, <2>1, OneRow DEF NackedRow
<1>5. CASE d.row[j].state # "processing"
  BY <1>3, <1>5 DEF Nacked, NackedRow
<1> QED BY <1>4, <1>5

LEMMA RequeuedTables ==
  ASSUME NEW d \in Tables, NEW S
  PROVE  /\ Requeued(d, S) \in Tables /\ Requeued(d, S).dead = d.dead
         /\ \A j \in Jobs : \/ Requeued(d, S).row[j] = d.row[j]
                            \/ /\ d.row[j].state = "processing"
                               /\ Requeued(d, S).row[j] = NackedRow(d.row[j])
<1> DEFINE f == [j \in Jobs |-> IF d.row[j].state = "processing" /\ d.row[j].worker \in S
                               THEN Nacked(d, j).row[j] ELSE d.row[j]]
<1>1. Requeued(d, S) = [d EXCEPT !.row = f]
  BY DEF Requeued
<1>2. f \in [Jobs -> RowTypes]
  BY NackedTables, TableFields
<1>3. \A j \in Jobs : f[j] = d.row[j] \/ (d.row[j].state = "processing" /\ f[j] = NackedRow(d.row[j]))
  BY NackedTables
<1> HIDE DEF f
<1>4. Requeued(d, S) \in Tables /\ Requeued(d, S).dead = d.dead /\ Requeued(d, S).row = f
  BY <1>1, <1>2 DEF Tables
<1> QED BY <1>3, <1>4

LEMMA StoppedTables ==
  ASSUME NEW d \in Tables, NEW S
  PROVE  Stopped(d, S) \in Tables /\ Stopped(d, S).dead = d.dead /\ Stopped(d, S).row = d.row
<1> DEFINE f == [l \in Lives |-> IF l \in S THEN "stopped" ELSE d.worker[l]]
<1>1. Stopped(d, S) = [d EXCEPT !.worker = f]
  BY DEF Stopped
<1>2. f \in [Lives -> {"absent", "active", "stopped"}]
  BY TableFields
<1> HIDE DEF f
<1> QED BY <1>1, <1>2 DEF Tables

LEMMA CopiedTables ==
  ASSUME NEW d \in Tables, NEW j \in Jobs
  PROVE  Copied(d, j) \in Tables /\ Copied(d, j).dead = d.dead \cup {j} /\ Copied(d, j).row = d.row
BY DEF Copied, Tables

LEMMA DroppedTables ==
  ASSUME NEW d \in Tables, NEW j \in Jobs
  PROVE  /\ Dropped(d, j) \in Tables /\ Dropped(d, j).dead = d.dead
         /\ Dropped(d, j).row[j] = NoRow
         /\ \A k \in Jobs \ {j} : Dropped(d, j).row[k] = d.row[k]
BY OneRow, Constants DEF Dropped

LEMMA CancelledTables ==
  ASSUME NEW d \in Tables, NEW j \in Jobs
  PROVE  /\ Cancelled(d, j) \in Tables /\ Cancelled(d, j).dead = d.dead
         /\ \/ Cancelled(d, j).row[j] = d.row[j]
            \/ /\ d.row[j].state = "queued"
               /\ Cancelled(d, j).row[j].state = "cancelled"
               /\ Cancelled(d, j).row[j].attempts = d.row[j].attempts
         /\ \A k \in Jobs \ {j} : Cancelled(d, j).row[k] = d.row[k]
<1> DEFINE r == [d.row[j] EXCEPT !.state = "cancelled"]
<1>1. r \in RowTypes /\ r.state = "cancelled" /\ r.attempts = d.row[j].attempts
  BY TableFields DEF RowTypes
<1>2. CASE d.row[j].state = "queued"
  <2>1. Cancelled(d, j) = [d EXCEPT !.row[j] = r]
    BY <1>2, TableFields DEF Cancelled, Tables, RowTypes
  <2> HIDE DEF r
  <2> QED BY <1>1, <1>2, <2>1, OneRow
<1>3. CASE d.row[j].state # "queued"
  BY <1>3 DEF Cancelled
<1> QED BY <1>2, <1>3

LEMMA InsertedTables ==
  ASSUME NEW d \in Tables, NEW j \in Jobs
  PROVE  /\ Inserted(d, j) \in Tables /\ Inserted(d, j).dead = d.dead
         /\ Inserted(d, j).row[j] = FreshRow
         /\ \A k \in Jobs \ {j} : Inserted(d, j).row[k] = d.row[k]
<1>1. Inserted(d, j) = [d EXCEPT !.row[j] = FreshRow]
  BY DEF Inserted, FreshRow
<1> QED BY <1>1, OneRow, Constants

LEMMA TakenTables ==
  ASSUME NEW d \in Tables, NEW j \in Jobs, life \in Lives
  PROVE  /\ Taken(d, j) \in Tables /\ Taken(d, j).dead = d.dead
         /\ d.row[j].state = "none" => Taken(d, j).row[j] = d.row[j]
         /\ d.row[j].state # "none" =>
              /\ Taken(d, j).row[j].state = "processing"
              /\ Taken(d, j).row[j].attempts = d.row[j].attempts + 1
              /\ Taken(d, j).row[j].worker > 0
         /\ \A k \in Jobs \ {j} : Taken(d, j).row[k] = d.row[k]
<1> DEFINE r == [state |-> "processing", attempts |-> d.row[j].attempts + 1, worker |-> life]
<1>1. d.row[j].attempts \in Nat
  BY TableFields, RowFields
<1>2. r \in RowTypes /\ life > 0
  BY <1>1, Constants DEF RowTypes, Lives
<1>3. CASE d.row[j].state = "none"
  BY <1>3 DEF Taken
<1>4. CASE d.row[j].state # "none"
  <2>1. Taken(d, j) = [d EXCEPT !.row[j] = r]
    BY <1>4 DEF Taken
  <2>2. r.state = "processing" /\ r.attempts = d.row[j].attempts + 1 /\ r.worker = life
    OBVIOUS
  <2> HIDE DEF r
  <2> QED BY <1>2, <1>4, <2>1, <2>2, OneRow
<1> QED BY <1>3, <1>4

-----------------------------------------------------------------------------
(* Steps in which rows move forward: no row is inserted or claimed.        *)

\* What may become of row j in a step of t.
Moved(t, j) ==
  \/ db'.row[j] = db.row[j]
  \/ db'.row[j] = NoRow /\ j \in removed' \cup db'.dead
  \/ /\ db.row[j].state = "queued" /\ db'.row[j].state = "cancelled"
     /\ db'.row[j].attempts = db.row[j].attempts
  \/ /\ db.row[j].state = "processing" /\ db'.row[j].state \in {"queued", "done"}
     /\ db'.row[j].attempts = db.row[j].attempts
  \/ /\ db.row[j].state = "processing"
     /\ claim[t].job = j /\ claim[t].n = db.row[j].attempts /\ \A c \in Own(t)' : c.n = 0
     /\ db'.row[j] = [db.row[j] EXCEPT !.state = "queued", !.attempts = claim[t].n - 1]

Forward(t) ==
  /\ \A u \in Tasks \ {t} : call'[u] = call[u] /\ claim'[u] = claim[u]
  /\ \A c \in Own(t)' : c.n = 0 \/ c \in Own(t)
  /\ db.dead \subseteq db'.dead /\ removed \subseteq removed'
  /\ \A j \in Jobs : /\ Moved(t, j)
                     /\ db.row[j] = NoRow /\ j \notin db.dead \cup removed =>
                          j \notin db'.dead \cup removed'

LEMMA OwnClaims ==
  ASSUME Shapes, NEW t \in Tasks, NEW c \in Own(t)
  PROVE  c \in GoodClaims /\ c.n \in Nat /\ (c.n > 0 => c.job \in Jobs)
<1>1. c \in GoodClaims
  BY DEF Shapes, Own
<1>2. c.n \in Nat /\ c.job \in Jobs \cup {NoJob}
  BY <1>1 DEF GoodClaims, Claims
<1> QED BY <1>1, <1>2 DEF GoodClaims

LEMMA Rows ==
  ASSUME Shapes, NEW j \in Jobs
  PROVE  /\ db.row[j] \in RowTypes /\ disk.row[j] \in RowTypes
         /\ db.row[j].attempts \in Nat /\ db.row[j].worker \in Nat
         /\ db.row[j].state \in {"none", "queued", "processing", "done", "cancelled"}
BY TableFields, RowFields DEF Shapes, TypeOK

LEMMA OthersOwn ==
  ASSUME NEW t \in Tasks, \A u \in Tasks \ {t} : call'[u] = call[u] /\ claim'[u] = claim[u]
  PROVE  \A u \in Tasks \ {t} : Own(u)' = Own(u)
BY DEF Own

\* A row that moves is gone for good, or keeps its attempts unless its holder hands one back.
LEMMA MovedRows ==
  ASSUME Shapes, Sound(db), NEW t \in Tasks, Forward(t), NEW j \in Jobs
  PROVE  /\ db'.row[j].state = "none" =>
              db.row[j].state = "none" \/ j \in removed' \cup db'.dead
         /\ db'.row[j].state # "none" =>
              /\ db.row[j].state # "none"
              /\ \/ db'.row[j].attempts = db.row[j].attempts
                 \/ /\ db'.row[j].attempts = db.row[j].attempts - 1
                    /\ claim[t].job = j /\ claim[t].n = db.row[j].attempts
                    /\ db.row[j].state = "processing"
                    /\ \A c \in Own(t)' : c.n = 0
         /\ db'.row[j].state = "processing" => db'.row[j] = db.row[j]
         /\ Fresh(db, j)' => Fresh(db, j)
<1>1. db.row[j] \in RowTypes /\ db.row[j].attempts \in Nat /\ db.row[j].worker \in Nat
  BY Rows
<1>2. db.row[j].state = "processing" => db.row[j].attempts > 0 /\ db.row[j].worker > 0
  BY DEF Sound
<1>3. Moved(t, j)
  BY DEF Forward
<1>4. /\ FreshRow.state = "queued" /\ FreshRow.attempts = 0 /\ FreshRow.worker = 0
      /\ NoRow.state = "none"
  BY Constants
<1>5. CASE db'.row[j] = db.row[j]
  BY <1>5 DEF Fresh
<1>6. CASE db'.row[j] = NoRow /\ j \in removed' \cup db'.dead
  BY <1>4, <1>6 DEF Fresh
<1>7. CASE /\ db.row[j].state = "queued" /\ db'.row[j].state = "cancelled"
           /\ db'.row[j].attempts = db.row[j].attempts
  BY <1>4, <1>7 DEF Fresh
<1>8. CASE /\ db.row[j].state = "processing" /\ db'.row[j].state \in {"queued", "done"}
           /\ db'.row[j].attempts = db.row[j].attempts
  BY <1>1, <1>2, <1>4, <1>8 DEF Fresh
<1>9. CASE /\ db.row[j].state = "processing"
           /\ claim[t].job = j /\ claim[t].n = db.row[j].attempts /\ \A c \in Own(t)' : c.n = 0
           /\ db'.row[j] = [db.row[j] EXCEPT !.state = "queued", !.attempts = claim[t].n - 1]
  <2>1. /\ db'.row[j].state = "queued" /\ db'.row[j].attempts = db.row[j].attempts - 1
        /\ db'.row[j].worker = db.row[j].worker
    BY <1>1, <1>9 DEF RowTypes
  <2>2. db'.row[j].worker > 0
    BY <1>1, <1>2, <1>9, <2>1
  <2>3. ~Fresh(db, j)'
    BY <1>4, <2>2 DEF Fresh
  <2> QED BY <1>9, <2>1, <2>3
<1> QED BY <1>3, <1>5, <1>6, <1>7, <1>8, <1>9 DEF Moved

\* Numbers still differ and fit: only the holder's own hand-back lowers the attempts, and
\* then no claim carries the number any more.
LEMMA ForwardNumbers ==
  ASSUME Shapes, Numbers, Sound(db), NEW t \in Tasks, Forward(t)
  PROVE  Numbers'
<1>1. \A u \in Tasks \ {t} : Own(u)' = Own(u)
  BY OthersOwn DEF Forward
<1>2. \A u \in Tasks : \A c \in Own(u)' : c.n > 0 => c \in Own(u)
  <2> SUFFICES ASSUME NEW u \in Tasks, NEW c \in Own(u)', c.n > 0 PROVE c \in Own(u)
    OBVIOUS
  <2>1. CASE u = t
    BY <2>1 DEF Forward
  <2>2. CASE u # t
    BY <1>1, <2>2
  <2> QED BY <2>1, <2>2
<1>3. ASSUME NEW u \in Tasks, NEW c \in Own(u)', c.n > 0 PROVE Fits(c)'
  <2>1. c \in Own(u) /\ Fits(c)
    BY <1>2, <1>3 DEF Numbers
  <2>2. c.n \in Nat /\ c.job \in Jobs
    BY <1>3, <2>1, OwnClaims
  <2>3. CASE db'.row[c.job].state = "none"
    <3>1. c.job \in removed \cup db.dead \/ c.job \in removed' \cup db'.dead
      BY <1>3, <2>1, <2>2, <2>3, MovedRows DEF Fits
    <3>2. c.job \in removed' \cup db'.dead
      BY <3>1 DEF Forward
    <3> QED BY <2>3, <3>2 DEF Fits
  <2>4. CASE db'.row[c.job].state # "none" /\ db'.row[c.job].attempts = db.row[c.job].attempts
    BY <1>3, <2>1, <2>2, <2>4, MovedRows DEF Fits
  <2>5. CASE /\ db'.row[c.job].attempts = db.row[c.job].attempts - 1
             /\ claim[t].job = c.job /\ claim[t].n = db.row[c.job].attempts
             /\ db.row[c.job].state = "processing"
             /\ \A e \in Own(t)' : e.n = 0
    <3>1. u # t
      BY <1>3, <2>5
    <3>2. claim[t] \in Own(t)
      BY DEF Own
    <3>3. c.n # claim[t].n
      BY <1>3, <2>1, <2>5, <3>1, <3>2 DEF Numbers
    <3>4. c.n <= db.row[c.job].attempts /\ db.row[c.job].attempts \in Nat
      BY <1>3, <2>1, <2>2, <2>5, Rows DEF Fits
    <3>5. c.n <= db'.row[c.job].attempts
      BY <2>2, <2>5, <3>3, <3>4
    <3>6. db'.row[c.job].state # "none" \/ c.job \in removed' \cup db'.dead
      BY <2>2, <2>5, MovedRows
    <3> QED BY <3>5, <3>6 DEF Fits
  <2> QED BY <2>2, <2>3, <2>4, <2>5, MovedRows
<1>4. \A u \in Tasks : \A c \in Own(u)' : Fits(c)'
  <2> SUFFICES ASSUME NEW u \in Tasks, NEW c \in Own(u)' PROVE Fits(c)'
    OBVIOUS
  <2>1. CASE c.n > 0
    BY <1>3, <2>1
  <2>2. CASE ~(c.n > 0)
    BY <2>2 DEF Fits
  <2> QED BY <2>1, <2>2
<1>5. ASSUME NEW u \in Tasks, NEW v \in Tasks, u # v,
             NEW c \in Own(u)', NEW e \in Own(v)', c.n > 0, c.job = e.job
      PROVE  c.n # e.n
  <2>1. CASE e.n > 0
    <3>1. c \in Own(u) /\ e \in Own(v)
      BY <1>2, <1>5, <2>1
    <3> QED BY <1>5, <3>1 DEF Numbers
  <2>2. CASE ~(e.n > 0)
    BY <1>5, <2>2
  <2> QED BY <2>1, <2>2
<1> QED BY <1>4, <1>5 DEF Numbers

\* What the lock protects stays as it is, and the tables stay sound.
LEMMA ForwardLocked ==
  ASSUME Shapes, Numbers, Locked, Sound(db), NEW t \in Tasks, Forward(t)
  PROVE  /\ \A u \in Tasks \ {t} : /\ call'[u].step = "update" => Selected(u)'
                                   /\ call'[u].step = "insert" => Unclashing(u)'
         /\ Sound(db)'
         /\ \A j \in Jobs : Kept(db, j) => Kept(db, j)' \/ j \in removed'
<1>1. \A u \in Tasks \ {t} : Own(u)' = Own(u) /\ call'[u] = call[u] /\ claim'[u] = claim[u]
  BY OthersOwn DEF Forward
<1>2. ASSUME NEW u \in Tasks \ {t}, call'[u].step = "update" PROVE Selected(u)'
  <2>0. PICK c : c = call[u].then
    OBVIOUS
  <2>1. /\ Selected(u) /\ call'[u] = call[u] /\ c.n > 0
    BY <1>1, <1>2, <2>0 DEF Locked, Shapes
  <2>2. c.job \in Jobs /\ c.n \in Nat
    BY <2>0, <2>1 DEF Shapes, GoodClaims, Claims
  <2>3. db.row[c.job].state \in {"none", "queued", "cancelled"}
    BY <2>0, <2>1 DEF Selected, SelectedBy
  <2>4. db'.row[c.job].state \in {"none", "queued", "cancelled"}
    <3>1. db'.row[c.job] = db.row[c.job] \/ db'.row[c.job] = NoRow
            \/ db'.row[c.job].state = "cancelled"
      BY <2>2, <2>3 DEF Forward, Moved
    <3> QED BY <2>3, <3>1, Constants
  <2>5. db'.row[c.job].state # "none" => c.n = db'.row[c.job].attempts + 1
    BY <2>0, <2>1, <2>2, <2>3, MovedRows DEF Selected, SelectedBy
  <2>6. db'.row[c.job].state = "none" => c.job \in removed' \cup db'.dead
    <3>1. db'.row[c.job].state = "none" =>
            db.row[c.job].state = "none" \/ c.job \in removed' \cup db'.dead
      BY <2>2, MovedRows
    <3>2. db.row[c.job].state = "none" => c.job \in removed \cup db.dead
      BY <2>0, <2>1 DEF Selected, SelectedBy
    <3> QED BY <3>1, <3>2 DEF Forward
  <2>7. ASSUME NEW v \in Tasks \ {u}, NEW e \in Own(v)', e.job = c.job PROVE e.n < c.n
    <3>1. CASE e.n = 0
      BY <2>1, <2>2, <3>1
    <3>2. CASE e.n # 0
      <4>1. e \in Own(v)
        BY <1>1, <2>7, <3>2 DEF Forward
      <4> QED BY <2>0, <2>1, <2>7, <4>1 DEF Selected, SelectedBy
    <3> QED BY <3>1, <3>2
  <2> QED BY <2>0, <2>1, <2>4, <2>5, <2>6, <2>7 DEF Selected, SelectedBy
<1>3. ASSUME NEW u \in Tasks \ {t}, call'[u].step = "insert" PROVE Unclashing(u)'
  <2>0. PICK j : j = call[u].job
    OBVIOUS
  <2>1. Unclashing(u) /\ call'[u] = call[u] /\ j \in Jobs
    BY <1>1, <1>3, <2>0 DEF Locked, Shapes
  <2>2. db.row[j] = NoRow /\ j \notin db.dead \cup removed
    BY <2>0, <2>1 DEF Unclashing
  <2>3. db'.row[j] = NoRow /\ j \notin db'.dead \cup removed'
    BY <2>1, <2>2, Constants DEF Forward, Moved
  <2>4. \A k \in Jobs : KeyOf[k] = KeyOf[j] => ~Fresh(db, k)'
    BY <2>0, <2>1, MovedRows DEF Unclashing
  <2> QED BY <2>0, <2>1, <2>3, <2>4 DEF Unclashing, Fresh
<1>4. Sound(db)'
  <2>1. ASSUME NEW j \in Jobs, db'.row[j].state = "processing"
        PROVE  db'.row[j].attempts > 0 /\ db'.row[j].worker > 0
    BY <2>1, MovedRows DEF Sound
  <2>2. \A j, k \in Jobs : j # k /\ KeyOf[j] = KeyOf[k] => ~(Fresh(db, j)' /\ Fresh(db, k)')
    BY MovedRows DEF Sound
  <2> QED BY <2>1, <2>2 DEF Sound, Fresh
<1>5. \A j \in Jobs : Kept(db, j) => Kept(db, j)' \/ j \in removed'
  BY MovedRows DEF Kept, Forward
<1> QED BY <1>2, <1>3, <1>4, <1>5

-----------------------------------------------------------------------------
(* What a step does to the coroutine that takes it.                        *)

\* Only t changes its call and its claim, and both are well formed.
Turn(t) ==
  /\ call' \in [Tasks -> Calls] /\ claim' \in [Tasks -> Claims]
  /\ \A u \in Tasks \ {t} : call'[u] = call[u] /\ claim'[u] = claim[u]
  /\ claim'[t] \in GoodClaims /\ call'[t].then \in GoodClaims

LEMMA IdleOwn ==
  ASSUME NEW t \in Tasks, Idle(t)
  PROVE  /\ call[t].step = "idle" /\ call[t].job = NoJob /\ call[t].then = NoClaim
         /\ Own(t) = {claim[t], NoClaim}
<1>1. call[t].step = "idle" /\ call[t].job = NoJob /\ call[t].then = NoClaim
  BY Constants DEF Idle
<1> QED BY <1>1 DEF Own

LEMMA TurnGoTo ==
  ASSUME Shapes, NEW t \in Tasks, NEW c \in Calls, GoTo(t, c), c.then \in GoodClaims
  PROVE  Turn(t) /\ call'[t] = c /\ claim'[t] = claim[t] /\ db' = db
BY DEF Shapes, TypeOK, GoTo, Turn

LEMMA TurnWrite ==
  ASSUME Shapes, NEW t \in Tasks, NEW d, NEW c \in GoodClaims, Write(t, d, c),
         Idle(t) \/ backend = "sqlite"
  PROVE  /\ Turn(t) /\ db' = d
         /\ call'[t].step \in {"idle", "commit"} /\ call'[t].job = NoJob
         /\ \A e \in Own(t)' : e.n = 0 \/ e = c \/ e = claim[t]
         /\ c = NoClaim => \A e \in Own(t)' : e.n = 0
         /\ claim[t].n = 0 => \A e \in Own(t)' : e.n = 0 \/ e = c
<1> DEFINE spent == [claim[t] EXCEPT !.n = IF c = NoClaim THEN 0 ELSE @]
           done == [NoCall EXCEPT !.step = "commit", !.then = c]
<1>1. claim[t] \in GoodClaims /\ claim \in [Tasks -> Claims] /\ call \in [Tasks -> Calls]
  BY DEF Shapes, TypeOK
<1>2. c \in Claims
  BY Constants
<1>3. /\ done \in Calls /\ done.step = "commit" /\ done.job = NoJob /\ done.then = c
  BY <1>2 DEF NoCall, Calls, Steps
<1>4. /\ spent \in GoodClaims /\ (c = NoClaim => spent.n = 0)
      /\ (c # NoClaim => spent = claim[t])
  BY <1>1 DEF GoodClaims, Claims
<1>5. CASE /\ backend = "sqlite"
           /\ call' = [call EXCEPT ![t] = done]
           /\ claim' = [claim EXCEPT ![t].n = IF c = NoClaim THEN 0 ELSE @]
  <2>1. claim' = [claim EXCEPT ![t] = spent]
    BY <1>1, <1>5
  <2> HIDE DEF spent, done
  <2>2. call'[t] = done /\ claim'[t] = spent
    BY <1>1, <1>5, <2>1
  <2>3. Turn(t)
    BY <1>1, <1>3, <1>4, <1>5, <2>1, Constants DEF Turn
  <2>4. Own(t)' = {spent, c}
    BY <1>3, <2>2 DEF Own
  <2>5. db' = d
    BY DEF Write
  <2> QED BY <1>3, <1>4, <2>2, <2>3, <2>4, <2>5, Constants
<1>6. CASE /\ backend = "memory"
           /\ claim' = [claim EXCEPT ![t] = c]
           /\ UNCHANGED call
  <2>1. Idle(t) /\ db' = d
    BY <1>6 DEF Write
  <2>2. claim'[t] = c /\ call'[t] = NoCall
    BY <1>1, <1>6, <2>1 DEF Idle
  <2>3. Turn(t)
    BY <1>1, <1>2, <1>6, <2>2, Constants DEF Turn
  <2>4. Own(t)' = {c, NoClaim}
    BY <2>2, Constants DEF Own
  <2> QED BY <2>1, <2>2, <2>3, <2>4, Constants
<1> QED BY <1>5, <1>6 DEF Write

\* The parts of the state that have only a type.
Typed ==
  /\ db' \in Tables /\ disk' \in Tables /\ backend' = backend
  /\ lock' \in Tasks \cup {NoTask} /\ life' \in Lives /\ running' \in BOOLEAN
  /\ acked' \subseteq Jobs /\ removed' \subseteq Jobs /\ faults' \in 0 .. MaxFaults

\* The record that t leaves behind is the one its next statement needs.
Ready(t) ==
  /\ call'[t].step = "insert" => call'[t].job \in Jobs
  /\ call'[t].step = "update" => claim'[t] = NoClaim /\ call'[t].then.n > 0
  /\ call'[t].step \in {"copy", "drop"} => claim'[t].n > 0
  /\ call'[t].step = "drop" => claim'[t].job \in db'.dead

LEMMA TurnShapes ==
  ASSUME Shapes, NEW t \in Tasks, Turn(t), Typed, Ready(t), db.dead \subseteq db'.dead
  PROVE  Shapes'
<1>1. TypeOK'
  BY DEF Shapes, TypeOK, Turn, Typed
<1>2. ASSUME NEW u \in Tasks
      PROVE  /\ claim'[u] \in GoodClaims /\ call'[u].then \in GoodClaims
             /\ call'[u].step = "insert" => call'[u].job \in Jobs
             /\ call'[u].step = "update" => claim'[u] = NoClaim /\ call'[u].then.n > 0
             /\ call'[u].step \in {"copy", "drop"} => claim'[u].n > 0
             /\ call'[u].step = "drop" => claim'[u].job \in db'.dead
  <2>1. CASE u = t
    BY <2>1 DEF Turn, Ready
  <2>2. CASE u # t
    BY <2>2 DEF Turn, Shapes
  <2> QED BY <2>1, <2>2
<1> QED BY <1>1, <1>2 DEF Shapes, GoodClaims

-----------------------------------------------------------------------------
(* The invariant over a step that moves rows forward.                      *)

\* Whoever else holds the lock keeps it.
OthersKeepLock(t) == \A u \in Tasks \ {t} : lock = u => lock' = u

LEMMA OthersLocked ==
  ASSUME Locks, NEW t \in Tasks, OthersKeepLock(t),
         \A u \in Tasks \ {t} : call'[u] = call[u],
         call'[t].step \in {"insert", "update"} => lock' = t
  PROVE  Locks'
BY DEF Locks, OthersKeepLock

LEMMA ForwardStep ==
  ASSUME Inv, NEW t \in Tasks, Forward(t), Shapes', Locks',
         call'[t].step = "update" => Selected(t)',
         call'[t].step = "insert" => Unclashing(t)',
         call'[t].step = "commit" => call'[t].job = NoJob,
         disk' = disk, acked' = acked, backend' = backend
  PROVE  Inv'
<1>1. Numbers'
  BY ForwardNumbers DEF Inv
<1>2. Locked' /\ Sound(db)' /\ \A j \in Jobs : Kept(db, j) => Kept(db, j)' \/ j \in removed'
  BY ForwardLocked DEF Inv, Locked
<1>3. Sound(disk)'
  BY DEF Inv, Sound, Fresh
<1>4. acked \subseteq Jobs /\ NoJob \notin Jobs
  BY Constants DEF Inv, Shapes, TypeOK
<1>5. ASSUME NEW j \in acked' \ removed'
      PROVE  Kept(db, j)' /\ (backend' = "sqlite" => Kept(disk, j)')
  <2>1. j \in acked \ removed /\ j \in Jobs
    BY <1>4, <1>5 DEF Forward
  <2>2. Kept(db, j) /\ (backend = "sqlite" => Kept(disk, j))
    BY <2>1 DEF Inv, Durable
  <2> QED BY <1>2, <1>5, <2>1, <2>2 DEF Kept
<1>6. ASSUME NEW u \in Tasks, call'[u].step = "commit", call'[u].job # NoJob
      PROVE  call'[u].job \in removed' \/ Kept(db', call'[u].job)
  <2>1. u # t /\ call'[u] = call[u]
    BY <1>6 DEF Forward
  <2>0. PICK j : j = call[u].job
    OBVIOUS
  <2>2. j \in Jobs
    BY <1>6, <2>0, <2>1 DEF Inv, Shapes, TypeOK, Calls
  <2>3. j \in removed \/ Kept(db, j)
    BY <1>6, <2>0, <2>1 DEF Inv, Durable
  <2>4. j \in removed' \/ Kept(db, j)'
    BY <1>2, <2>2, <2>3 DEF Forward
  <2> QED BY <2>0, <2>1, <2>4 DEF Kept
<1>7. Durable'
  BY <1>5, <1>6 DEF Durable, Kept
<1> QED BY <1>1, <1>2, <1>3, <1>7 DEF Inv

\* The last write of a call.
LEMMA WriteStep ==
  ASSUME Inv, NEW t \in Tasks, NEW d \in Tables, NEW c \in Own(t) \cup {NoClaim},
         Write(t, d, c), Idle(t) \/ backend = "sqlite",
         UNCHANGED <<backend, disk, lock, acked>>,
         life' \in Lives, running' \in BOOLEAN, faults' \in 0 .. MaxFaults,
         removed \subseteq removed', removed' \subseteq Jobs, db.dead \subseteq d.dead,
         \A j \in Jobs :
           /\ Moved(t, j)
           /\ db.row[j] = NoRow /\ j \notin db.dead \cup removed =>
                j \notin db'.dead \cup removed'
  PROVE  Inv'
<1>1. c \in GoodClaims
  BY OwnClaims, Constants DEF Inv
<1>2. /\ Turn(t) /\ db' = d
      /\ call'[t].step \in {"idle", "commit"} /\ call'[t].job = NoJob
      /\ \A e \in Own(t)' : e.n = 0 \/ e = c \/ e = claim[t]
  BY <1>1, TurnWrite DEF Inv
<1>3. Forward(t)
  <2>1. claim[t] \in Own(t)
    BY DEF Own
  <2>2. \A e \in Own(t)' : e.n = 0 \/ e \in Own(t)
    BY <1>2, <2>1, Constants
  <2> QED BY <1>2, <2>2 DEF Forward, Turn
<1>4. Shapes'
  <2>1. Typed
    BY <1>2 DEF Inv, Shapes, TypeOK, Typed
  <2>2. Ready(t)
    BY <1>2 DEF Ready
  <2> QED BY <1>2, <2>1, <2>2, TurnShapes DEF Inv
<1>5. Locks'
  BY <1>2, OthersLocked DEF Inv, OthersKeepLock, Turn
<1> QED BY <1>2, <1>3, <1>4, <1>5, ForwardStep

\* A statement with another one to come, which leaves every row alone.
LEMMA StatementStep ==
  ASSUME Inv, NEW t \in Tasks, Turn(t), Ready(t), db' \in Tables, db'.row = db.row,
         \A e \in Own(t)' : e.n = 0 \/ e \in Own(t),
         call'[t].step \notin {"insert", "update", "commit"},
         UNCHANGED <<backend, disk, lock, acked, removed>>,
         life' \in Lives, running' \in BOOLEAN, faults' \in 0 .. MaxFaults,
         db.dead \subseteq db'.dead,
         \A j \in db'.dead \ db.dead : db.row[j] # NoRow \/ j \in removed
  PROVE  Inv'
<1>1. Forward(t)
  BY DEF Forward, Turn, Moved
<1>2. Shapes'
  <2>1. Typed
    BY DEF Inv, Shapes, TypeOK, Typed
  <2> QED BY <2>1, TurnShapes DEF Inv
<1>3. Locks'
  BY OthersLocked DEF Inv, OthersKeepLock, Turn
<1> QED BY <1>1, <1>2, <1>3, ForwardStep

-----------------------------------------------------------------------------
(* One lemma per group of actions.                                         *)

\* A claim that matches its row is a claim of a job that runs.
LEMMA Holding ==
  ASSUME Inv, NEW t \in Tasks, claim[t].n > 0
  PROVE  /\ claim[t] \in Own(t) /\ claim[t].job \in Jobs /\ claim[t].n \in Nat
         /\ Fits(claim[t])
<1>1. claim[t] \in Own(t)
  BY DEF Own
<1>2. Shapes /\ Numbers
  BY DEF Inv
<1> QED BY <1>1, <1>2, OwnClaims DEF Numbers

\* Nothing moves.
LEMMA NoRowMoves ==
  ASSUME NEW t \in Tasks, NEW j \in Jobs, db'.row[j] = db.row[j]
  PROVE  Moved(t, j)
BY DEF Moved

LEMMA SettleKeeps ==
  ASSUME Inv, NEW t \in Tasks, MarkDone(t) \/ MarkFailed(t) \/ Reschedule(t)
  PROVE  Inv'
<1> DEFINE j == claim[t].job
           R == db.row[j]
           D(r) == [db EXCEPT !.row[j] = r]
<1>1. /\ Working(t) /\ Idle(t) /\ claim[t].n > 0
      /\ UNCHANGED <<backend, disk, lock, life, running, acked, faults>>
      /\ \/ ~StillClaimed(db, claim[t]) /\ Write(t, db, NoClaim) /\ UNCHANGED removed
         \/ \E r \in Finished(R) \cup Retried(R, claim[t].n) \cup Snoozed(R, claim[t].n) :
              /\ Write(t, D(r), NoClaim) /\ StillClaimed(db, claim[t])
              /\ removed' = IF r = NoRow THEN removed \cup {j} ELSE removed
  BY DEF MarkDone, MarkFailed, Reschedule, Settle, Working
<1>2. /\ j \in Jobs /\ claim[t].n \in Nat /\ claim[t].n > 0
      /\ db \in Tables /\ R \in RowTypes
      /\ life \in Lives /\ running \in BOOLEAN /\ faults \in 0 .. MaxFaults
      /\ removed \subseteq Jobs /\ NoClaim \in GoodClaims
  BY <1>1, Holding, Rows, Constants DEF Inv, Shapes, TypeOK
<1>3. CASE Write(t, db, NoClaim) /\ UNCHANGED removed
  <2>1. db' = db
    BY <1>3 DEF Write
  <2> QED BY <1>1, <1>2, <1>3, <2>1, WriteStep DEF Moved
<1>4. ASSUME NEW r \in Finished(R) \cup Retried(R, claim[t].n) \cup Snoozed(R, claim[t].n),
             Write(t, D(r), NoClaim), StillClaimed(db, claim[t]),
             removed' = IF r = NoRow THEN removed \cup {j} ELSE removed
      PROVE  Inv'
  <2>1. R.state = "processing" /\ R.attempts = claim[t].n
    BY <1>4 DEF StillClaimed
  <2>2. \/ r = NoRow
        \/ /\ r \in RowTypes /\ r.state \in {"queued", "done"} /\ r.attempts = R.attempts
           /\ r # NoRow
        \/ /\ r = [R EXCEPT !.state = "queued", !.attempts = claim[t].n - 1]
           /\ r \in RowTypes /\ r # NoRow
    <3>1. CASE r \in Finished(R)
      BY <1>2, <3>1, Constants DEF Finished, RowTypes
    <3>2. CASE r \in Retried(R, claim[t].n)
      BY <1>2, <2>1, <3>2, Constants DEF Retried, RowTypes
    <3>3. CASE r \in Snoozed(R, claim[t].n)
      <4>1. r = [R EXCEPT !.state = "queued", !.attempts = claim[t].n - 1]
        BY <3>3 DEF Snoozed
      <4>2. claim[t].n - 1 \in Nat
        BY <1>2
      <4>3. r \in RowTypes /\ r.state = "queued"
        BY <1>2, <4>1, <4>2 DEF RowTypes
      <4> QED BY <4>1, <4>3, Constants
    <3> QED BY <1>4, <3>1, <3>2, <3>3
  <2>3. r \in RowTypes
    BY <2>2, Constants
  <2>4. /\ D(r) \in Tables /\ D(r).dead = db.dead /\ D(r).row[j] = r
        /\ \A k \in Jobs \ {j} : D(r).row[k] = db.row[k]
    BY <1>2, <2>3, OneRow
  <2> HIDE DEF D
  <2>5. db' = D(r) /\ \A e \in Own(t)' : e.n = 0
    BY <1>1, <1>2, <1>4, TurnWrite DEF Inv
  <2>6. Moved(t, j)
    BY <1>4, <2>1, <2>2, <2>4, <2>5 DEF Moved
  <2>7. R # NoRow
    BY <2>1, Constants
  <2>8. \A k \in Jobs : /\ Moved(t, k)
                        /\ db.row[k] = NoRow /\ k \notin db.dead \cup removed =>
                             k \notin db'.dead \cup removed'
    BY <1>4, <2>4, <2>5, <2>6, <2>7 DEF Moved
  <2> QED BY <1>1, <1>2, <1>4, <2>4, <2>8, WriteStep
<1> QED BY <1>1, <1>3, <1>4

LEMMA DeadLetterKeeps ==
  ASSUME Inv, NEW t \in Tasks, DeadLetter(t)
  PROVE  Inv'
<1> DEFINE j == claim[t].job
           d == Dropped(Copied(db, j), j)
<1>1. /\ Idle(t) /\ claim[t].n > 0 /\ Shapes
      /\ UNCHANGED <<backend, disk, lock, life, running, acked, removed, faults>>
  BY DEF DeadLetter, Working, Inv
<1>2. /\ j \in Jobs /\ claim[t].n \in Nat /\ db \in Tables /\ claim[t] \in GoodClaims
      /\ life \in Lives /\ running \in BOOLEAN /\ faults \in 0 .. MaxFaults
      /\ removed \subseteq Jobs /\ NoClaim \in GoodClaims
      /\ claim \in [Tasks -> Claims] /\ call \in [Tasks -> Calls]
  BY <1>1, Holding, Constants DEF Shapes, TypeOK
<1>3. CASE /\ ~StillClaimed(db, claim[t])
           /\ claim' = [claim EXCEPT ![t] = NoClaim] /\ UNCHANGED <<db, call>>
  <2>1. claim'[t] = NoClaim /\ call'[t] = NoCall
    BY <1>1, <1>2, <1>3 DEF Idle
  <2>2. Turn(t) /\ Ready(t)
    BY <1>2, <1>3, <2>1, Constants DEF Turn, Ready
  <2>3. \A e \in Own(t)' : e.n = 0
    BY <2>1, Constants DEF Own
  <2> QED BY <1>1, <1>2, <1>3, <2>1, <2>2, <2>3, Constants, StatementStep
<1>4. CASE /\ StillClaimed(db, claim[t]) /\ backend = "sqlite"
           /\ GoTo(t, [NoCall EXCEPT !.step = "copy"])
  <2> DEFINE c == [NoCall EXCEPT !.step = "copy"]
  <2>1. c \in Calls /\ c.step = "copy" /\ c.then = NoClaim
    BY Constants DEF NoCall, Calls, Steps
  <2> HIDE DEF c
  <2>2. Turn(t) /\ call'[t] = c /\ claim'[t] = claim[t] /\ db' = db
    BY <1>1, <1>2, <1>4, <2>1, TurnGoTo DEF c
  <2>3. Ready(t) /\ \A e \in Own(t)' : e.n = 0 \/ e \in Own(t)
    BY <1>1, <2>1, <2>2, Constants DEF Ready, Own
  <2> QED BY <1>1, <1>2, <2>1, <2>2, <2>3, StatementStep
<1>5. CASE StillClaimed(db, claim[t]) /\ backend = "memory" /\ Write(t, d, NoClaim)
  <2>1. /\ Copied(db, j) \in Tables /\ Copied(db, j).dead = db.dead \cup {j}
        /\ Copied(db, j).row = db.row
    BY <1>2, CopiedTables
  <2>2. /\ d \in Tables /\ d.dead = db.dead \cup {j} /\ d.row[j] = NoRow
        /\ \A k \in Jobs \ {j} : d.row[k] = db.row[k]
    BY <1>2, <2>1, DroppedTables
  <2> HIDE DEF d
  <2>3. db' = d
    BY <1>5 DEF Write
  <2>4. db.row[j] # NoRow
    BY <1>5, Constants DEF StillClaimed
  <2>5. \A k \in Jobs : /\ Moved(t, k)
                        /\ db.row[k] = NoRow /\ k \notin db.dead \cup removed =>
                             k \notin db'.dead \cup removed'
    BY <1>1, <2>2, <2>3, <2>4 DEF Moved
  <2> QED BY <1>1, <1>2, <1>5, <2>2, <2>5, WriteStep
<1> QED BY <1>3, <1>4, <1>5 DEF DeadLetter

LEMMA CopyKeeps ==
  ASSUME Inv, NEW t \in Tasks, Copy(t)
  PROVE  Inv'
<1> DEFINE j == claim[t].job
<1>1. /\ backend = "sqlite" /\ call[t].step = "copy" /\ Shapes
      /\ UNCHANGED <<backend, disk, lock, life, running, acked, removed, faults>>
  BY DEF Copy, At, Inv
<1>2. claim[t].n > 0 /\ claim[t] \in GoodClaims /\ call[t].then \in GoodClaims
  BY <1>1 DEF Shapes
<1>3. /\ j \in Jobs /\ claim[t].n \in Nat /\ db \in Tables /\ Fits(claim[t])
      /\ life \in Lives /\ running \in BOOLEAN /\ faults \in 0 .. MaxFaults
      /\ claim \in [Tasks -> Claims] /\ call \in [Tasks -> Calls]
  BY <1>1, <1>2, Holding DEF Shapes, TypeOK
<1>4. CASE /\ j \notin db.dead /\ db' = Copied(db, j)
           /\ call' = [call EXCEPT ![t].step = "drop"] /\ UNCHANGED claim
  <2>1. db' \in Tables /\ db'.dead = db.dead \cup {j} /\ db'.row = db.row
    BY <1>3, <1>4, CopiedTables
  <2>2. /\ call' \in [Tasks -> Calls] /\ call'[t].step = "drop"
        /\ call'[t].then = call[t].then
        /\ \A u \in Tasks \ {t} : call'[u] = call[u]
    BY <1>3, <1>4 DEF Calls, Steps
  <2>3. Turn(t) /\ Ready(t)
    BY <1>2, <1>3, <1>4, <2>1, <2>2 DEF Turn, Ready
  <2>4. \A e \in Own(t)' : e \in Own(t)
    BY <1>1, <1>4, <2>2 DEF Own
  <2>5. db.row[j] # NoRow \/ j \in removed
    BY <1>2, <1>3, <1>4, Constants DEF Fits
  <2> QED BY <1>1, <1>3, <2>1, <2>2, <2>3, <2>4, <2>5, StatementStep
<1>5. CASE /\ j \in db.dead
           /\ call' = [call EXCEPT ![t] = NoCall]
           /\ claim' = [claim EXCEPT ![t] = NoClaim] /\ UNCHANGED db
  <2>1. claim'[t] = NoClaim /\ call'[t] = NoCall
    BY <1>3, <1>5
  <2>2. Turn(t) /\ Ready(t)
    BY <1>3, <1>5, <2>1, Constants DEF Turn, Ready
  <2>3. \A e \in Own(t)' : e.n = 0
    BY <2>1, Constants DEF Own
  <2> QED BY <1>1, <1>3, <1>5, <2>1, <2>2, <2>3, Constants, StatementStep
<1> QED BY <1>4, <1>5 DEF Copy

\* What every action reads of the invariant.
LEMMA Parts ==
  ASSUME Inv
  PROVE  /\ Shapes /\ db \in Tables /\ life \in Lives /\ running \in BOOLEAN
         /\ faults \in 0 .. MaxFaults /\ removed \subseteq Jobs /\ acked \subseteq Jobs
         /\ claim \in [Tasks -> Claims] /\ call \in [Tasks -> Calls]
         /\ \A t \in Tasks : /\ claim[t] \in GoodClaims /\ call[t].then \in GoodClaims
                             /\ claim[t] \in Own(t)
BY DEF Inv, Shapes, TypeOK, Own

LEMMA NackedMoves ==
  ASSUME Inv, NEW t \in Tasks, NEW j \in Jobs, db'.row[j] = NackedRow(db.row[j])
  PROVE  Moved(t, j)
<1>1. db.row[j] \in RowTypes
  BY Rows DEF Inv
<1>2. CASE db.row[j].state = "processing"
  <2>1. db'.row[j] = [db.row[j] EXCEPT !.state = "queued", !.worker = 0]
    BY <1>2 DEF NackedRow
  <2>2. db'.row[j].state = "queued" /\ db'.row[j].attempts = db.row[j].attempts
    BY <1>1, <2>1 DEF RowTypes
  <2> QED BY <1>2, <2>2 DEF Moved
<1>3. CASE db.row[j].state # "processing"
  BY <1>3 DEF NackedRow, Moved
<1> QED BY <1>2, <1>3

LEMMA DropKeeps ==
  ASSUME Inv, NEW t \in Tasks, Drop(t)
  PROVE  Inv'
<1> DEFINE j == claim[t].job
           d == Dropped(db, j)
<1>1. /\ backend = "sqlite" /\ call[t].step = "drop" /\ Write(t, d, NoClaim)
      /\ UNCHANGED <<backend, disk, lock, life, running, acked, removed, faults>>
  BY DEF Drop, At
<1>2. claim[t].n > 0 /\ j \in db.dead
  BY <1>1 DEF Inv, Shapes
<1>3. j \in Jobs /\ db \in Tables
  BY <1>2, Holding, Parts
<1>4. /\ d \in Tables /\ d.dead = db.dead /\ d.row[j] = NoRow
      /\ \A k \in Jobs \ {j} : d.row[k] = db.row[k]
  BY <1>3, DroppedTables
<1> HIDE DEF d
<1>5. db' = d
  BY <1>1 DEF Write
<1>6. \A k \in Jobs : /\ Moved(t, k)
                      /\ db.row[k] = NoRow /\ k \notin db.dead \cup removed =>
                           k \notin db'.dead \cup removed'
  BY <1>1, <1>2, <1>4, <1>5 DEF Moved
<1> QED BY <1>1, <1>4, <1>6, Parts, WriteStep

LEMMA NackKeeps ==
  ASSUME Inv, NEW t \in Tasks, Nack(t)
  PROVE  Inv'
<1> DEFINE j == claim[t].job
           d == Nacked(db, j)
<1>1. /\ Idle(t) /\ claim[t] # NoClaim /\ Write(t, d, NoClaim)
      /\ UNCHANGED <<backend, disk, lock, life, running, acked, removed, faults>>
  BY DEF Nack
<1>2. j \in Jobs /\ db \in Tables
  <2>1. claim[t] \in GoodClaims
    BY Parts
  <2>2. j # NoJob
    BY <1>1, <2>1 DEF GoodClaims, Claims, NoClaim
  <2> QED BY <2>1, <2>2, Parts DEF GoodClaims, Claims
<1>3. /\ d \in Tables /\ d.dead = db.dead /\ d.row[j] = NackedRow(db.row[j])
      /\ \A k \in Jobs \ {j} : d.row[k] = db.row[k]
  BY <1>2, NackedTables
<1> HIDE DEF d
<1>4. db' = d
  BY <1>1 DEF Write
<1>5. Moved(t, j)
  BY <1>2, <1>3, <1>4, NackedMoves
<1>6. \A k \in Jobs : /\ Moved(t, k)
                      /\ db.row[k] = NoRow /\ k \notin db.dead \cup removed =>
                           k \notin db'.dead \cup removed'
  BY <1>1, <1>3, <1>4, <1>5, NoRowMoves
<1> QED BY <1>1, <1>3, <1>6, Parts, WriteStep

LEMMA OperatorKeeps ==
  ASSUME Inv, NEW t \in Tasks, NEW j \in Jobs, Cancel(t, j) \/ Delete(t, j)
  PROVE  Inv'
<1>1. Idle(t) /\ db \in Tables /\ claim[t] \in Own(t)
  BY Parts DEF Cancel, Delete
<1>2. CASE Cancel(t, j)
  <2> DEFINE d == Cancelled(db, j)
  <2>1. /\ Write(t, d, claim[t])
        /\ UNCHANGED <<backend, disk, lock, life, running, acked, removed, faults>>
    BY <1>2 DEF Cancel
  <2>2. /\ d \in Tables /\ d.dead = db.dead
        /\ \/ d.row[j] = db.row[j]
           \/ /\ db.row[j].state = "queued"
              /\ d.row[j].state = "cancelled"
              /\ d.row[j].attempts = db.row[j].attempts
        /\ \A k \in Jobs \ {j} : d.row[k] = db.row[k]
    BY <1>1, CancelledTables
  <2> HIDE DEF d
  <2>3. db' = d
    BY <2>1 DEF Write
  <2>4. \A k \in Jobs : /\ Moved(t, k)
                        /\ db.row[k] = NoRow /\ k \notin db.dead \cup removed =>
                             k \notin db'.dead \cup removed'
    BY <2>1, <2>2, <2>3 DEF Moved
  <2> QED BY <1>1, <2>1, <2>2, <2>4, Parts, WriteStep
<1>3. CASE Delete(t, j)
  <2> DEFINE d == Dropped(db, j)
  <2>1. /\ db.row[j] # NoRow /\ Write(t, d, claim[t]) /\ removed' = removed \cup {j}
        /\ UNCHANGED <<backend, disk, lock, life, running, acked, faults>>
    BY <1>3 DEF Delete
  <2>2. /\ d \in Tables /\ d.dead = db.dead /\ d.row[j] = NoRow
        /\ \A k \in Jobs \ {j} : d.row[k] = db.row[k]
    BY <1>1, DroppedTables
  <2> HIDE DEF d
  <2>3. db' = d
    BY <2>1 DEF Write
  <2>4. \A k \in Jobs : /\ Moved(t, k)
                        /\ db.row[k] = NoRow /\ k \notin db.dead \cup removed =>
                             k \notin db'.dead \cup removed'
    BY <2>1, <2>2, <2>3 DEF Moved
  <2>5. removed' \subseteq Jobs
    BY <2>1, Parts
  <2> QED BY <1>1, <2>1, <2>2, <2>4, <2>5, Parts, WriteStep
<1> QED BY <1>2, <1>3

LEMMA ExpireKeeps ==
  ASSUME Inv, NEW t \in Tasks, NEW S \in SUBSET Jobs, Expire(t, S)
  PROVE  Inv'
<1> DEFINE f == [j \in Jobs |-> IF j \in S THEN NoRow ELSE db.row[j]]
           d == [db EXCEPT !.row = f]
<1>1. /\ Idle(t) /\ \A j \in S : db.row[j].state = "done"
      /\ Write(t, d, claim[t]) /\ removed' = removed \cup S
      /\ UNCHANGED <<backend, disk, lock, life, running, acked, faults>>
  BY DEF Expire
<1>2. f \in [Jobs -> RowTypes]
  BY Parts, TableFields, Constants
<1>3. \A j \in Jobs : f[j] = db.row[j] \/ (f[j] = NoRow /\ j \in S)
  OBVIOUS
<1> HIDE DEF f
<1>4. d \in Tables /\ d.dead = db.dead /\ d.row = f
  BY <1>2, Parts DEF Tables
<1> HIDE DEF d
<1>5. db' = d
  BY <1>1 DEF Write
<1>6. ASSUME NEW k \in Jobs
      PROVE  /\ Moved(t, k)
             /\ db.row[k] = NoRow /\ k \notin db.dead \cup removed =>
                  k \notin db'.dead \cup removed'
  <2>1. k \in S => db.row[k] # NoRow
    BY <1>1, Constants
  <2> QED BY <1>1, <1>3, <1>4, <1>5, <2>1 DEF Moved
<1>7. removed' \subseteq Jobs
  BY <1>1, Parts
<1> QED BY <1>1, <1>4, <1>6, <1>7, Parts, WriteStep

LEMMA SweepKeeps ==
  ASSUME Inv, NEW t \in Tasks, Sweep(t)
  PROVE  Inv'
<1>1. /\ Idle(t) /\ claim[t] \in Own(t) /\ claim[t] \in GoodClaims /\ Shapes
      /\ UNCHANGED <<backend, disk, lock, life, running, acked, removed>>
  BY Parts DEF Sweep
<1>2. PICK S \in SUBSET Lives :
        /\ (faults < MaxFaults /\ faults' = faults + 1) \/ UNCHANGED faults
        /\ \/ /\ backend = "sqlite"
              /\ GoTo(t, [NoCall EXCEPT !.step = "stop", !.then = claim[t], !.stale = S])
           \/ /\ backend = "memory"
              /\ Write(t, Requeued(Stopped(db, S), S), claim[t])
  BY DEF Sweep
<1>3. faults' \in 0 .. MaxFaults
  BY <1>2, Constants, Parts
<1>4. CASE GoTo(t, [NoCall EXCEPT !.step = "stop", !.then = claim[t], !.stale = S])
  <2> DEFINE c == [NoCall EXCEPT !.step = "stop", !.then = claim[t], !.stale = S]
  <2>1. c \in Calls /\ c.step = "stop" /\ c.then = claim[t]
    BY <1>1, Constants DEF NoCall, Calls, Steps
  <2> HIDE DEF c
  <2>2. Turn(t) /\ call'[t] = c /\ claim'[t] = claim[t] /\ db' = db
    BY <1>1, <1>4, <2>1, TurnGoTo DEF c
  <2>3. Ready(t) /\ \A e \in Own(t)' : e \in Own(t)
    BY <1>1, <2>1, <2>2 DEF Ready, Own
  <2> QED BY <1>1, <1>3, <2>1, <2>2, <2>3, Parts, StatementStep
<1>5. CASE backend = "memory" /\ Write(t, Requeued(Stopped(db, S), S), claim[t])
  <2> DEFINE e == Stopped(db, S)
             d == Requeued(e, S)
  <2>1. e \in Tables /\ e.dead = db.dead /\ e.row = db.row
    BY Parts, StoppedTables
  <2> HIDE DEF e
  <2>2. /\ d \in Tables /\ d.dead = e.dead
        /\ \A j \in Jobs : d.row[j] = e.row[j] \/ d.row[j] = NackedRow(e.row[j])
    BY <2>1, RequeuedTables
  <2> HIDE DEF d
  <2>3. Write(t, d, claim[t]) /\ db' = d
    BY <1>5 DEF Write, d, e
  <2>4. \A k \in Jobs : Moved(t, k)
    BY <2>1, <2>2, <2>3, NackedMoves, NoRowMoves
  <2> QED BY <1>1, <1>3, <2>1, <2>2, <2>3, <2>4, Parts, WriteStep
<1> QED BY <1>2, <1>4, <1>5

LEMMA StopStaleKeeps ==
  ASSUME Inv, NEW t \in Tasks, StopStale(t)
  PROVE  Inv'
<1>1. /\ call[t].step = "stop" /\ db' = Stopped(db, call[t].stale)
      /\ call' = [call EXCEPT ![t].step = "requeue"]
      /\ UNCHANGED <<backend, disk, lock, claim, life, running, acked, removed, faults>>
  BY DEF StopStale, At
<1>2. db' \in Tables /\ db'.dead = db.dead /\ db'.row = db.row
  BY <1>1, Parts, StoppedTables
<1>3. /\ call' \in [Tasks -> Calls] /\ call'[t].step = "requeue"
      /\ call'[t].then = call[t].then /\ \A u \in Tasks \ {t} : call'[u] = call[u]
  BY <1>1, Parts DEF Calls, Steps
<1>4. Turn(t) /\ Ready(t)
  BY <1>1, <1>3, Parts DEF Turn, Ready
<1>5. \A e \in Own(t)' : e \in Own(t)
  BY <1>1, <1>3 DEF Own
<1> QED BY <1>1, <1>2, <1>3, <1>4, <1>5, Parts, StatementStep

LEMMA RequeueStaleKeeps ==
  ASSUME Inv, NEW t \in Tasks, RequeueStale(t)
  PROVE  Inv'
<1> DEFINE d == Requeued(db, call[t].stale)
<1>1. /\ backend = "sqlite" /\ call[t].step = "requeue" /\ Write(t, d, call[t].then)
      /\ UNCHANGED <<backend, disk, lock, life, running, acked, removed, faults>>
  BY DEF RequeueStale, At
<1>2. call[t].then \in Own(t)
  BY <1>1 DEF Own
<1>3. /\ d \in Tables /\ d.dead = db.dead
      /\ \A j \in Jobs : d.row[j] = db.row[j] \/ d.row[j] = NackedRow(db.row[j])
  BY Parts, RequeuedTables
<1> HIDE DEF d
<1>4. db' = d
  BY <1>1 DEF Write
<1>5. \A k \in Jobs : Moved(t, k)
  BY <1>3, <1>4, NackedMoves, NoRowMoves
<1> QED BY <1>1, <1>2, <1>3, <1>4, <1>5, Parts, WriteStep

LEMMA LifeKeeps ==
  ASSUME Inv, NEW t \in Tasks, Start(t) \/ Stop(t)
  PROVE  Inv'
<1>1. /\ Idle(t) /\ UNCHANGED <<backend, disk, lock, acked, removed, faults>>
      /\ running' \in BOOLEAN
  BY DEF Start, Stop
<1>2. CASE Start(t)
  <2> DEFINE f == [db.worker EXCEPT ![life + 1] = "active"]
             d == [db EXCEPT !.worker = f]
  <2>1. life' = life + 1 /\ life < MaxLives /\ Write(t, d, claim[t])
    BY <1>2 DEF Start
  <2>2. life' \in Lives
    BY <2>1, Parts, Constants DEF Lives
  <2>3. f \in [Lives -> {"absent", "active", "stopped"}]
    BY Parts, TableFields
  <2> HIDE DEF f
  <2>4. d \in Tables /\ d.row = db.row /\ d.dead = db.dead
    BY <2>3, Parts DEF Tables
  <2> HIDE DEF d
  <2>5. db' = d
    BY <2>1 DEF Write
  <2> QED BY <1>1, <2>1, <2>2, <2>4, <2>5, Parts, NoRowMoves, WriteStep
<1>3. CASE Stop(t)
  <2> DEFINE d == Stopped(db, {life})
  <2>1. Write(t, d, NoClaim) /\ life' = life
    BY <1>3 DEF Stop
  <2>2. d \in Tables /\ d.row = db.row /\ d.dead = db.dead
    BY Parts, StoppedTables
  <2> HIDE DEF d
  <2>3. db' = d
    BY <2>1 DEF Write
  <2> QED BY <1>1, <2>1, <2>2, <2>3, Parts, NoRowMoves, WriteStep
<1> QED BY <1>2, <1>3

\* A commit makes durable what every coroutine has written so far.
LEMMA CommitKeeps ==
  ASSUME Inv, NEW t \in Tasks, Commit(t)
  PROVE  Inv'
<1>0. PICK j : j = call[t].job
  OBVIOUS
<1>1. /\ call[t].step = "commit" /\ disk' = db /\ db' = db
      /\ call' = [call EXCEPT ![t] = NoCall]
      /\ claim' = [claim EXCEPT ![t] = call[t].then]
      /\ acked' = acked \cup ({j} \ {NoJob}) /\ Unlock(t)
      /\ UNCHANGED <<backend, life, running, removed, faults>>
  BY <1>0 DEF Commit, At
<1>2. call'[t] = NoCall /\ claim'[t] = call[t].then /\ j \in Jobs \cup {NoJob}
  BY <1>0, <1>1, Parts DEF Calls
<1>3. Turn(t) /\ Ready(t)
  BY <1>1, <1>2, Parts, Constants DEF Turn, Ready
<1>4. \A e \in Own(t)' : e.n = 0 \/ e \in Own(t)
  BY <1>1, <1>2, Constants DEF Own
<1>5. Forward(t)
  BY <1>1, <1>3, <1>4 DEF Forward, Turn, Moved
<1>6. Shapes'
  <2>1. Typed
    BY <1>1, <1>2, Parts DEF Typed, Unlock, Inv, Shapes, TypeOK
  <2> QED BY <1>1, <1>3, <2>1, Parts, TurnShapes
<1>7. Locks'
  <2>1. OthersKeepLock(t)
    BY <1>1 DEF OthersKeepLock, Unlock
  <2> QED BY <1>2, <1>3, <2>1, Constants, OthersLocked DEF Inv, Turn
<1>8. Numbers'
  BY <1>5, ForwardNumbers DEF Inv
<1>9. Locked' /\ Sound(db)'
  BY <1>2, <1>5, Constants, ForwardLocked DEF Inv, Locked
<1>10. Sound(disk)'
  BY <1>1, <1>9 DEF Sound, Fresh
<1>11. Durable'
  <2>1. \A k \in acked \ removed : Kept(db, k)
    BY DEF Inv, Durable
  <2>2. j # NoJob => j \in removed \/ Kept(db, j)
    BY <1>0, <1>1 DEF Inv, Durable
  <2>3. \A k \in acked' \ removed' : Kept(db, k)
    BY <1>1, <2>1, <2>2
  <2>4. \A u \in Tasks : call'[u].step = "commit" => u # t /\ call'[u] = call[u]
    BY <1>2, <1>3, Constants DEF Turn
  <2>5. \A u \in Tasks : call[u].step = "commit" /\ call[u].job # NoJob =>
                           call[u].job \in removed \/ Kept(db, call[u].job)
    BY DEF Inv, Durable
  <2> QED BY <1>1, <2>3, <2>4, <2>5 DEF Durable, Kept
<1> QED BY <1>6, <1>7, <1>8, <1>9, <1>10, <1>11 DEF Inv

\* A call that ends half way leaves what it has written to the next commit.
LEMMA AbortKeeps ==
  ASSUME Inv, NEW t \in Tasks, Abort(t)
  PROVE  Inv'
<1>1. /\ backend = "sqlite" /\ faults < MaxFaults /\ faults' = faults + 1
      /\ call' = [call EXCEPT ![t] = NoCall]
      /\ disk' = disk \/ disk' = db
      /\ Unlock(t) /\ UNCHANGED <<backend, db, life, running, acked, removed>>
  BY DEF Abort
<1>2. PICK c \in {[claim[t] EXCEPT !.n = 0], NoClaim} : claim' = [claim EXCEPT ![t] = c]
  BY DEF Abort
<1>3. c \in GoodClaims /\ c.n = 0
  BY <1>2, Parts, Constants DEF GoodClaims, Claims
<1>4. call'[t] = NoCall /\ claim'[t] = c
  BY <1>1, <1>2, Parts
<1>5. Turn(t) /\ Ready(t)
  BY <1>1, <1>2, <1>3, <1>4, Parts, Constants DEF Turn, Ready
<1>6. \A e \in Own(t)' : e.n = 0
  BY <1>3, <1>4, Constants DEF Own
<1>7. Forward(t)
  BY <1>1, <1>5, <1>6 DEF Forward, Turn, Moved
<1>8. Shapes'
  <2>1. Typed
    BY <1>1, Parts, Constants DEF Typed, Unlock, Inv, Shapes, TypeOK
  <2> QED BY <1>1, <1>5, <2>1, Parts, TurnShapes
<1>9. Locks'
  <2>1. OthersKeepLock(t)
    BY <1>1 DEF OthersKeepLock, Unlock
  <2> QED BY <1>4, <1>5, <2>1, Constants, OthersLocked DEF Inv, Turn
<1>10. Numbers'
  BY <1>7, ForwardNumbers DEF Inv
<1>11. Locked' /\ Sound(db)'
  BY <1>4, <1>7, Constants, ForwardLocked DEF Inv, Locked
<1>12. Sound(disk)'
  BY <1>1, <1>11 DEF Inv, Sound, Fresh
<1>13. Durable'
  <2>1. \A k \in acked \ removed : Kept(db, k) /\ Kept(disk, k)
    BY <1>1 DEF Inv, Durable
  <2>2. \A u \in Tasks : call'[u].step = "commit" => u # t /\ call'[u] = call[u]
    BY <1>4, <1>5, Constants DEF Turn
  <2>3. \A u \in Tasks : call[u].step = "commit" /\ call[u].job # NoJob =>
                           call[u].job \in removed \/ Kept(db, call[u].job)
    BY DEF Inv, Durable
  <2> QED BY <1>1, <2>1, <2>2, <2>3 DEF Durable, Kept
<1> QED BY <1>8, <1>9, <1>10, <1>11, <1>12, <1>13 DEF Inv

-----------------------------------------------------------------------------
(* Steps that insert a row or claim one.                                   *)

\* A new row has no claims, and is the only unclaimed one of its key.
LEMMA InsertedRow ==
  ASSUME Shapes, Numbers, Sound(db), NEW t \in Tasks, NEW j \in Jobs,
         db' = Inserted(db, j), removed' = removed,
         db.row[j] = NoRow, j \notin db.dead \cup removed,
         \A k \in Jobs : KeyOf[k] = KeyOf[j] => ~Fresh(db, k),
         \A u \in Tasks \ {t} : Own(u)' = Own(u),
         \A e \in Own(t)' : e.n = 0 \/ e \in Own(t)
  PROVE  /\ Numbers' /\ Sound(db)' /\ Kept(db, j)'
         /\ \A k \in Jobs : Kept(db, k) => Kept(db, k)'
<1>1. /\ db'.dead = db.dead /\ db'.row[j] = FreshRow
      /\ \A k \in Jobs \ {j} : db'.row[k] = db.row[k]
  BY InsertedTables DEF Shapes, TypeOK
<1>2. ASSUME NEW u \in Tasks, NEW c \in Own(u), c.n > 0 PROVE c.job \in Jobs \ {j} /\ Fits(c)'
  <2>1. Fits(c) /\ c.job \in Jobs
    BY <1>2, OwnClaims DEF Numbers
  <2>2. c.job # j
    BY <1>2, <2>1, Constants DEF Fits
  <2> QED BY <1>1, <2>1, <2>2 DEF Fits
<1>3. \A u \in Tasks : \A c \in Own(u)' : c.n = 0 \/ c \in Own(u)
  <2>1. ASSUME NEW u \in Tasks PROVE \A c \in Own(u)' : c.n = 0 \/ c \in Own(u)
    <3>1. CASE u = t
      BY <3>1
    <3>2. CASE u # t
      BY <3>2
    <3> QED BY <3>1, <3>2
  <2> QED BY <2>1
<1>4. Numbers'
  <2>1. ASSUME NEW u \in Tasks, NEW c \in Own(u)' PROVE Fits(c)'
    <3>1. CASE c.n > 0
      BY <1>2, <1>3, <2>1, <3>1
    <3>2. CASE ~(c.n > 0)
      BY <3>2 DEF Fits
    <3> QED BY <3>1, <3>2
  <2>2. ASSUME NEW u \in Tasks, NEW v \in Tasks, u # v,
               NEW c \in Own(u)', NEW e \in Own(v)', c.n > 0, c.job = e.job
        PROVE  c.n # e.n
    <3>1. c \in Own(u)
      BY <1>3, <2>2
    <3>2. CASE e \in Own(v)
      BY <2>2, <3>1, <3>2 DEF Numbers
    <3>3. CASE e.n = 0
      BY <2>2, <3>3
    <3> QED BY <1>3, <3>2, <3>3
  <2> QED BY <2>1, <2>2 DEF Numbers
<1>5. Sound(db)'
  <2>1. \A k \in Jobs \ {j} : Fresh(db, k)' <=> Fresh(db, k)
    BY <1>1 DEF Fresh
  <2>2. \A i, k \in Jobs : i # k /\ KeyOf[i] = KeyOf[k] => ~(Fresh(db, i)' /\ Fresh(db, k)')
    <3> SUFFICES ASSUME NEW i \in Jobs, NEW k \in Jobs, i # k, KeyOf[i] = KeyOf[k]
                 PROVE  ~(Fresh(db, i)' /\ Fresh(db, k)')
      OBVIOUS
    <3>1. CASE i = j
      BY <2>1, <3>1
    <3>2. CASE k = j
      BY <2>1, <3>2
    <3>3. CASE i # j /\ k # j
      BY <2>1, <3>3 DEF Sound
    <3> QED BY <3>1, <3>2, <3>3
  <2>3. \A k \in Jobs : db'.row[k].state = "processing" => db'.row[k] = db.row[k]
    BY <1>1, Constants
  <2> QED BY <2>2, <2>3 DEF Sound, Fresh
<1>6. Kept(db, j)' /\ \A k \in Jobs : Kept(db, k) => Kept(db, k)'
  BY <1>1, Constants DEF Kept
<1> QED BY <1>4, <1>5, <1>6

\* A claim gets the next number of its job's row, unless the row is gone.
LEMMA TakenRow ==
  ASSUME Shapes, Numbers, Sound(db), NEW t \in Tasks, NEW c \in GoodClaims, c.n > 0,
         life \in Lives, SelectedBy(t, c), db' = Taken(db, c.job), removed' = removed,
         \A u \in Tasks \ {t} : Own(u)' = Own(u),
         \A e \in Own(t)' : e.n = 0 \/ e = c
  PROVE  /\ Numbers' /\ Sound(db)'
         /\ \A k \in Jobs : Kept(db, k) => Kept(db, k)'
<1>1. c.job \in Jobs /\ c.n \in Nat
  BY DEF GoodClaims, Claims
<1>2. /\ db'.dead = db.dead
      /\ db.row[c.job].state = "none" => db'.row[c.job] = db.row[c.job]
      /\ db.row[c.job].state # "none" =>
           /\ db'.row[c.job].state = "processing"
           /\ db'.row[c.job].attempts = db.row[c.job].attempts + 1
           /\ db'.row[c.job].worker > 0
      /\ \A k \in Jobs \ {c.job} : db'.row[k] = db.row[k]
  BY <1>1, TakenTables DEF Shapes, TypeOK
<1>3. db.row[c.job].attempts \in Nat
  BY <1>1, Rows
<1>4. Fits(c)'
  BY <1>1, <1>2, <1>3 DEF SelectedBy, Fits
<1>5. ASSUME NEW u \in Tasks, NEW e \in Own(u) PROVE Fits(e)'
  <2>1. Fits(e) /\ e.n \in Nat /\ (e.n > 0 => e.job \in Jobs)
    BY <1>5, OwnClaims DEF Numbers
  <2>2. CASE e.n > 0 /\ e.job = c.job
    BY <1>2, <1>3, <2>1, <2>2 DEF Fits
  <2>3. CASE e.n > 0 /\ e.job # c.job
    BY <1>2, <2>1, <2>3 DEF Fits
  <2>4. CASE ~(e.n > 0)
    BY <2>4 DEF Fits
  <2> QED BY <2>2, <2>3, <2>4
<1>6. Numbers'
  <2>1. ASSUME NEW u \in Tasks, NEW e \in Own(u)' PROVE Fits(e)'
    <3>1. CASE u = t /\ e = c
      BY <1>4, <3>1
    <3>2. CASE u = t /\ e.n = 0
      BY <3>2 DEF Fits
    <3>3. CASE u # t
      BY <1>5, <2>1, <3>3
    <3> QED BY <2>1, <3>1, <3>2, <3>3
  <2>2. ASSUME NEW u \in Tasks, NEW v \in Tasks, u # v,
               NEW e \in Own(u)', NEW f \in Own(v)', e.n > 0, e.job = f.job
        PROVE  e.n # f.n
    <3>1. CASE u = t
      <4>1. e = c /\ f \in Own(v)
        BY <2>2, <3>1
      <4>2. f.n < c.n
        BY <2>2, <3>1, <4>1 DEF SelectedBy
      <4>3. f.n \in Nat
        BY <4>1, OwnClaims
      <4> QED BY <1>1, <4>1, <4>2, <4>3
    <3>2. CASE v = t
      <4>1. e \in Own(u) /\ (f.n = 0 \/ f = c)
        BY <2>2, <3>2
      <4>2. f = c => e.n < f.n
        BY <2>2, <3>2, <4>1 DEF SelectedBy
      <4>3. e.n \in Nat
        BY <4>1, OwnClaims
      <4> QED BY <1>1, <2>2, <4>1, <4>2, <4>3
    <3>3. CASE u # t /\ v # t
      BY <2>2, <3>3 DEF Numbers
    <3> QED BY <3>1, <3>2, <3>3
  <2> QED BY <2>1, <2>2 DEF Numbers
<1>7. Sound(db)'
  <2>1. ASSUME NEW k \in Jobs, db'.row[k].state = "processing"
        PROVE  db'.row[k].attempts > 0 /\ db'.row[k].worker > 0
    <3>1. CASE db'.row[k] = db.row[k]
      BY <2>1, <3>1 DEF Sound
    <3>2. CASE k = c.job /\ db.row[k].state # "none"
      BY <1>2, <1>3, <3>2
    <3> QED BY <1>2, <3>1, <3>2
  <2>2. \A k \in Jobs : Fresh(db, k)' => Fresh(db, k)
    BY <1>1, <1>2, Constants DEF Fresh
  <2> QED BY <2>1, <2>2 DEF Sound, Fresh
<1>8. \A k \in Jobs : Kept(db, k) => Kept(db, k)'
  BY <1>1, <1>2 DEF Kept
<1> QED BY <1>6, <1>7, <1>8

\* A step of the only coroutine under the lock.
LEMMA AloneStep ==
  ASSUME Inv, NEW t \in Tasks, Turn(t), Shapes', Numbers', Sound(db)',
         \A u \in Tasks \ {t} : call[u].step \notin {"insert", "update"},
         call'[t].step \notin {"insert", "update"},
         disk' = disk, backend' = backend, removed' = removed,
         \A k \in Jobs : Kept(db, k) => Kept(db, k)',
         acked' \subseteq Jobs,
         \A k \in acked' \ acked : Kept(db, k)' /\ backend = "memory",
         call'[t].step = "commit" /\ call'[t].job # NoJob => Kept(db', call'[t].job)
  PROVE  Inv'
<1>1. \A u \in Tasks : call'[u].step \notin {"insert", "update"}
  BY DEF Turn
<1>2. Locks' /\ Locked'
  BY <1>1 DEF Locks, Locked
<1>3. Sound(disk)'
  BY DEF Inv, Sound, Fresh
<1>4. ASSUME NEW k \in acked' \ removed'
      PROVE  Kept(db, k)' /\ (backend' = "sqlite" => Kept(disk, k)')
  <2>1. CASE k \in acked
    <3>1. Kept(db, k) /\ (backend = "sqlite" => Kept(disk, k))
      BY <1>4, <2>1 DEF Inv, Durable
    <3> QED BY <1>4, <3>1 DEF Kept
  <2>2. CASE k \notin acked
    BY <1>4, <2>2
  <2> QED BY <2>1, <2>2
<1>5. ASSUME NEW u \in Tasks, call'[u].step = "commit", call'[u].job # NoJob
      PROVE  call'[u].job \in removed' \/ Kept(db', call'[u].job)
  <2>1. CASE u = t
    BY <1>5, <2>1
  <2>2. CASE u # t
    <3>0. PICK j : j = call[u].job
      OBVIOUS
    <3>1. call'[u] = call[u] /\ j \in Jobs
      BY <1>5, <2>2, <3>0, Parts DEF Turn, Calls
    <3>2. j \in removed \/ Kept(db, j)
      BY <1>5, <3>0, <3>1 DEF Inv, Durable
    <3>3. j \in removed \/ Kept(db, j)'
      BY <3>1, <3>2
    <3> QED BY <3>0, <3>1, <3>3 DEF Kept
  <2> QED BY <2>1, <2>2
<1>6. Durable'
  BY <1>4, <1>5 DEF Durable, Kept
<1> QED BY <1>2, <1>3, <1>6 DEF Inv

\* While the lock is free, or t has it, no other coroutine is between its two statements.
LEMMA NobodyElse ==
  ASSUME Inv, NEW t \in Tasks, lock \in {t, NoTask}
  PROVE  \A u \in Tasks \ {t} : call[u].step \notin {"insert", "update"}
BY Constants DEF Inv, Locks

LEMMA CreateKeeps ==
  ASSUME Inv, NEW t \in Tasks, NEW j \in Jobs, Create(t, j)
  PROVE  Inv'
<1>1. /\ Idle(t) /\ lock = NoTask /\ db.row[j] = NoRow
      /\ j \notin db.dead \cup removed /\ Duplicates(j) = {}
      /\ UNCHANGED <<backend, disk, life, running, removed, faults>>
  BY DEF Create
<1>2. \A k \in Jobs : KeyOf[k] = KeyOf[j] => ~Fresh(db, k)
  BY <1>1, Constants DEF Duplicates, Fresh
<1>3. \A u \in Tasks \ {t} : call[u].step \notin {"insert", "update"}
  BY <1>1, NobodyElse
<1>4. claim[t] \in GoodClaims /\ Own(t) = {claim[t], NoClaim}
  BY <1>1, Parts, IdleOwn
<1>5. CASE /\ GoTo(t, [NoCall EXCEPT !.step = "insert", !.job = j, !.then = claim[t]])
           /\ lock' = t /\ UNCHANGED acked
  <2> DEFINE c == [NoCall EXCEPT !.step = "insert", !.job = j, !.then = claim[t]]
  <2>1. c \in Calls /\ c.step = "insert" /\ c.job = j /\ c.then = claim[t]
    BY <1>4, Constants DEF NoCall, Calls, Steps
  <2> HIDE DEF c
  <2>2. Turn(t) /\ call'[t] = c /\ claim'[t] = claim[t] /\ db' = db
    BY <1>4, <1>5, <2>1, Parts, TurnGoTo DEF c
  <2>3. Own(t)' = {claim[t]}
    BY <2>1, <2>2 DEF Own
  <2>4. Forward(t)
    BY <1>1, <1>4, <2>2, <2>3 DEF Forward, Turn, Moved
  <2>5. Shapes'
    <3>1. Typed /\ Ready(t)
      BY <1>1, <1>5, <2>1, <2>2, Parts DEF Typed, Ready, Inv, Shapes, TypeOK
    <3> QED BY <2>2, <3>1, Parts, TurnShapes
  <2>6. Locks'
    BY <1>3, <1>5, <2>2 DEF Locks, Turn
  <2>7. Unclashing(t)'
    BY <1>1, <1>2, <2>1, <2>2 DEF Unclashing, Fresh
  <2> QED BY <1>1, <1>5, <2>1, <2>2, <2>4, <2>5, <2>6, <2>7, ForwardStep
<1>6. CASE /\ backend = "memory" /\ Write(t, Inserted(db, j), claim[t])
           /\ acked' = acked \cup {j} /\ UNCHANGED lock
  <2>1. /\ Turn(t) /\ db' = Inserted(db, j)
        /\ call'[t].step \in {"idle", "commit"} /\ call'[t].job = NoJob
        /\ \A e \in Own(t)' : e.n = 0 \/ e \in Own(t)
    BY <1>1, <1>4, <1>6, Parts, TurnWrite
  <2>2. \A u \in Tasks \ {t} : Own(u)' = Own(u)
    BY <2>1, OthersOwn DEF Turn
  <2>3. /\ Numbers' /\ Sound(db)' /\ Kept(db, j)'
        /\ \A k \in Jobs : Kept(db, k) => Kept(db, k)'
    BY <1>1, <1>2, <2>1, <2>2, InsertedRow DEF Inv
  <2>4. db' \in Tables /\ db'.dead = db.dead
    BY <2>1, Parts, InsertedTables
  <2>5. Shapes'
    <3>1. Typed /\ Ready(t)
      BY <1>1, <1>6, <2>1, <2>4, Parts DEF Typed, Ready, Inv, Shapes, TypeOK
    <3> QED BY <2>1, <2>4, <3>1, Parts, TurnShapes
  <2>6. acked' \subseteq Jobs
    BY <1>6, Parts
  <2> QED BY <1>1, <1>3, <1>6, <2>1, <2>3, <2>5, <2>6, AloneStep
<1> QED BY <1>5, <1>6 DEF Create

LEMMA InsertKeeps ==
  ASSUME Inv, NEW t \in Tasks, Insert(t)
  PROVE  Inv'
<1>0. PICK j : j = call[t].job
  OBVIOUS
<1>1. /\ call[t].step = "insert" /\ db' = Inserted(db, j)
      /\ call' = [call EXCEPT ![t].step = "commit"]
      /\ UNCHANGED <<backend, disk, lock, claim, life, running, acked, removed, faults>>
  BY <1>0 DEF Insert, At
<1>2. j \in Jobs /\ lock = t /\ Unclashing(t)
  BY <1>0, <1>1 DEF Inv, Shapes, Locks, Locked
<1>3. /\ call' \in [Tasks -> Calls] /\ call'[t].step = "commit" /\ call'[t].job = j
      /\ call'[t].then = call[t].then /\ \A u \in Tasks \ {t} : call'[u] = call[u]
  BY <1>0, <1>1, Parts DEF Calls, Steps
<1>4. Turn(t) /\ Ready(t)
  BY <1>1, <1>3, Parts DEF Turn, Ready
<1>5. \A e \in Own(t)' : e \in Own(t)
  BY <1>1, <1>3 DEF Own
<1>6. \A u \in Tasks \ {t} : Own(u)' = Own(u)
  BY <1>4, OthersOwn DEF Turn
<1>7. /\ Numbers' /\ Sound(db)' /\ Kept(db, j)'
      /\ \A k \in Jobs : Kept(db, k) => Kept(db, k)'
  <2>1. /\ db.row[j] = NoRow /\ j \notin db.dead \cup removed
        /\ \A k \in Jobs : KeyOf[k] = KeyOf[j] => ~Fresh(db, k)
    BY <1>0, <1>2 DEF Unclashing
  <2> QED BY <1>1, <1>2, <1>5, <1>6, <2>1, InsertedRow DEF Inv
<1>8. db' \in Tables /\ db'.dead = db.dead
  BY <1>1, <1>2, Parts, InsertedTables
<1>9. Shapes'
  <2>1. Typed
    BY <1>1, <1>8 DEF Typed, Inv, Shapes, TypeOK
  <2> QED BY <1>4, <1>8, <2>1, Parts, TurnShapes
<1>10. Kept(db', call'[t].job)
  BY <1>3, <1>7 DEF Kept
<1>11. \A u \in Tasks \ {t} : call[u].step \notin {"insert", "update"}
  BY <1>2, NobodyElse
<1> QED BY <1>1, <1>3, <1>4, <1>7, <1>9, <1>10, <1>11, Parts, AloneStep

\* What a fetch reads under the lock.
LEMMA Selects ==
  ASSUME Inv, NEW t \in Tasks, NEW j \in Jobs, db.row[j].state = "queued"
  PROVE  SelectedBy(t, [job |-> j, n |-> db.row[j].attempts + 1])
<1> DEFINE c == [job |-> j, n |-> db.row[j].attempts + 1]
<1>1. db.row[j].attempts \in Nat /\ c.job = j /\ c.n = db.row[j].attempts + 1
  BY Rows DEF Inv
<1> HIDE DEF c
<1>2. ASSUME NEW u \in Tasks \ {t}, NEW e \in Own(u), e.job = c.job PROVE e.n < c.n
  <2>1. Fits(e) /\ e.n \in Nat
    BY <1>2, OwnClaims DEF Inv, Numbers
  <2> QED BY <1>1, <1>2, <2>1 DEF Fits
<1>3. SelectedBy(t, c)
  BY <1>1, <1>2 DEF SelectedBy
<1> QED BY <1>3 DEF c

LEMMA FetchKeeps ==
  ASSUME Inv, NEW t \in Tasks, NEW j \in Jobs, Fetch(t, j)
  PROVE  Inv'
<1>0. PICK c : c = [job |-> j, n |-> db.row[j].attempts + 1]
  OBVIOUS
<1>1. /\ Idle(t) /\ claim[t] = NoClaim /\ lock = NoTask /\ db.row[j].state = "queued"
      /\ UNCHANGED <<backend, disk, life, running, acked, removed, faults>>
      /\ \/ /\ GoTo(t, [NoCall EXCEPT !.step = "update", !.then = c])
            /\ lock' = t
         \/ /\ backend = "memory" /\ Write(t, Taken(db, j), c)
            /\ UNCHANGED lock
  BY <1>0 DEF Fetch
<1>2. SelectedBy(t, c)
  BY <1>0, <1>1, Selects
<1>3. c \in GoodClaims /\ c.n > 0 /\ c.job = j
  <2>1. db.row[j].attempts \in Nat
    BY Rows DEF Inv
  <2> QED BY <1>0, <2>1, Constants DEF GoodClaims, Claims
<1>4. \A u \in Tasks \ {t} : call[u].step \notin {"insert", "update"}
  BY <1>1, NobodyElse
<1>5. CASE GoTo(t, [NoCall EXCEPT !.step = "update", !.then = c]) /\ lock' = t
  <2> DEFINE b == [NoCall EXCEPT !.step = "update", !.then = c]
  <2>1. b \in Calls /\ b.step = "update" /\ b.then = c
    BY <1>3, Constants DEF NoCall, Calls, Steps
  <2> HIDE DEF b
  <2>2. Turn(t) /\ call'[t] = b /\ claim'[t] = claim[t] /\ db' = db
    BY <1>3, <1>5, <2>1, Parts, TurnGoTo DEF b
  <2>3. \A e \in Own(t)' : e \in Own(t)
    BY <2>1, <2>2 DEF Own
  <2>4. Forward(t)
    BY <1>1, <2>2, <2>3 DEF Forward, Turn, Moved
  <2>5. Shapes'
    <3>1. Typed /\ Ready(t)
      BY <1>1, <1>3, <1>5, <2>1, <2>2, Parts DEF Typed, Ready, Inv, Shapes, TypeOK
    <3> QED BY <2>2, <3>1, Parts, TurnShapes
  <2>6. Locks'
    BY <1>4, <1>5, <2>2 DEF Locks, Turn
  <2>7. Selected(t)'
    <3>1. \A u \in Tasks \ {t} : Own(u)' = Own(u)
      BY <2>2, OthersOwn DEF Turn
    <3>2. SelectedBy(t, c)'
      BY <1>1, <1>2, <2>2, <3>1 DEF SelectedBy
    <3> QED BY <2>1, <2>2, <3>2 DEF Selected, SelectedBy
  <2> QED BY <1>1, <2>1, <2>2, <2>4, <2>5, <2>6, <2>7, ForwardStep
<1>6. CASE /\ backend = "memory" /\ Write(t, Taken(db, j), c) /\ UNCHANGED lock
  <2>1. claim[t].n = 0
    BY <1>1, Constants
  <2>2. /\ Turn(t) /\ db' = Taken(db, j)
        /\ call'[t].step \in {"idle", "commit"} /\ call'[t].job = NoJob
        /\ \A e \in Own(t)' : e.n = 0 \/ e = c
    BY <1>1, <1>3, <1>6, <2>1, Parts, TurnWrite
  <2>3. \A u \in Tasks \ {t} : Own(u)' = Own(u)
    BY <2>2, OthersOwn DEF Turn
  <2>4. /\ Numbers' /\ Sound(db)'
        /\ \A k \in Jobs : Kept(db, k) => Kept(db, k)'
    BY <1>1, <1>2, <1>3, <2>2, <2>3, Parts, TakenRow DEF Inv
  <2>5. db' \in Tables /\ db'.dead = db.dead
    BY <2>2, Parts, TakenTables
  <2>6. Shapes'
    <3>1. Typed /\ Ready(t)
      BY <1>1, <1>6, <2>2, <2>5, Parts DEF Typed, Ready, Inv, Shapes, TypeOK
    <3> QED BY <2>2, <2>5, <3>1, Parts, TurnShapes
  <2> QED BY <1>1, <1>4, <1>6, <2>2, <2>4, <2>6, Parts, AloneStep
<1> QED BY <1>1, <1>5, <1>6

LEMMA UpdateKeeps ==
  ASSUME Inv, NEW t \in Tasks, Update(t)
  PROVE  Inv'
<1>0. PICK c : c = call[t].then
  OBVIOUS
<1>1. /\ backend = "sqlite" /\ call[t].step = "update" /\ Write(t, Taken(db, c.job), c)
      /\ UNCHANGED <<backend, disk, lock, life, running, acked, removed, faults>>
  BY <1>0 DEF Update, At
<1>2. /\ lock = t /\ SelectedBy(t, c) /\ c \in GoodClaims /\ c.n > 0
      /\ claim[t] = NoClaim /\ claim[t].n = 0
  BY <1>0, <1>1, Constants DEF Inv, Shapes, Locks, Locked, Selected
<1>3. c.job \in Jobs
  BY <1>2 DEF GoodClaims, Claims
<1>4. /\ Turn(t) /\ db' = Taken(db, c.job)
      /\ call'[t].step \in {"idle", "commit"} /\ call'[t].job = NoJob
      /\ \A e \in Own(t)' : e.n = 0 \/ e = c
  BY <1>1, <1>2, Parts, TurnWrite
<1>5. \A u \in Tasks \ {t} : Own(u)' = Own(u)
  BY <1>4, OthersOwn DEF Turn
<1>6. /\ Numbers' /\ Sound(db)'
      /\ \A k \in Jobs : Kept(db, k) => Kept(db, k)'
  BY <1>1, <1>2, <1>4, <1>5, Parts, TakenRow DEF Inv
<1>7. db' \in Tables /\ db'.dead = db.dead
  BY <1>3, <1>4, Parts, TakenTables
<1>8. Shapes'
  <2>1. Typed /\ Ready(t)
    BY <1>1, <1>4, <1>7, Parts DEF Typed, Ready, Inv, Shapes, TypeOK
  <2> QED BY <1>4, <1>7, <2>1, Parts, TurnShapes
<1>9. \A u \in Tasks \ {t} : call[u].step \notin {"insert", "update"}
  BY <1>2, NobodyElse
<1> QED BY <1>1, <1>4, <1>6, <1>8, <1>9, Parts, AloneStep

\* The tables are what was committed, and nobody holds anything.
LEMMA CrashKeeps ==
  ASSUME Inv, Crash
  PROVE  Inv'
<1>1. /\ backend = "sqlite" /\ db' = disk /\ lock' = NoTask
      /\ call' = [t \in Tasks |-> NoCall] /\ claim' = [t \in Tasks |-> NoClaim]
      /\ running' = FALSE
      /\ UNCHANGED <<backend, disk, life, acked, removed, faults>>
  BY DEF Crash
<1>2. \A t \in Tasks : call'[t] = NoCall /\ claim'[t] = NoClaim
  BY <1>1
<1>3. Shapes'
  <2>1. call' \in [Tasks -> Calls] /\ claim' \in [Tasks -> Claims]
    BY <1>1, Constants
  <2>2. TypeOK'
    BY <1>1, <2>1 DEF Inv, Shapes, TypeOK
  <2> QED BY <1>2, <2>2, Constants DEF Shapes, GoodClaims
<1>4. \A t \in Tasks : \A e \in Own(t)' : e.n = 0
  BY <1>2, Constants DEF Own
<1>5. Numbers'
  BY <1>4 DEF Numbers, Fits
<1>6. Locks' /\ Locked'
  BY <1>2, Constants DEF Locks, Locked
<1>7. Sound(db)' /\ Sound(disk)'
  BY <1>1 DEF Inv, Sound, Fresh
<1>8. Durable'
  BY <1>1, <1>2, Constants DEF Inv, Durable, Kept
<1> QED BY <1>3, <1>5, <1>6, <1>7, <1>8 DEF Inv

LEMMA InitInv == Init => Inv
<1> SUFFICES ASSUME Init PROVE Inv
  OBVIOUS
<1>1. \A t \in Tasks : call[t] = NoCall /\ claim[t] = NoClaim
  BY DEF Init
<1>2. Empty \in Tables /\ \A j \in Jobs : Empty.row[j] = NoRow
  BY Constants DEF Empty, Tables
<1>3. Shapes
  <2>1. call \in [Tasks -> Calls] /\ claim \in [Tasks -> Claims] /\ 0 \in 0 .. MaxFaults
    BY Constants DEF Init
  <2>2. TypeOK
    BY <1>2, <2>1, Constants DEF Init, TypeOK
  <2> QED BY <1>1, <2>2, Constants DEF Shapes
<1>4. \A t \in Tasks : \A e \in Own(t) : e.n = 0
  BY <1>1, Constants DEF Own
<1>5. Numbers
  BY <1>4 DEF Numbers, Fits
<1>6. Locks /\ Locked /\ Durable
  BY <1>1, Constants DEF Init, Locks, Locked, Durable
<1>7. Sound(db) /\ Sound(disk)
  BY <1>2, Constants DEF Init, Sound, Fresh
<1> QED BY <1>3, <1>5, <1>6, <1>7 DEF Inv

LEMMA StutterKeeps ==
  ASSUME Inv, UNCHANGED vars
  PROVE  Inv'
<1>1. TypeOK' /\ Shapes'
  BY DEF vars, Inv, Shapes, TypeOK
<1>2. Locks'
  BY DEF vars, Inv, Locks
<1>3. Numbers'
  BY DEF vars, Inv, Numbers, Own, Fits
<1>4. Locked'
  BY DEF vars, Inv, Locked, Own, Selected, SelectedBy, Unclashing, Fresh
<1>5. Sound(db)' /\ Sound(disk)'
  BY DEF vars, Inv, Sound, Fresh
<1>6. Durable'
  BY DEF vars, Inv, Durable, Kept
<1> QED BY <1>1, <1>2, <1>3, <1>4, <1>5, <1>6 DEF Inv

LEMMA StepInv == Inv /\ [Next]_vars => Inv'
<1> SUFFICES ASSUME Inv, [Next]_vars PROVE Inv'
  OBVIOUS
<1>1. CASE UNCHANGED vars
  BY <1>1, StutterKeeps
<1>2. CASE Crash
  BY <1>2, CrashKeeps
<1>3. ASSUME NEW t \in Tasks, TaskStep(t) PROVE Inv'
  BY <1>3, CommitKeeps, InsertKeeps, UpdateKeeps, SettleKeeps, DeadLetterKeeps, CopyKeeps,
     DropKeeps, NackKeeps, SweepKeeps, StopStaleKeeps, RequeueStaleKeeps, LifeKeeps,
     AbortKeeps, ExpireKeeps, CreateKeeps, FetchKeeps, OperatorKeeps DEF TaskStep
<1> QED BY <1>1, <1>2, <1>3 DEF Next

THEOREM EmbeddedInvariant == Spec => []Inv
<1> QED BY InitInv, StepInv, PTL DEF Spec

-----------------------------------------------------------------------------
(* Theorems.                                                               *)

\* Both stores stay within their types: tables, calls and claims.
THEOREM EmbeddedTypes == Spec => []TypeOK
<1>1. Inv => TypeOK
  BY DEF Inv, Shapes
<1> QED BY <1>1, EmbeddedInvariant, PTL

\* A job that create_job has accepted is in one of the two tables until somebody removes
\* it, whatever the coroutines do between each other's statements, whichever call ends
\* half way and whenever the process dies (mark_job_dead_letter).
THEOREM EmbeddedLosesNothing == Spec => []NoJobLost
<1>1. Inv => NoJobLost
  BY Constants DEF Inv, Durable, Kept, NoJobLost
<1> QED BY <1>1, EmbeddedInvariant, PTL

\* At most one coroutine holds a claim that still matches its row (_CLAIM_GUARD).
THEOREM EmbeddedOneHolder == Spec => []OneHolder
<1>1. ASSUME Inv PROVE OneHolder
  <2> SUFFICES ASSUME NEW t \in Tasks, NEW u \in Tasks, t # u, claim[t] # NoClaim,
                      claim[t].job = claim[u].job,
                      StillClaimed(db, claim[t]), StillClaimed(db, claim[u])
               PROVE  FALSE
    BY DEF OneHolder
  <2>1. claim[t] \in Own(t) /\ claim[u] \in Own(u) /\ claim[t] \in GoodClaims
    BY <1>1, Parts
  <2>2. claim[t].n = claim[u].n
    BY DEF StillClaimed
  <2>3. claim[t].job \in Jobs
    BY <2>1 DEF GoodClaims, Claims, NoClaim
  <2>4. claim[t].n > 0
    BY <1>1, <2>3 DEF Inv, Sound, StillClaimed
  <2> QED BY <1>1, <2>1, <2>2, <2>4 DEF Inv, Numbers
<1> QED BY <1>1, EmbeddedInvariant, PTL

\* Two jobs with one key that nobody has claimed yet are never queued together
\* (create_job, whose check and insert are two statements under _write_lock).
THEOREM EmbeddedOnePerKey == Spec => []OneUntouchedPerKey
<1>1. Inv => OneUntouchedPerKey
  BY DEF Inv, Sound, Fresh, FreshRow, OneUntouchedPerKey, Untouched
<1> QED BY <1>1, EmbeddedInvariant, PTL

==============================================================================
