-------------------------- MODULE Webhooks_proofs ---------------------------
(***************************************************************************)
(* Theorems about Webhooks, for every set of processes, endpoints and      *)
(* deliveries, queue size and number of attempts.  What a record says is   *)
(* earned because what every copy under way says is: copies in queues and  *)
(* with delivery workers claim no attempt, acceptance or final refusal     *)
(* that has not happened, and the history they refer to only grows.        *)
(***************************************************************************)
EXTENDS Webhooks, SequenceTheorems, FiniteSetTheorems, TLAPS

\* Status s after n attempts is what has happened to delivery d.
Earned(s, n, d) ==
  /\ s = "delivered" => d \in acked
  /\ s = "failed" => refused[d] = MaxAttempts
  /\ s = "pending" => n \in 1 .. refused[d] /\ n < MaxAttempts

GoodCopies == {c \in Copies : c.attempts < MaxAttempts /\ c.attempts <= refused[c.id]}
GoodCalls ==
  {c \in Calls : /\ c.phase = "posting" => c.attempts <= refused[c.id] + 1
                 /\ c.phase = "saving" => Earned(c.status, c.attempts, c.id)}

Honest ==
  /\ \A p \in Procs : queue[p] \in Seq(GoodCopies)
  /\ \A p \in Procs, l \in Lanes : lane[p][l] \in GoodCalls
  /\ \A d \in Deliveries : Earned(row[d].status, row[d].attempts, d)

Inv == TypeOK /\ Honest

-----------------------------------------------------------------------------
(* Constants and sequences.                                                *)

LEMMA Constants ==
  /\ HookOf \in [Deliveries -> Hooks] /\ NoHook \notin Hooks
  /\ IsFiniteSet(Hooks) /\ IsFiniteSet(Deliveries) /\ Callers \subseteq Procs
  /\ QueueMax \in Nat \ {0} /\ MaxAttempts \in Nat \ {0} /\ MaxFaults \in Nat
  /\ NoRow \in Rows /\ NoRow.status = "none" /\ NoCall \in Calls /\ NoCall.phase = "idle"
<1>1. MaxAttempts \in Nat \ {0}
  BY WebhookAssumption DEF WebhookAssumption
<1>2. NoRow \in Rows /\ NoRow.status = "none" /\ NoCall \in Calls /\ NoCall.phase = "idle"
  BY <1>1 DEF NoRow, Rows, NoCall, Calls
<1> QED BY <1>2, WebhookAssumption DEF WebhookAssumption

\* Within(s, n) is a sequence of elements of s, no longer than n.
LEMMA WithinProperties ==
  ASSUME NEW S, NEW s \in Seq(S), NEW n \in Nat
  PROVE  Within(s, n) \in Seq(S) /\ Len(Within(s, n)) <= n /\ Len(Within(s, n)) <= Len(s)
<1> DEFINE m == IF Len(s) <= n THEN Len(s) ELSE n
<1>1. m \in Nat /\ m <= Len(s) /\ m <= n
  OBVIOUS
<1>2. \A i \in 1 .. m : s[i] \in S
  BY <1>1
<1>3. Within(s, n) = SubSeq(s, 1, m)
  BY DEF Within
<1> HIDE DEF m
<1>4. SubSeq(s, 1, m) \in Seq(S) /\ Len(SubSeq(s, 1, m)) = IF 1 <= m THEN m - 1 + 1 ELSE 0
  BY <1>1, <1>2, SubSeqProperties
<1> QED BY <1>1, <1>3, <1>4

\* The copies that a queue with room takes on.
LEMMA AppendedQueue ==
  ASSUME NEW S, NEW q \in Seq(S), NEW t \in Seq(S), NEW n \in Nat, Len(q) + Len(t) <= n
  PROVE  q \o t \in Seq(S) /\ Len(q \o t) <= n
BY ConcatProperties

\* A function on 1 .. n is a sequence of length n.
LEMMA FunctionIsSeq ==
  ASSUME NEW S, NEW n \in Nat, NEW f \in [1 .. n -> S]
  PROVE  f \in Seq(S) /\ Len(f) = n
OBVIOUS

\* Seq is monotonic.
LEMMA WiderSeq ==
  ASSUME NEW S, NEW T, S \subseteq T, NEW s \in Seq(S)
  PROVE  s \in Seq(T)
BY SeqMonotonic

-----------------------------------------------------------------------------
(* History only grows, so that what was earned stays earned.               *)

LEMMA EarnedGrows ==
  ASSUME TypeOK, acked \subseteq acked', refused' \in [Deliveries -> 0 .. MaxAttempts],
         \A d \in Deliveries : refused[d] <= refused'[d]
  PROVE  /\ GoodCopies \subseteq GoodCopies' /\ GoodCalls \subseteq GoodCalls'
         /\ \A d \in Deliveries : \A s, n : Earned(s, n, d) => Earned(s, n, d)'
<1>0. refused \in [Deliveries -> 0 .. MaxAttempts] /\ MaxAttempts \in Nat
  BY Constants DEF TypeOK
<1>1. \A d \in Deliveries : \A s, n : Earned(s, n, d) => Earned(s, n, d)'
  BY <1>0 DEF Earned
<1>2. GoodCopies \subseteq GoodCopies'
  BY <1>0 DEF GoodCopies, Copies
<1>3. ASSUME NEW c \in GoodCalls PROVE c \in GoodCalls'
  <2>1. CASE c.phase = "posting"
    <3>1. c.id \in Deliveries /\ c.attempts \in 1 .. MaxAttempts
      BY <2>1, Constants DEF GoodCalls, Calls
    <3> QED BY <1>0, <2>1, <3>1 DEF GoodCalls
  <2>2. CASE c.phase = "saving"
    <3>1. c.id \in Deliveries
      BY <2>2, Constants DEF GoodCalls, Calls
    <3> QED BY <1>1, <2>2, <3>1 DEF GoodCalls
  <2> QED BY <2>1, <2>2 DEF GoodCalls
<1> QED BY <1>1, <1>2, <1>3

\* Without a change of history, good means the same.
LEMMA SameHistory ==
  ASSUME UNCHANGED <<refused, acked>>
  PROVE  /\ GoodCopies' = GoodCopies /\ GoodCalls' = GoodCalls
         /\ \A d \in Deliveries : \A s, n : Earned(s, n, d) => Earned(s, n, d)'
BY DEF GoodCopies, GoodCalls, Earned

LEMMA GoodIsTyped ==
  /\ GoodCopies \subseteq Copies
  /\ GoodCalls \subseteq Calls /\ NoCall \in GoodCalls
BY Constants DEF GoodCopies, GoodCalls, NoCall

-----------------------------------------------------------------------------
(* The initial state.                                                      *)

LEMMA InitInv == Init => Inv
<1> SUFFICES ASSUME Init PROVE Inv
  OBVIOUS
<1>0. Init /\ NotLoading \in (SUBSET Hooks) \cup {NotLoading}
  OBVIOUS
<1>1. <<>> \in Seq(GoodCopies) /\ <<>> \in Seq(Copies) /\ Len(<<>>) = 0
  OBVIOUS
<1>2. TypeOK
  BY <1>0, <1>1, Constants DEF Init, TypeOK, HookStates
<1>3. Honest
  BY <1>1, GoodIsTyped, Constants DEF Init, Honest, Earned
<1> QED BY <1>2, <1>3 DEF Inv

-----------------------------------------------------------------------------
(* Steps that leave queues and lanes alone.                                *)

\* Every registry call, start and due date keeps the types of what it changes, and no row
\* says more than before.
LEMMA RegistryKeepsInv ==
  ASSUME Inv,
         \/ \E p \in Procs : RegistryStep(p)
         \/ \E d \in Deliveries : ComeDue(d)
  PROVE  Inv'
<1>0. /\ hookRow \in [Hooks -> HookStates] /\ row \in [Deliveries -> Rows]
      /\ cache \in [Procs -> [Hooks -> HookStates]] /\ writing \in [Procs -> Hooks \cup {NoHook}]
      /\ loading \in [Procs -> (SUBSET Hooks) \cup {NotLoading}] /\ up \in SUBSET Procs
      /\ faults \in 0 .. MaxFaults /\ MaxFaults \in Nat /\ issued \in SUBSET Hooks
      /\ excused \in SUBSET Deliveries
  BY Constants DEF Inv, TypeOK
<1> DEFINE Kept ==
      /\ UNCHANGED <<queue, lane, refused, acked>>
      /\ hookRow' \in [Hooks -> HookStates] /\ cache' \in [Procs -> [Hooks -> HookStates]]
      /\ writing' \in [Procs -> Hooks \cup {NoHook}]
      /\ loading' \in [Procs -> (SUBSET Hooks) \cup {NotLoading}] /\ up' \in SUBSET Procs
      /\ faults' \in 0 .. MaxFaults /\ issued' \in SUBSET Hooks /\ excused' \in SUBSET Deliveries
           Quieter ==
      /\ row' \in [Deliveries -> Rows]
      /\ \A d \in Deliveries : \/ row'[d] = NoRow
                             \/ /\ row'[d].status = row[d].status
                                /\ row'[d].attempts = row[d].attempts
<1>1. ASSUME NEW p \in Procs, NEW h \in Hooks, Register(p, h) PROVE Kept /\ Quieter
  BY <1>0, <1>1 DEF Register, dispatcher, tables, HookStates
<1>2. ASSUME NEW p \in Procs, NEW h \in Hooks, NEW s \in HookStates, Change(p, h, s)
      PROVE Kept /\ Quieter
  BY <1>0, <1>2 DEF Change, dispatcher, tables, history
<1>3. ASSUME NEW p \in Procs, WriteHook(p) PROVE Kept /\ Quieter
  <2>1. writing[p] \in Hooks /\ cache[p][writing[p]] \in HookStates
    BY <1>0, <1>3 DEF WriteHook
  <2>2. hookRow' \in [Hooks -> HookStates] /\ writing' \in [Procs -> Hooks \cup {NoHook}]
    BY <1>0, <1>3, <2>1 DEF WriteHook
  <2>3. Quieter
    BY <1>0, <1>3, Constants DEF WriteHook
  <2>4. excused' \in SUBSET Deliveries
    BY <1>0, <1>3 DEF WriteHook
  <2> QED BY <1>0, <1>3, <2>2, <2>3, <2>4 DEF WriteHook, dispatcher
<1>4. ASSUME NEW p \in Procs, WriteHookFails(p) PROVE Kept /\ Quieter
  BY <1>0, <1>4 DEF WriteHookFails, dispatcher, tables, history
<1>5. ASSUME NEW p \in Procs, BeginStart(p) PROVE Kept /\ Quieter
  <2>1. loading' \in [Procs -> (SUBSET Hooks) \cup {NotLoading}] /\ faults' \in 0 .. MaxFaults
    BY <1>0, <1>5 DEF BeginStart
  <2> QED BY <1>0, <1>5, <2>1 DEF BeginStart, dispatcher, tables, history
<1>6. ASSUME NEW p \in Procs, FinishStart(p) PROVE Kept /\ Quieter
  <2>1. [h \in Hooks |-> IF h \in loading[p] THEN "active" ELSE cache[p][h]]
          \in [Hooks -> HookStates]
    BY <1>0 DEF HookStates
  <2>2. cache' = [cache EXCEPT ![p] =
                    [h \in Hooks |-> IF h \in loading[p] THEN "active" ELSE cache[p][h]]]
    BY <1>6 DEF FinishStart
  <2>3. cache' \in [Procs -> [Hooks -> HookStates]]
    BY <1>0, <2>1, <2>2
  <2> QED BY <1>0, <1>6, <2>3 DEF FinishStart, tables, history
<1>7. ASSUME NEW d \in Deliveries, ComeDue(d) PROVE Kept /\ Quieter
  <2>1. [row[d] EXCEPT !.due = TRUE] \in Rows
    BY <1>0 DEF Rows
  <2>2. row' = [row EXCEPT ![d] = [row[d] EXCEPT !.due = TRUE]]
    BY <1>7 DEF ComeDue
  <2>3. row' \in [Deliveries -> Rows]
    BY <1>0, <2>1, <2>2
  <2>4. Quieter
    BY <1>0, <2>2, <2>3 DEF Rows
  <2> QED BY <1>0, <1>7, <2>4 DEF ComeDue, registry, dispatcher, history
<1>8. Kept /\ Quieter
  BY <1>1, <1>2, <1>3, <1>4, <1>5, <1>6, <1>7 DEF RegistryStep
<1>9. TypeOK'
  BY <1>8 DEF Inv, TypeOK
<1>10. Honest'
  <2>1. \A d \in Deliveries : Earned(row'[d].status, row'[d].attempts, d)
    BY <1>8, Constants DEF Inv, Honest, Earned
  <2>2. \A d \in Deliveries : Earned(row[d].status, row[d].attempts, d)'
    BY <1>8, <2>1 DEF Earned
  <2> QED BY <1>8, <2>2, SameHistory DEF Inv, Honest
<1> QED BY <1>9, <1>10 DEF Inv

-----------------------------------------------------------------------------
(* Queues and delivery workers.                                            *)

\* Queues of good copies, lanes of good calls and earned rows make the invariant, when the
\* registry and the endpoints stay as they are.
LEMMA DispatcherKeepsInv ==
  ASSUME Inv, UNCHANGED <<hookRow, registry, issued>>,
         up' \in SUBSET Procs, faults' \in 0 .. MaxFaults,
         row' \in [Deliveries -> Rows], excused' \in SUBSET Deliveries,
         acked' \in SUBSET Deliveries, acked \subseteq acked',
         refused' \in [Deliveries -> 0 .. MaxAttempts],
         \A d \in Deliveries : refused[d] <= refused'[d],
         queue' \in [Procs -> Seq(Copies)],
         \A p \in Procs : Len(queue'[p]) <= QueueMax /\ queue'[p] \in Seq(GoodCopies'),
         lane' \in [Procs -> [Lanes -> Calls]],
         \A p \in Procs, l \in Lanes : lane'[p][l] \in GoodCalls',
         \A d \in Deliveries : Earned(row[d].status, row[d].attempts, d)'
  PROVE  Inv'
<1>1. TypeOK'
  BY DEF Inv, TypeOK, registry
<1>2. Honest'
  BY DEF Honest
<1> QED BY <1>1, <1>2 DEF Inv

\* What the invariant says of the variables of the dispatcher.
LEMMA DispatcherTypes ==
  ASSUME Inv
  PROVE  /\ row \in [Deliveries -> Rows] /\ up \in SUBSET Procs /\ faults \in 0 .. MaxFaults
         /\ excused \in SUBSET Deliveries /\ acked \in SUBSET Deliveries
         /\ refused \in [Deliveries -> 0 .. MaxAttempts]
         /\ queue \in [Procs -> Seq(Copies)] /\ lane \in [Procs -> [Lanes -> Calls]]
         /\ \A p \in Procs : Len(queue[p]) <= QueueMax /\ queue[p] \in Seq(GoodCopies)
         /\ \A p \in Procs, l \in Lanes : lane[p][l] \in GoodCalls
         /\ \A d \in Deliveries : Earned(row[d].status, row[d].attempts, d)
BY DEF Inv, TypeOK, Honest

\* The copies put at the end of a queue: good ones, as many as it has room for.
LEMMA EnqueueKeepsInv ==
  ASSUME Inv, NEW p \in Procs, NEW t \in Seq(GoodCopies), Len(t) <= Room(p),
         queue' = [queue EXCEPT ![p] = @ \o t], excused' \in SUBSET Deliveries,
         UNCHANGED <<tables, registry, up, lane, faults, issued, refused, acked>>
  PROVE  Inv'
<1>1. Len(queue[p]) \in Nat /\ Len(t) \in Nat /\ QueueMax \in Nat /\ queue[p] \in Seq(GoodCopies)
  BY DispatcherTypes, Constants, LenProperties
<1>2. Len(queue[p]) + Len(t) <= QueueMax
  BY <1>1 DEF Room
<1>3. queue[p] \o t \in Seq(GoodCopies) /\ Len(queue[p] \o t) <= QueueMax
  BY <1>1, <1>2, AppendedQueue
<1>4. queue[p] \o t \in Seq(Copies)
  BY <1>3, GoodIsTyped, WiderSeq
<1>5. queue' \in [Procs -> Seq(Copies)]
  BY <1>4, DispatcherTypes
<1>6. \A q \in Procs : Len(queue'[q]) <= QueueMax /\ queue'[q] \in Seq(GoodCopies')
  BY <1>3, DispatcherTypes, SameHistory
<1>7. \A d \in Deliveries : Earned(row[d].status, row[d].attempts, d)'
  BY DispatcherTypes DEF tables, Earned
<1>8. /\ \A q \in Procs, l \in Lanes : lane'[q][l] \in GoodCalls'
      /\ \A d \in Deliveries : refused[d] <= refused'[d]
      /\ acked \subseteq acked'
  BY DispatcherTypes, SameHistory, Constants
<1> QED BY <1>5, <1>6, <1>7, <1>8, DispatcherTypes, DispatcherKeepsInv DEF tables

\* An event puts new copies, which claim nothing, into the queue.
LEMMA DispatchedCopies ==
  ASSUME Inv, NEW p \in Procs, Dispatch(p)
  PROVE  /\ \E t \in Seq(GoodCopies) :
              Len(t) <= Room(p) /\ queue' = [queue EXCEPT ![p] = @ \o t]
         /\ excused' \in SUBSET Deliveries
<1>1. PICK b \in Batches(p) :
        /\ queue' = [queue EXCEPT ![p] = @ \o
             [i \in DOMAIN Within(b, Room(p)) |-> [id |-> Within(b, Room(p))[i], attempts |-> 0]]]
        /\ Lost(IdsOf(b) \ IdsOf(Within(b, Room(p))))
  BY DEF Dispatch
<1> DEFINE active == {h \in Hooks : cache[p][h] = "active"}
           taken == Within(b, Room(p))
           t == [i \in DOMAIN taken |-> [id |-> taken[i], attempts |-> 0]]
<1>2. Cardinality(active) \in Nat
  BY Constants, FS_Subset, FS_CardinalityType
<1>3. b \in Seq(Deliveries)
  <2>1. b \in [1 .. Cardinality(active) -> Fresh]
    BY DEF Batches
  <2>2. Fresh \subseteq Deliveries
    BY DEF Fresh
  <2>3. b \in [1 .. Cardinality(active) -> Deliveries]
    BY <2>1, <2>2
  <2> QED BY <1>2, <2>3, FunctionIsSeq
<1>4. Room(p) \in Nat
  BY DispatcherTypes, Constants, LenProperties DEF Room
<1>5. taken \in Seq(Deliveries) /\ Len(taken) <= Room(p)
  BY <1>3, <1>4, WithinProperties
<1> HIDE DEF taken
<1>6. ASSUME NEW i \in DOMAIN taken PROVE [id |-> taken[i], attempts |-> 0] \in GoodCopies
  <2>1. taken[i] \in Deliveries
    BY <1>5
  <2>2. refused[taken[i]] \in Nat
    BY <2>1, DispatcherTypes, Constants
  <2> QED BY <2>1, <2>2, Constants DEF GoodCopies, Copies
<1>7. t \in Seq(GoodCopies) /\ Len(t) = Len(taken)
  <2>1. DOMAIN taken = 1 .. Len(taken) /\ Len(taken) \in Nat
    BY <1>5
  <2>2. t \in [1 .. Len(taken) -> GoodCopies]
    BY <1>6, <2>1
  <2> QED BY <2>1, <2>2
<1>8. excused' \in SUBSET Deliveries
  <2>1. IdsOf(b) \subseteq Deliveries
    BY <1>3 DEF IdsOf
  <2> QED BY <1>1, <2>1, DispatcherTypes DEF Lost
<1>9. queue' = [queue EXCEPT ![p] = @ \o t]
  BY <1>1 DEF taken
<1> HIDE DEF t
<1> QED BY <1>5, <1>7, <1>8, <1>9

LEMMA DispatchKeepsInv ==
  ASSUME Inv, NEW p \in Procs, Dispatch(p)
  PROVE  Inv'
<1>1. UNCHANGED <<tables, registry, up, lane, faults, issued, refused, acked>>
  BY DEF Dispatch
<1> QED BY <1>1, DispatchedCopies, EnqueueKeepsInv

\* The scan copies pending rows, which have attempts left.
LEMMA ScannedCopies ==
  ASSUME Inv, NEW p \in Procs, Scan(p)
  PROVE  \E t \in Seq(GoodCopies) :
           Len(t) <= Room(p) /\ queue' = [queue EXCEPT ![p] = @ \o t]
<1> DEFINE ripe == {d \in Deliveries : row[d].status = "pending" /\ row[d].due}
<1>1. PICK s \in [1 .. Cardinality(ripe) -> ripe] :
        queue' = [queue EXCEPT ![p] = @ \o
          [i \in DOMAIN Within(s, Room(p)) |-> [id |-> s[i], attempts |-> row[s[i]].attempts]]]
  BY DEF Scan
<1> DEFINE taken == Within(s, Room(p))
           t == [i \in DOMAIN taken |-> [id |-> s[i], attempts |-> row[s[i]].attempts]]
<1>2. Cardinality(ripe) \in Nat
  BY Constants, FS_Subset, FS_CardinalityType
<1>3. s \in Seq(ripe) /\ Len(s) = Cardinality(ripe)
  BY <1>2, FunctionIsSeq
<1>4. Room(p) \in Nat
  BY DispatcherTypes, Constants, LenProperties DEF Room
<1>5. taken \in Seq(ripe) /\ Len(taken) <= Room(p) /\ Len(taken) <= Len(s)
  BY <1>3, <1>4, WithinProperties
<1> HIDE DEF taken
<1>6. DOMAIN taken = 1 .. Len(taken) /\ Len(taken) \in Nat
  BY <1>5
<1>7. ASSUME NEW i \in DOMAIN taken
      PROVE  [id |-> s[i], attempts |-> row[s[i]].attempts] \in GoodCopies
  <2>1. s[i] \in Deliveries /\ row[s[i]].status = "pending"
    BY <1>2, <1>3, <1>5, <1>6
  <2>2. Earned("pending", row[s[i]].attempts, s[i]) /\ row[s[i]].attempts \in 0 .. MaxAttempts
    BY <2>1, DispatcherTypes DEF Rows
  <2>3. row[s[i]].attempts < MaxAttempts /\ row[s[i]].attempts <= refused[s[i]]
    BY <2>1, <2>2, DispatcherTypes, Constants DEF Earned
  <2> QED BY <2>1, <2>2, <2>3 DEF GoodCopies, Copies
<1>8. t \in Seq(GoodCopies) /\ Len(t) = Len(taken)
  <2>1. t \in [1 .. Len(taken) -> GoodCopies]
    BY <1>6, <1>7
  <2> QED BY <1>6, <2>1
<1>9. queue' = [queue EXCEPT ![p] = @ \o t]
  BY <1>1 DEF taken
<1> HIDE DEF t
<1> QED BY <1>5, <1>8, <1>9

LEMMA ScanKeepsInv ==
  ASSUME Inv, NEW p \in Procs, Scan(p)
  PROVE  Inv'
<1>1. /\ UNCHANGED <<tables, registry, up, lane, faults, issued, refused, acked>>
      /\ excused' \in SUBSET Deliveries
  BY DispatcherTypes DEF Scan, history
<1> QED BY <1>1, ScannedCopies, EnqueueKeepsInv

\* One delivery worker moves to a good call and nothing else claims more than it did.
LEMMA LaneKeepsInv ==
  ASSUME Inv, NEW p \in Procs, NEW l \in Lanes, NEW c,
         c \in GoodCalls', lane' = [lane EXCEPT ![p][l] = c],
         UNCHANGED <<hookRow, registry, up, issued>>, faults' \in 0 .. MaxFaults,
         queue' = queue, excused' \in SUBSET Deliveries,
         row' \in [Deliveries -> Rows], acked' \in SUBSET Deliveries, acked \subseteq acked',
         refused' \in [Deliveries -> 0 .. MaxAttempts],
         \A d \in Deliveries : refused[d] <= refused'[d],
         \A d \in Deliveries : Earned(row[d].status, row[d].attempts, d)'
  PROVE  Inv'
<1>1. GoodCopies \subseteq GoodCopies' /\ GoodCalls \subseteq GoodCalls'
  BY EarnedGrows DEF Inv
<1>2. GoodCalls' \subseteq Calls
  BY DEF GoodCalls, Calls, NoCall
<1>3. lane' \in [Procs -> [Lanes -> Calls]]
  BY <1>2, DispatcherTypes
<1>4. \A q \in Procs, m \in Lanes : lane'[q][m] \in GoodCalls'
  BY <1>1, DispatcherTypes
<1>5. \A q \in Procs : Len(queue'[q]) <= QueueMax /\ queue'[q] \in Seq(GoodCopies')
  BY <1>1, DispatcherTypes, WiderSeq
<1>6. queue' \in [Procs -> Seq(Copies)] /\ up' \in SUBSET Procs
  BY DispatcherTypes
<1> QED BY <1>3, <1>4, <1>5, <1>6, DispatcherKeepsInv

\* A worker takes a copy with attempts left and counts the request it makes.
LEMMA TakeKeepsInv ==
  ASSUME Inv, NEW p \in Procs, NEW l \in Lanes, Take(p, l)
  PROVE  Inv'
<1>1. queue[p] \in Seq(GoodCopies) /\ queue[p] \in Seq(Copies) /\ queue[p] # <<>>
  BY DispatcherTypes DEF Take
<1>2. PICK c \in GoodCopies : c = Head(queue[p])
  BY <1>1, HeadTailProperties
<1>3. PICK rest \in Seq(GoodCopies) : rest = Tail(queue[p]) /\ Len(rest) <= QueueMax
  <2>1. Tail(queue[p]) \in Seq(GoodCopies) /\ Len(Tail(queue[p])) = Len(queue[p]) - 1
    BY <1>1, HeadTailProperties
  <2>2. Len(queue[p]) \in Nat
    BY <1>1, LenProperties
  <2>3. Len(queue[p]) <= QueueMax /\ QueueMax \in Nat
    BY DispatcherTypes, Constants
  <2>4. Len(Tail(queue[p])) <= QueueMax
    BY <2>1, <2>2, <2>3
  <2> QED BY <2>1, <2>4
<1> DEFINE n == [phase |-> "posting", id |-> c.id, attempts |-> c.attempts + 1]
<1>4. n \in GoodCalls
  BY SMTT(60), <1>2, DispatcherTypes, Constants DEF GoodCopies, GoodCalls, Copies, Calls, Earned
<1>5. lane' = [lane EXCEPT ![p][l] = n] \/ lane' = lane
  BY <1>2 DEF Take
<1>6. /\ queue' = [queue EXCEPT ![p] = rest]
      /\ UNCHANGED <<tables, registry, up, faults, issued, refused, acked>>
  BY <1>3 DEF Take
<1>7. excused' \in SUBSET Deliveries
  <2>1. c.id \in Deliveries
    BY <1>2 DEF GoodCopies, Copies
  <2>2. excused' = excused \/ excused' = excused \cup {d \in {c.id} : row[d] = NoRow}
    BY <1>2 DEF Take, Lost
  <2> QED BY <2>1, <2>2, DispatcherTypes
<1> HIDE DEF n
<1>8. lane' \in [Procs -> [Lanes -> Calls]]
  BY ZenonT(60), <1>4, <1>5, GoodIsTyped, DispatcherTypes
<1>9. GoodCopies' = GoodCopies /\ GoodCalls' = GoodCalls
  BY <1>6, SameHistory
<1>10. ASSUME NEW q \in Procs, NEW m \in Lanes PROVE lane'[q][m] \in GoodCalls
  <2>1. lane \in [Procs -> [Lanes -> Calls]] /\ lane[q][m] \in GoodCalls
    BY DispatcherTypes
  <2>2. lane'[q][m] = n \/ lane'[q][m] = lane[q][m]
    BY <1>5, <2>1
  <2> QED BY <1>4, <2>1, <2>2
<1>11. rest \in Seq(Copies)
  BY GoodIsTyped, WiderSeq
<1>12. queue' \in [Procs -> Seq(Copies)]
  BY <1>6, <1>11, DispatcherTypes
<1>13. \A q \in Procs : Len(queue'[q]) <= QueueMax /\ queue'[q] \in Seq(GoodCopies)
  BY <1>3, <1>6, DispatcherTypes
<1>14. \A d \in Deliveries : Earned(row[d].status, row[d].attempts, d)'
  BY <1>6, DispatcherTypes DEF tables, Earned
<1>15. \A d \in Deliveries : refused[d] <= refused'[d]
  BY <1>6, DispatcherTypes, Constants
<1> QED
  BY <1>6, <1>7, <1>8, <1>9, <1>10, <1>12, <1>13, <1>14, <1>15, DispatcherTypes,
     DispatcherKeepsInv
  DEF tables

\* An answer is counted in the step that settles what the worker will record.
LEMMA AnswerKeepsInv ==
  ASSUME Inv, NEW p \in Procs, NEW l \in Lanes, NEW ok \in BOOLEAN, Answer(p, l, ok)
  PROVE  Inv'
<1>1. PICK c \in GoodCalls : c = lane[p][l] /\ c.phase = "posting"
  BY DispatcherTypes DEF Answer
<1> DEFINE n == [phase |-> "saving", id |-> c.id, attempts |-> c.attempts,
                 status |-> Verdict(ok, c.attempts)]
<1>2. /\ acked' = IF ok THEN acked \cup {c.id} ELSE acked
      /\ refused' = IF ok \/ refused[c.id] = MaxAttempts THEN refused
                    ELSE [refused EXCEPT ![c.id] = refused[c.id] + 1]
      /\ lane' = [lane EXCEPT ![p][l] = n]
      /\ UNCHANGED <<tables, registry, up, queue, faults, issued, excused>>
  BY <1>1 DEF Answer
<1>3. /\ c.id \in Deliveries /\ c.attempts \in 1 .. MaxAttempts
      /\ c.attempts <= refused[c.id] + 1
  BY <1>1, Constants DEF GoodCalls, Calls
<1>4. /\ acked' \in SUBSET Deliveries /\ acked \subseteq acked'
      /\ refused' \in [Deliveries -> 0 .. MaxAttempts]
      /\ \A d \in Deliveries : refused[d] <= refused'[d]
  BY <1>2, <1>3, DispatcherTypes, Constants
<1>5. Earned(Verdict(ok, c.attempts), c.attempts, c.id)'
  <2>1. CASE ok
    BY <1>2, <2>1 DEF Earned, Verdict
  <2>2. CASE ~ok
    <3>1. refused'[c.id] = MaxAttempts \/ refused'[c.id] = refused[c.id] + 1
      BY <1>2, <1>3, <2>2, DispatcherTypes
    <3>2. refused'[c.id] \in 0 .. MaxAttempts /\ refused[c.id] \in Nat /\ MaxAttempts \in Nat
      BY <1>3, <1>4, DispatcherTypes, Constants
    <3>3. c.attempts <= refused'[c.id]
      BY <1>3, <3>1, <3>2
    <3> QED BY <1>3, <2>2, <3>2, <3>3 DEF Earned, Verdict
  <2> QED BY <2>1, <2>2
<1>6. n \in GoodCalls'
  BY <1>3, <1>5 DEF GoodCalls, Calls, Verdict
<1>7. \A d \in Deliveries : Earned(row[d].status, row[d].attempts, d)'
  <2>1. \A d \in Deliveries : Earned(row[d].status, row[d].attempts, d)
    BY DispatcherTypes
  <2>2. \A d \in Deliveries : \A s, k : Earned(s, k, d) => Earned(s, k, d)'
    BY <1>4, EarnedGrows DEF Inv
  <2>3. \A d \in Deliveries : row'[d] = row[d]
    BY <1>2 DEF tables
  <2> QED BY <2>1, <2>2, <2>3 DEF Earned
<1> HIDE DEF n
<1> QED BY <1>2, <1>4, <1>6, <1>7, DispatcherTypes, LaneKeepsInv DEF tables

\* An exception leaves a worker without a call, and at most one delivery more is accepted.
LEMMA RaiseKeepsInv ==
  ASSUME Inv, NEW p \in Procs, NEW l \in Lanes, Raise(p, l)
  PROVE  Inv'
<1>1. PICK c \in GoodCalls : c = lane[p][l] /\ c.phase = "posting"
  BY DispatcherTypes DEF Raise
<1>2. c.id \in Deliveries
  BY <1>1, Constants DEF GoodCalls, Calls
<1>3. /\ acked' \in {acked, acked \cup {c.id}}
      /\ lane' = [lane EXCEPT ![p][l] = NoCall]
      /\ excused' = excused \cup {d \in {c.id} : row[d] = NoRow}
      /\ UNCHANGED <<tables, registry, up, queue, faults, issued, refused>>
  BY <1>1 DEF Raise, Lost
<1>4. acked' \in SUBSET Deliveries /\ acked \subseteq acked' /\ excused' \in SUBSET Deliveries
  BY <1>2, <1>3, DispatcherTypes
<1>5. /\ refused' \in [Deliveries -> 0 .. MaxAttempts]
      /\ \A d \in Deliveries : refused[d] <= refused'[d]
  BY <1>3, DispatcherTypes, Constants
<1>6. /\ GoodCalls \subseteq GoodCalls'
      /\ \A d \in Deliveries : \A s, n : Earned(s, n, d) => Earned(s, n, d)'
  BY <1>4, <1>5, EarnedGrows DEF Inv
<1>7. \A d \in Deliveries : Earned(row[d].status, row[d].attempts, d)'
  <2>1. \A d \in Deliveries : Earned(row[d].status, row[d].attempts, d)
    BY DispatcherTypes
  <2>2. \A d \in Deliveries : row'[d] = row[d]
    BY <1>3 DEF tables
  <2> QED BY <1>6, <2>1, <2>2 DEF Earned
<1>8. NoCall \in GoodCalls'
  BY <1>6, GoodIsTyped
<1> QED BY <1>3, <1>4, <1>5, <1>7, <1>8, DispatcherTypes, LaneKeepsInv DEF tables

\* What a worker records, it has earned.
LEMMA SaveKeepsInv ==
  ASSUME Inv, NEW p \in Procs, NEW l \in Lanes, Save(p, l) \/ SaveFails(p, l)
  PROVE  Inv'
<1>1. PICK c \in GoodCalls : c = lane[p][l] /\ c.phase = "saving"
  BY DispatcherTypes DEF Save, SaveFails
<1> DEFINE r == [status |-> c.status, attempts |-> c.attempts, due |-> FALSE]
<1>2. c.id \in Deliveries /\ r \in Rows /\ Earned(c.status, c.attempts, c.id)
  BY <1>1, Constants DEF GoodCalls, Calls, NoCall, Rows
<1>3. /\ lane' = [lane EXCEPT ![p][l] = NoCall]
      /\ UNCHANGED <<hookRow, registry, up, queue, issued, refused, acked>>
      /\ faults' \in 0 .. MaxFaults /\ excused' \in SUBSET Deliveries
      /\ row' = row \/ row' = [row EXCEPT ![c.id] = r]
  <2>1. excused' = excused \/ excused' = excused \cup {d \in {c.id} : row[d] = NoRow}
    BY <1>1 DEF Save, SaveFails, Lost
  <2>2. faults' = faults \/ (faults < MaxFaults /\ faults' = faults + 1)
    BY DEF Save, SaveFails
  <2>3. faults' \in 0 .. MaxFaults
    BY <2>2, DispatcherTypes, Constants
  <2>4. excused' \in SUBSET Deliveries
    BY <1>2, <2>1, DispatcherTypes
  <2> QED BY <1>1, <2>3, <2>4 DEF Save, SaveFails, tables
<1>4. row' \in [Deliveries -> Rows]
  BY <1>2, <1>3, DispatcherTypes
<1>5. ASSUME NEW d \in Deliveries PROVE Earned(row[d].status, row[d].attempts, d)'
  <2>1. Earned(row'[d].status, row'[d].attempts, d)
    <3>1. CASE row' = row
      BY <3>1, DispatcherTypes
    <3>2. CASE row' = [row EXCEPT ![c.id] = r] /\ d # c.id
      BY <1>2, <3>2, DispatcherTypes
    <3>3. CASE row' = [row EXCEPT ![c.id] = r] /\ d = c.id
      <4>1. row'[d] = r
        BY <1>2, <3>3, DispatcherTypes
      <4> QED BY <1>2, <3>3, <4>1
    <3> QED BY <1>3, <3>1, <3>2, <3>3
  <2> QED BY <1>3, <2>1 DEF Earned
<1>6. NoCall \in GoodCalls'
  BY GoodIsTyped, <1>3, SameHistory
<1>7. \A d \in Deliveries : refused[d] <= refused'[d]
  BY <1>3, DispatcherTypes, Constants
<1> QED BY <1>3, <1>4, <1>5, <1>6, <1>7, DispatcherTypes, LaneKeepsInv

\* Stops and crashes only forget.
LEMMA EndKeepsInv ==
  ASSUME Inv, NEW p \in Procs, Stop(p) \/ Crash(p)
  PROVE  Inv'
<1>1. /\ up' \in SUBSET Procs /\ faults' \in 0 .. MaxFaults
      /\ lane' = [lane EXCEPT ![p] = [l \in Lanes |-> NoCall]]
      /\ queue' = queue \/ queue' = [queue EXCEPT ![p] = <<>>]
      /\ UNCHANGED <<hookRow, row, issued, refused, acked>>
  BY DispatcherTypes, Constants DEF Stop, Crash, tables
<1>2. <<>> \in Seq(GoodCopies) /\ <<>> \in Seq(Copies) /\ Len(<<>>) = 0
  OBVIOUS
<1>3. /\ lane' \in [Procs -> [Lanes -> Calls]]
      /\ \A q \in Procs, m \in Lanes : lane'[q][m] \in GoodCalls'
  BY <1>1, SameHistory, GoodIsTyped, DispatcherTypes
<1>4. /\ queue' \in [Procs -> Seq(Copies)]
      /\ \A q \in Procs : Len(queue'[q]) <= QueueMax /\ queue'[q] \in Seq(GoodCopies')
  <2>1. GoodCopies' = GoodCopies
    BY <1>1, SameHistory
  <2>2. queue' \in [Procs -> Seq(Copies)]
    BY <1>1, <1>2, DispatcherTypes
  <2>3. \A q \in Procs : queue'[q] = queue[q] \/ queue'[q] = <<>>
    BY <1>1, DispatcherTypes
  <2>4. ASSUME NEW q \in Procs
        PROVE  Len(queue'[q]) <= QueueMax /\ queue'[q] \in Seq(GoodCopies)
    <3>1. CASE queue'[q] = <<>>
      BY <1>2, <3>1, Constants
    <3>2. CASE queue'[q] = queue[q]
      BY <3>2, DispatcherTypes
    <3> QED BY <2>3, <3>1, <3>2
  <2> QED BY <2>1, <2>2, <2>4
<1>5. \A d \in Deliveries : Earned(row[d].status, row[d].attempts, d)'
  BY <1>1, DispatcherTypes DEF Earned
<1>6. excused' \in SUBSET Deliveries
  <2>1. InLane(p) \subseteq Deliveries
    <3> SUFFICES ASSUME NEW m \in Lanes, lane[p][m] # NoCall
                 PROVE  lane[p][m].id \in Deliveries
      BY DEF InLane
    <3>1. lane[p][m] \in Calls
      BY DispatcherTypes
    <3> QED BY <3>1 DEF Calls
  <2>2. Queued(p) \subseteq Deliveries
    <3> SUFFICES ASSUME NEW i \in DOMAIN queue[p] PROVE queue[p][i].id \in Deliveries
      BY DEF Queued
    <3>1. queue[p] \in Seq(Copies)
      BY DispatcherTypes
    <3>2. queue[p][i] \in Copies
      BY <3>1, ElementOfSeq, LenProperties
    <3> QED BY <3>2 DEF Copies
  <2>3. \E D \in SUBSET Deliveries : excused' = excused \cup {d \in D : row[d] = NoRow}
    <3>1. CASE Stop(p)
      BY <2>1, <3>1 DEF Stop, Lost
    <3>2. CASE Crash(p)
      BY <2>1, <2>2, <3>2 DEF Crash, Lost
    <3> QED BY <3>1, <3>2
  <2> QED BY <2>3, DispatcherTypes
<1>7. /\ cache' \in [Procs -> [Hooks -> HookStates]]
      /\ writing' \in [Procs -> Hooks \cup {NoHook}]
      /\ loading' \in [Procs -> (SUBSET Hooks) \cup {NotLoading}]
  <2>1. CASE Stop(p)
    BY <2>1 DEF Inv, TypeOK, Stop, registry
  <2>2. CASE Crash(p)
    <3>1. [h \in Hooks |-> "absent"] \in [Hooks -> HookStates]
      BY DEF HookStates
    <3> QED BY <2>2, <3>1 DEF Inv, TypeOK, Crash
  <2> QED BY <2>1, <2>2
<1>8. TypeOK'
  BY <1>1, <1>3, <1>4, <1>6, <1>7 DEF Inv, TypeOK
<1>9. Honest'
  BY <1>3, <1>4, <1>5 DEF Honest
<1> QED BY <1>8, <1>9 DEF Inv

-----------------------------------------------------------------------------
(* The theorems.                                                           *)

LEMMA StepKeepsInv == Inv /\ [Next]_vars => Inv'
<1> SUFFICES ASSUME Inv, [Next]_vars PROVE Inv'
  OBVIOUS
<1>1. ASSUME NEW p \in Procs, Dispatch(p) PROVE Inv'
  BY <1>1, DispatchKeepsInv
<1>2. ASSUME NEW p \in Procs, RegistryStep(p) PROVE Inv'
  BY <1>2, RegistryKeepsInv
<1>3. ASSUME NEW p \in Procs, Scan(p) PROVE Inv'
  BY <1>3, ScanKeepsInv
<1>4. ASSUME NEW p \in Procs, Stop(p) \/ Crash(p) PROVE Inv'
  BY <1>4, EndKeepsInv
<1>5. ASSUME NEW p \in Procs, NEW l \in Lanes, LaneStep(p, l) PROVE Inv'
  BY <1>5, TakeKeepsInv, AnswerKeepsInv, RaiseKeepsInv, SaveKeepsInv DEF LaneStep
<1>6. ASSUME NEW d \in Deliveries, ComeDue(d) PROVE Inv'
  BY <1>6, RegistryKeepsInv
<1>7. CASE UNCHANGED vars
  <2>1. TypeOK'
    BY <1>7 DEF Inv, TypeOK, vars
  <2>2. Honest'
    BY <1>7 DEF Inv, Honest, GoodCopies, GoodCalls, Earned, vars
  <2> QED BY <2>1, <2>2 DEF Inv
<1> QED BY <1>1, <1>2, <1>3, <1>4, <1>5, <1>6, <1>7, Constants DEF Next

\* Records and all that is under way towards a record are honest at all times.
THEOREM WebhookInvariant == Spec => []Inv
<1>1. Init => Inv
  BY InitInv
<1>2. Inv /\ [Next]_vars => Inv'
  BY StepKeepsInv
<1> QED BY <1>1, <1>2, PTL DEF Spec

\* The registry, the tables, the queues (never longer than QueueMax) and the workers keep
\* their types.
THEOREM WebhookTypes == Spec => []TypeOK
BY WebhookInvariant, PTL DEF Inv

\* 'delivered' was accepted, 'failed' was refused MaxAttempts times and no attempt is
\* recorded that was not made, with any number of copies of a delivery in any processes.
THEOREM DeliveryRecordsAreEarned == Spec => []RecordsAreEarned
<1>1. Inv => RecordsAreEarned
  BY DEF Inv, Honest, Earned, RecordsAreEarned
<1> QED BY <1>1, WebhookInvariant, PTL

-----------------------------------------------------------------------------
(* Nothing is forgotten.                                                   *)

\* A delivery that is queued, with a worker or recorded.
UnderWay(d) == Held(d) \/ row[d] # NoRow

\* The steps that may cost a delivery its last copy or its row: its process stops or dies,
\* its endpoint is deleted, a worker does not know its endpoint or finds it off, delivering
\* raises, and the save fails or is refused because the endpoint has no row.
GivenUp(d) ==
  \E p \in Procs :
    \/ Stop(p) /\ d \in InLane(p)
    \/ Crash(p) /\ d \in InLane(p) \cup Queued(p)
    \/ /\ WriteHook(p)
       /\ HookOf[d] = writing[p] /\ cache[p][HookOf[d]] = "absent" /\ row[d] # NoRow
    \/ \E l \in Lanes :
         \/ Take(p, l) /\ d = Head(queue[p]).id /\ cache[p][HookOf[d]] # "active"
         \/ Raise(p, l) /\ d = lane[p][l].id
         \/ SaveFails(p, l) /\ d = lane[p][l].id
         \/ Save(p, l) /\ d = lane[p][l].id /\ hookRow[HookOf[d]] = "absent"

\* No delivery disappears in this step without a cause.
NoneForgotten == \A d \in Deliveries : UnderWay(d) => UnderWay(d)' \/ GivenUp(d)

\* A step that drops the copies of D from queues and workers forgets none, when those of D
\* are recorded then or given up, and so are all that were recorded before.
LEMMA UnderWayStays ==
  ASSUME NEW D,
         \A p \in Procs : Queued(p) \subseteq Queued(p)' \cup InLane(p)' \cup D,
         \A p \in Procs : InLane(p) \subseteq InLane(p)' \cup D,
         \A d \in D : row'[d] # NoRow \/ GivenUp(d),
         \A d \in Deliveries : row[d] # NoRow => row'[d] # NoRow \/ GivenUp(d)
  PROVE  NoneForgotten
<1> SUFFICES ASSUME NEW d \in Deliveries, UnderWay(d) PROVE UnderWay(d)' \/ GivenUp(d)
  BY DEF NoneForgotten
<1>1. CASE Held(d) /\ d \notin D
  <2>1. PICK p \in Procs : d \in Queued(p) \cup InLane(p)
    BY <1>1 DEF Held
  <2>2. d \in Queued(p)' \cup InLane(p)'
    BY <1>1, <2>1
  <2> QED BY <2>2 DEF UnderWay, Held
<1>2. CASE d \in D \/ row[d] # NoRow
  BY <1>2 DEF UnderWay
<1> QED BY <1>1, <1>2 DEF UnderWay

\* What a queue and the workers hold when only the queue of p, or one worker of p, changes.
LEMMA QueueElsewhere ==
  ASSUME Inv, NEW p \in Procs, NEW s, queue' = [queue EXCEPT ![p] = s]
  PROVE  /\ \A q \in Procs \ {p} : Queued(q)' = Queued(q)
         /\ queue'[p] = s
BY DispatcherTypes DEF Queued

LEMMA LaneElsewhere ==
  ASSUME Inv, NEW p \in Procs, NEW l \in Lanes, NEW c, lane' = [lane EXCEPT ![p][l] = c]
  PROVE  /\ \A q \in Procs : InLane(q) \subseteq InLane(q)' \cup
                               (IF lane[p][l] = NoCall THEN {} ELSE {lane[p][l].id})
         /\ c # NoCall => c.id \in InLane(p)'
<1>1. lane \in [Procs -> [Lanes -> Calls]]
  BY DispatcherTypes
<1>2. \A q \in Procs, m \in Lanes :
        lane'[q][m] = IF q = p /\ m = l THEN c ELSE lane[q][m]
  BY <1>1
<1>3. ASSUME NEW q \in Procs, NEW m \in Lanes, lane[q][m] # NoCall
      PROVE  lane[q][m].id \in InLane(q)' \cup
               (IF lane[p][l] = NoCall THEN {} ELSE {lane[p][l].id})
  <2>1. CASE q = p /\ m = l
    BY <1>3, <2>1
  <2>2. CASE ~(q = p /\ m = l)
    <3>1. lane'[q][m] = lane[q][m]
      BY <1>2, <2>2
    <3> QED BY <1>3, <3>1 DEF InLane
  <2> QED BY <2>1, <2>2
<1>4. \A q \in Procs : InLane(q) \subseteq InLane(q)' \cup
                         (IF lane[p][l] = NoCall THEN {} ELSE {lane[p][l].id})
  BY <1>3 DEF InLane
<1>5. c # NoCall => c.id \in InLane(p)'
  BY <1>2 DEF InLane
<1> QED BY <1>4, <1>5

\* Copies put at the end of a queue leave those before them.
LEMMA AppendForgetsNone ==
  ASSUME Inv, NEW p \in Procs, NEW t \in Seq(Copies), queue' = [queue EXCEPT ![p] = @ \o t],
         UNCHANGED <<row, lane>>
  PROVE  NoneForgotten
<1>1. queue[p] \in Seq(Copies) /\ queue'[p] = queue[p] \o t
  BY DispatcherTypes
<1>2. Queued(p) \subseteq Queued(p)'
  <2> SUFFICES ASSUME NEW i \in DOMAIN queue[p] PROVE queue[p][i].id \in Queued(p)'
    BY DEF Queued
  <2>1. i \in DOMAIN queue'[p] /\ queue'[p][i] = queue[p][i]
    BY <1>1, ConcatProperties, LenProperties
  <2> QED BY <2>1 DEF Queued
<1>3. \A q \in Procs : Queued(q) \subseteq Queued(q)'
  BY <1>2, QueueElsewhere
<1>4. \A q \in Procs : InLane(q)' = InLane(q)
  BY DEF InLane
<1>5. PICK D : D = {}
  OBVIOUS
<1>6. \A q \in Procs : Queued(q) \subseteq Queued(q)' \cup InLane(q)' \cup D
  BY <1>3
<1>7. \A q \in Procs : InLane(q) \subseteq InLane(q)' \cup D
  BY <1>4
<1>8. /\ \A d \in D : row'[d] # NoRow \/ GivenUp(d)
      /\ \A d \in Deliveries : row[d] # NoRow => row'[d] # NoRow \/ GivenUp(d)
  BY <1>5
<1> QED BY <1>6, <1>7, <1>8, UnderWayStays

\* A copy that is taken is with the worker, or given up.
LEMMA TakeForgetsNone ==
  ASSUME Inv, NEW p \in Procs, NEW l \in Lanes, Take(p, l)
  PROVE  NoneForgotten
<1>1. queue[p] \in Seq(Copies) /\ queue[p] # <<>> /\ lane[p][l] = NoCall
  BY DispatcherTypes DEF Take
<1>2. PICK c \in Copies : c = Head(queue[p])
  BY <1>1, HeadTailProperties
<1>3. queue' = [queue EXCEPT ![p] = Tail(queue[p])] /\ row' = row
  BY DEF Take, tables
<1>4. /\ \A q \in Procs : InLane(q) \subseteq InLane(q)'
      /\ c.id \in InLane(p)' \/ GivenUp(c.id)
  <2>1. CASE cache[p][HookOf[c.id]] = "active"
    <3> DEFINE n == [phase |-> "posting", id |-> c.id, attempts |-> c.attempts + 1]
    <3>1. lane' = [lane EXCEPT ![p][l] = n]
      BY <1>2, <2>1 DEF Take
    <3>2. n # NoCall /\ n.id = c.id
      BY DEF NoCall
    <3> HIDE DEF n
    <3> QED BY <1>1, <3>1, <3>2, LaneElsewhere
  <2>2. CASE cache[p][HookOf[c.id]] # "active"
    <3>1. GivenUp(c.id)
      BY <1>2, <2>2 DEF GivenUp
    <3>2. lane' = lane
      BY <1>2, <2>2 DEF Take
    <3> QED BY <3>1, <3>2 DEF InLane
  <2> QED BY <2>1, <2>2
<1>5. Queued(p) \subseteq Queued(p)' \cup {c.id}
  <2> SUFFICES ASSUME NEW i \in DOMAIN queue[p], i # 1 PROVE queue[p][i].id \in Queued(p)'
    <3>1. Head(queue[p]) = queue[p][1]
      BY <1>1
    <3> QED BY <1>2, <3>1 DEF Queued
  <2>1. queue'[p] = Tail(queue[p])
    BY <1>3, QueueElsewhere
  <2>2. i - 1 \in DOMAIN Tail(queue[p]) /\ Tail(queue[p])[i - 1] = queue[p][i]
    BY <1>1
  <2> QED BY <2>1, <2>2 DEF Queued
<1>6. PICK D : D = IF c.id \in InLane(p)' THEN {} ELSE {c.id}
  OBVIOUS
<1>7. \A q \in Procs : Queued(q) \subseteq Queued(q)' \cup InLane(q)' \cup D
  BY <1>3, <1>5, <1>6, QueueElsewhere
<1>8. \A d \in D : row'[d] # NoRow \/ GivenUp(d)
  BY <1>4, <1>6
<1> QED BY <1>3, <1>4, <1>7, <1>8, UnderWayStays

\* An answer leaves the delivery with its worker.
LEMMA AnswerForgetsNone ==
  ASSUME Inv, NEW p \in Procs, NEW l \in Lanes, NEW ok \in BOOLEAN, Answer(p, l, ok)
  PROVE  /\ NoneForgotten
         /\ \A d \in Deliveries :
              d \in acked' \/ refused'[d] > 0 => d \in acked \/ refused[d] > 0 \/ UnderWay(d)'
<1>1. PICK c \in GoodCalls : c = lane[p][l] /\ c.phase = "posting"
  BY DispatcherTypes DEF Answer
<1> DEFINE n == [phase |-> "saving", id |-> c.id, attempts |-> c.attempts,
                 status |-> Verdict(ok, c.attempts)]
<1>2. /\ lane' = [lane EXCEPT ![p][l] = n] /\ UNCHANGED <<row, queue>>
      /\ acked' = IF ok THEN acked \cup {c.id} ELSE acked
      /\ refused' = IF ok \/ refused[c.id] = MaxAttempts THEN refused
                    ELSE [refused EXCEPT ![c.id] = refused[c.id] + 1]
  BY <1>1 DEF Answer, tables
<1>3. n # NoCall /\ n.id = c.id /\ c # NoCall
  BY <1>1 DEF NoCall
<1> HIDE DEF n
<1>4. c.id \in InLane(p)' /\ \A q \in Procs : InLane(q) \subseteq InLane(q)' \cup {c.id}
  BY <1>1, <1>2, <1>3, LaneElsewhere
<1>5. \A q \in Procs : Queued(q)' = Queued(q)
  BY <1>2 DEF Queued
<1>6. UnderWay(c.id)'
  BY <1>4 DEF UnderWay, Held
<1>7. ASSUME NEW d \in Deliveries, UnderWay(d) PROVE UnderWay(d)'
  <2>1. CASE d # c.id /\ Held(d)
    BY <1>4, <1>5, <2>1 DEF UnderWay, Held
  <2>2. CASE row[d] # NoRow
    BY <1>2, <2>2 DEF UnderWay
  <2> QED BY <1>6, <1>7, <2>1, <2>2 DEF UnderWay
<1>8. ASSUME NEW d \in Deliveries, d # c.id
      PROVE  (d \in acked' => d \in acked) /\ refused'[d] = refused[d]
  BY <1>2, <1>8, DispatcherTypes
<1> QED BY <1>6, <1>7, <1>8 DEF NoneForgotten

\* A save records the delivery or gives it up, as a failed one and an exception do.
LEMMA SaveForgetsNone ==
  ASSUME Inv, NEW p \in Procs, NEW l \in Lanes, Save(p, l) \/ SaveFails(p, l) \/ Raise(p, l)
  PROVE  NoneForgotten
<1>1. PICK c \in GoodCalls : c = lane[p][l] /\ c.phase \in {"posting", "saving"}
  BY DispatcherTypes DEF Save, SaveFails, Raise
<1> DEFINE r == [status |-> c.status, attempts |-> c.attempts, due |-> FALSE]
<1>2. c.id \in Deliveries /\ (c.phase = "saving" => r # NoRow)
  BY <1>1, Constants DEF GoodCalls, Calls, NoCall, NoRow
<1>3. /\ lane' = [lane EXCEPT ![p][l] = NoCall] /\ queue' = queue
      /\ \/ row' = row /\ GivenUp(c.id)
         \/ row' = [row EXCEPT ![c.id] = r] /\ c.phase = "saving"
  <2>1. CASE Save(p, l) /\ hookRow[HookOf[c.id]] # "absent"
    BY <1>1, <2>1 DEF Save
  <2>2. CASE Save(p, l) /\ hookRow[HookOf[c.id]] = "absent"
    <3>1. GivenUp(c.id)
      BY <1>1, <2>2 DEF GivenUp
    <3> QED BY <1>1, <2>2, <3>1 DEF Save
  <2>3. CASE SaveFails(p, l)
    <3>1. GivenUp(c.id)
      BY <1>1, <2>3 DEF GivenUp
    <3> QED BY <2>3, <3>1 DEF SaveFails, tables
  <2>4. CASE Raise(p, l)
    <3>1. GivenUp(c.id)
      BY <1>1, <2>4 DEF GivenUp
    <3> QED BY <2>4, <3>1 DEF Raise, tables
  <2> QED BY <2>1, <2>2, <2>3, <2>4
<1> HIDE DEF r
<1>4. c # NoCall
  BY <1>1 DEF NoCall
<1>5. PICK D : D = {c.id}
  OBVIOUS
<1>6. \A q \in Procs : InLane(q) \subseteq InLane(q)' \cup D
  BY <1>1, <1>3, <1>4, <1>5, LaneElsewhere
<1>7. \A q \in Procs : Queued(q) \subseteq Queued(q)' \cup InLane(q)' \cup D
  BY <1>3 DEF Queued
<1>8. \A d \in D : row'[d] # NoRow \/ GivenUp(d)
  BY <1>2, <1>3, <1>5, DispatcherTypes
<1>9. \A d \in Deliveries : row[d] # NoRow => row'[d] # NoRow
  BY <1>2, <1>3, DispatcherTypes
<1> QED BY <1>6, <1>7, <1>8, <1>9, UnderWayStays

\* A stop takes the copies of the workers, a crash those of the queue too.
LEMMA EndForgetsNone ==
  ASSUME Inv, NEW p \in Procs, Stop(p) \/ Crash(p)
  PROVE  NoneForgotten
<1>1. PICK D : D = IF Crash(p) THEN InLane(p) \cup Queued(p) ELSE InLane(p)
  OBVIOUS
<1>2. lane' = [lane EXCEPT ![p] = [l \in Lanes |-> NoCall]] /\ row' = row
  BY DEF Stop, Crash, tables
<1>3. \A d \in D : GivenUp(d)
  BY <1>1 DEF GivenUp
<1>4. ASSUME NEW q \in Procs PROVE InLane(q) \subseteq InLane(q)' \cup D
  <2>1. CASE q = p
    BY <1>1, <2>1
  <2>2. CASE q # p
    <3>1. lane'[q] = lane[q]
      BY <1>2, <2>2, DispatcherTypes
    <3> QED BY <3>1 DEF InLane
  <2> QED BY <2>1, <2>2
<1>5. ASSUME NEW q \in Procs PROVE Queued(q) \subseteq Queued(q)' \cup D
  <2>1. CASE Crash(p) /\ q = p
    BY <1>1, <2>1
  <2>2. CASE Crash(p) /\ q # p
    <3>1. queue'[q] = queue[q]
      BY <2>2, DispatcherTypes DEF Crash
    <3> QED BY <3>1 DEF Queued
  <2>3. CASE Stop(p)
    BY <2>3 DEF Stop, Queued
  <2> QED BY <2>1, <2>2, <2>3
<1> QED BY <1>2, <1>3, <1>4, <1>5, UnderWayStays

\* An endpoint that is deleted takes its deliveries with it; other registry calls and due
\* dates leave queues, workers and the existence of rows alone.
LEMMA RegistryForgetsNone ==
  ASSUME Inv,
         \/ \E p \in Procs : RegistryStep(p)
         \/ \E d \in Deliveries : ComeDue(d)
  PROVE  NoneForgotten
<1> DEFINE Kept == /\ UNCHANGED <<queue, lane>>
                   /\ \A d \in Deliveries : row[d] # NoRow => row'[d] # NoRow \/ GivenUp(d)
<1>1. ASSUME NEW p \in Procs, WriteHook(p) PROVE Kept
  <2>1. UNCHANGED <<queue, lane>>
    BY <1>1 DEF WriteHook, dispatcher
  <2>2. ASSUME NEW d \in Deliveries, row[d] # NoRow, row'[d] = NoRow PROVE GivenUp(d)
    <3>1. HookOf[d] = writing[p] /\ cache[p][HookOf[d]] = "absent"
      BY <1>1, <2>2 DEF WriteHook
    <3> QED BY <1>1, <2>2, <3>1 DEF GivenUp
  <2> QED BY <2>1, <2>2
<1>2. ASSUME NEW p \in Procs, RegistryStep(p), ~WriteHook(p) PROVE Kept
  BY <1>2 DEF RegistryStep, Register, Change, WriteHookFails, BeginStart, FinishStart,
              dispatcher, tables
<1>3. ASSUME NEW d \in Deliveries, ComeDue(d) PROVE Kept
  <2>1. row[d].status = "pending" /\ row' = [row EXCEPT ![d].due = TRUE]
        /\ UNCHANGED <<queue, lane>>
    BY <1>3 DEF ComeDue, dispatcher
  <2>2. row'[d].status = "pending" /\ \A e \in Deliveries \ {d} : row'[e] = row[e]
    BY <2>1, DispatcherTypes DEF Rows
  <2>3. row'[d] # NoRow
    BY <2>2 DEF NoRow
  <2> QED BY <2>1, <2>2, <2>3
<1>4. Kept
  BY <1>1, <1>2, <1>3
<1>5. \A q \in Procs : Queued(q)' = Queued(q) /\ InLane(q)' = InLane(q)
  BY <1>4 DEF Queued, InLane
<1>6. PICK D : D = {}
  OBVIOUS
<1> QED BY <1>4, <1>5, <1>6, UnderWayStays

LEMMA StepForgetsNone == Inv /\ [Next]_vars => NoneForgotten
<1> SUFFICES ASSUME Inv, [Next]_vars PROVE NoneForgotten
  OBVIOUS
<1>1. ASSUME NEW p \in Procs, Dispatch(p) PROVE NoneForgotten
  <2>1. PICK t \in Seq(Copies) : queue' = [queue EXCEPT ![p] = @ \o t]
    BY <1>1, DispatchedCopies, GoodIsTyped, WiderSeq
  <2>2. UNCHANGED <<row, lane>>
    BY <1>1 DEF Dispatch, tables
  <2> QED BY <2>1, <2>2, AppendForgetsNone
<1>2. ASSUME NEW p \in Procs, Scan(p) PROVE NoneForgotten
  <2>1. PICK t \in Seq(Copies) : queue' = [queue EXCEPT ![p] = @ \o t]
    BY <1>2, ScannedCopies, GoodIsTyped, WiderSeq
  <2>2. UNCHANGED <<row, lane>>
    BY <1>2 DEF Scan, tables
  <2> QED BY <2>1, <2>2, AppendForgetsNone
<1>3. CASE UNCHANGED vars
  BY <1>3 DEF vars, NoneForgotten, UnderWay, Held, Queued, InLane
<1>4. ASSUME NEW p \in Procs, NEW l \in Lanes, LaneStep(p, l) PROVE NoneForgotten
  BY <1>4, TakeForgetsNone, SaveForgetsNone, AnswerForgetsNone DEF LaneStep
<1> QED
  BY <1>1, <1>2, <1>3, <1>4, EndForgetsNone, RegistryForgetsNone, Constants DEF Next

\* What is given up is recorded all the same, or excused.
LEMMA GivenUpIsExcused ==
  ASSUME Inv, NEW d \in Deliveries, GivenUp(d)
  PROVE  row'[d] # NoRow \/ d \in excused'
<1>1. PICK p \in Procs :
        \/ Stop(p) /\ d \in InLane(p)
        \/ Crash(p) /\ d \in InLane(p) \cup Queued(p)
        \/ /\ WriteHook(p)
           /\ HookOf[d] = writing[p] /\ cache[p][HookOf[d]] = "absent" /\ row[d] # NoRow
        \/ \E l \in Lanes :
             \/ Take(p, l) /\ d = Head(queue[p]).id /\ cache[p][HookOf[d]] # "active"
             \/ Raise(p, l) /\ d = lane[p][l].id
             \/ SaveFails(p, l) /\ d = lane[p][l].id
             \/ Save(p, l) /\ d = lane[p][l].id /\ hookRow[HookOf[d]] = "absent"
  BY DEF GivenUp
<1>2. CASE Stop(p) /\ d \in InLane(p)
  BY <1>2 DEF Stop, Lost, tables
<1>3. CASE Crash(p) /\ d \in InLane(p) \cup Queued(p)
  BY <1>3 DEF Crash, Lost, tables
<1>4. CASE /\ WriteHook(p)
           /\ HookOf[d] = writing[p] /\ cache[p][HookOf[d]] = "absent" /\ row[d] # NoRow
  BY <1>4 DEF WriteHook
<1>5. ASSUME NEW l \in Lanes, Take(p, l), d = Head(queue[p]).id, cache[p][HookOf[d]] # "active"
      PROVE  row'[d] # NoRow \/ d \in excused'
  BY <1>5 DEF Take, Lost, tables
<1>6. ASSUME NEW l \in Lanes, Raise(p, l), d = lane[p][l].id
      PROVE  row'[d] # NoRow \/ d \in excused'
  BY <1>6 DEF Raise, Lost, tables
<1>7. ASSUME NEW l \in Lanes, SaveFails(p, l), d = lane[p][l].id
      PROVE  row'[d] # NoRow \/ d \in excused'
  BY <1>7 DEF SaveFails, Lost, tables
<1>8. ASSUME NEW l \in Lanes, Save(p, l), d = lane[p][l].id, hookRow[HookOf[d]] = "absent"
      PROVE  row'[d] # NoRow \/ d \in excused'
  BY <1>8 DEF Save, Lost
<1> QED BY <1>1, <1>2, <1>3, <1>4, <1>5, <1>6, <1>7, <1>8

\* What is excused stays so.
LEMMA ExcusedGrows == [Next]_vars => excused \subseteq excused'
<1> SUFFICES ASSUME [Next]_vars PROVE excused \subseteq excused'
  OBVIOUS
<1>1. ASSUME NEW p \in Procs, RegistryStep(p) PROVE excused \subseteq excused'
  BY <1>1 DEF RegistryStep, Register, Change, WriteHook, WriteHookFails, BeginStart,
              FinishStart, history
<1>2. ASSUME NEW p \in Procs, Dispatch(p) \/ Scan(p) \/ Stop(p) \/ Crash(p)
      PROVE  excused \subseteq excused'
  BY <1>2 DEF Dispatch, Scan, Stop, Crash, Lost, history
<1>3. ASSUME NEW p \in Procs, NEW l \in Lanes, LaneStep(p, l) PROVE excused \subseteq excused'
  BY <1>3 DEF LaneStep, Take, Answer, Raise, Save, SaveFails, Lost
<1>4. ASSUME NEW d \in Deliveries, ComeDue(d) PROVE excused \subseteq excused'
  BY <1>4 DEF ComeDue, history
<1>5. CASE UNCHANGED vars
  BY <1>5 DEF vars
<1> QED BY <1>1, <1>2, <1>3, <1>4, <1>5, Constants DEF Next

\* An answer is for a delivery that is under way then, or given up in the same step.
LEMMA AnsweredIsKnown ==
  ASSUME Inv, [Next]_vars, NEW d \in Deliveries, d \in acked' \/ refused'[d] > 0
  PROVE  d \in acked \/ refused[d] > 0 \/ UnderWay(d)' \/ GivenUp(d)
<1>1. CASE UNCHANGED <<acked, refused>>
  BY <1>1
<1>2. ASSUME NEW p \in Procs, NEW l \in Lanes, NEW ok \in BOOLEAN, Answer(p, l, ok)
      PROVE  d \in acked \/ refused[d] > 0 \/ UnderWay(d)'
  BY <1>2, AnswerForgetsNone
<1>3. ASSUME NEW p \in Procs, NEW l \in Lanes, Raise(p, l)
      PROVE  d \in acked \/ refused[d] > 0 \/ GivenUp(d)
  <2>1. acked' \in {acked, acked \cup {lane[p][l].id}} /\ refused' = refused
    BY <1>3 DEF Raise
  <2>2. CASE d = lane[p][l].id
    BY <1>3, <2>2 DEF GivenUp
  <2> QED BY <2>1, <2>2
<1>4. ASSUME NEW p \in Procs, RegistryStep(p) PROVE UNCHANGED <<acked, refused>>
  BY <1>4 DEF RegistryStep, Register, Change, WriteHook, WriteHookFails, BeginStart,
              FinishStart, history
<1>5. ASSUME NEW p \in Procs, Dispatch(p) \/ Scan(p) \/ Stop(p) \/ Crash(p)
      PROVE  UNCHANGED <<acked, refused>>
  BY <1>5 DEF Dispatch, Scan, Stop, Crash, history
<1>6. ASSUME NEW p \in Procs, NEW l \in Lanes, Take(p, l) \/ Save(p, l) \/ SaveFails(p, l)
      PROVE  UNCHANGED <<acked, refused>>
  BY <1>6 DEF Take, Save, SaveFails
<1>7. ASSUME NEW e \in Deliveries, ComeDue(e) PROVE UNCHANGED <<acked, refused>>
  BY <1>7 DEF ComeDue, history
<1>8. CASE UNCHANGED vars
  BY <1>8 DEF vars
<1> QED BY <1>1, <1>2, <1>3, <1>4, <1>5, <1>6, <1>7, <1>8, Constants DEF Next, LaneStep

\* A delivery, once a request for it was answered, is queued, with a worker or recorded,
\* unless an unknown endpoint, an exception in its worker, a failed save, a deletion, a stop
\* or a crash has cost it (_delivery_worker, _process_delivery, _retry_processor).
THEOREM NoDeliveryForgotten == Spec => []NothingForgotten
<1>1. Init => NothingForgotten
  BY Constants DEF Init, NothingForgotten
<1>2. Inv /\ NothingForgotten /\ [Next]_vars => NothingForgotten'
  <2> SUFFICES ASSUME Inv, NothingForgotten, [Next]_vars, NEW d \in Deliveries,
                      d \in acked' \/ refused'[d] > 0
               PROVE  UnderWay(d)' \/ d \in excused'
    BY DEF NothingForgotten, UnderWay, Held, Queued, InLane
  <2>1. d \in acked \/ refused[d] > 0 => UnderWay(d) \/ d \in excused
    BY DEF NothingForgotten, UnderWay
  <2>2. UnderWay(d) => UnderWay(d)' \/ GivenUp(d)
    BY StepForgetsNone DEF NoneForgotten
  <2>3. GivenUp(d) => UnderWay(d)' \/ d \in excused'
    BY GivenUpIsExcused DEF UnderWay
  <2> QED BY <2>1, <2>2, <2>3, AnsweredIsKnown, ExcusedGrows
<1> QED BY <1>1, <1>2, WebhookInvariant, PTL DEF Spec

\* More, and without the history: from the moment it is queued, answered or not, the step
\* after which no queue, no worker and no row has a delivery is one of the seven of GivenUp,
\* and one that was about that delivery.  Scans, takes, answers and saves of other copies,
\* in any process, never are.
THEOREM KnownDeliveriesStayKnown ==
  Spec => [][\A d \in Deliveries : UnderWay(d) => UnderWay(d)' \/ GivenUp(d)]_vars
<1>1. Inv /\ [Next]_vars => [\A d \in Deliveries : UnderWay(d) => UnderWay(d)' \/ GivenUp(d)]_vars
  BY StepForgetsNone DEF NoneForgotten
<1> QED BY <1>1, WebhookInvariant, PTL DEF Spec

=============================================================================
