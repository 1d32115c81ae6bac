------------------------------ MODULE Webhooks ------------------------------
(***************************************************************************)
(* Webhook delivery: soniq/features/webhooks.py.  Each process keeps a     *)
(* cache of the endpoints, a bounded queue of deliveries, some delivery    *)
(* workers and a retry scan; the processes share the tables                *)
(* soniq_webhook_endpoints and soniq_webhook_deliveries.                   *)
(*                                                                         *)
(* A delivery lives in memory until the first request for it has been      *)
(* answered; only then does it get a row.  The retry scan copies rows into *)
(* the queue and marks nothing, so several copies may be under way.  When  *)
(* delivering raises, the copy is dropped and nothing is written.          *)
(*                                                                         *)
(* Abstractions.  A delivery names its endpoint; url, events, headers,     *)
(* payload and signature are left out.  next_retry_at is "due or not".     *)
(* LIMIT 100 of the scan is above the number of rows of an instance.       *)
(***************************************************************************)
EXTENDS Integers, Sequences, FiniteSets

CONSTANTS
  Procs,        \* processes that run a WebhookService
  Lanes,        \* delivery workers of a process (max_concurrent_deliveries)
  Hooks,        \* endpoint ids; an id is a fresh UUID
  NoHook,       \* no endpoint
  Deliveries,   \* delivery ids; an id is a fresh UUID
  HookOf,       \* endpoint_id of each delivery
  QueueMax,     \* maxsize of the delivery queue
  MaxAttempts,  \* max_retries of the endpoints
  Callers,      \* bound: processes that call: endpoint changes and events
  Flaky,        \* deliveries whose requests may fail
  CanFail,      \* processes that may be stopped or die
  MaxFaults     \* bound: database calls that fail, stops and deaths

ASSUME WebhookAssumption ==
  /\ HookOf \in [Deliveries -> Hooks]
  /\ NoHook \notin Hooks /\ IsFiniteSet(Hooks) /\ IsFiniteSet(Deliveries)
  /\ Callers \subseteq Procs
  /\ QueueMax \in Nat \ {0}
  /\ MaxAttempts \in Nat \ {0}
  /\ MaxFaults \in Nat

VARIABLES
  hookRow,   \* soniq_webhook_endpoints: "absent", "active" or "inactive"
  row,       \* soniq_webhook_deliveries: status ("none": no row), attempts, due
  cache,     \* WebhookRegistry.endpoints of each process
  writing,   \* the endpoint whose write holds the registry lock of a process
  loading,   \* endpoints a starting process has read, before it takes the lock
  up,        \* processes whose dispatcher runs
  queue,     \* delivery_queue of each process: copies with their attempts
  lane,      \* what each delivery worker is doing
  faults,    \* failures, stops and deaths so far
  issued,    \* history: endpoint ids that have been registered
  refused,   \* history: failed requests per delivery, counted up to MaxAttempts
  acked,     \* history: deliveries that a receiver has accepted
  excused    \* history: deliveries given up for a cause the design knows

tables == <<hookRow, row>>
registry == <<cache, writing, loading>>
dispatcher == <<up, queue, lane>>
history == <<issued, refused, acked, excused>>
vars == <<hookRow, row, cache, writing, loading, up, queue, lane, faults,
          issued, refused, acked, excused>>

-----------------------------------------------------------------------------
HookStates == {"absent", "active", "inactive"}
Copies == [id : Deliveries, attempts : 0 .. MaxAttempts]
NoCall == [phase |-> "idle"]
Calls == {NoCall}
  \cup [phase : {"posting"}, id : Deliveries, attempts : 1 .. MaxAttempts]
  \cup [phase : {"saving"}, id : Deliveries, attempts : 1 .. MaxAttempts,
        status : {"pending", "delivered", "failed"}]
Rows == [status : {"none", "pending", "delivered", "failed"},
         attempts : 0 .. MaxAttempts, due : BOOLEAN]
NoRow == [status |-> "none", attempts |-> 0, due |-> FALSE]
NotLoading == {NoHook}

TypeOK ==
  /\ hookRow \in [Hooks -> HookStates]
  /\ row \in [Deliveries -> Rows]
  /\ cache \in [Procs -> [Hooks -> HookStates]]
  /\ writing \in [Procs -> Hooks \cup {NoHook}]
  /\ loading \in [Procs -> (SUBSET Hooks) \cup {NotLoading}]
  /\ up \in SUBSET Procs
  /\ queue \in [Procs -> Seq(Copies)]
  /\ \A p \in Procs : Len(queue[p]) <= QueueMax
  /\ lane \in [Procs -> [Lanes -> Calls]]
  /\ faults \in 0 .. MaxFaults
  /\ issued \in SUBSET Hooks
  /\ refused \in [Deliveries -> 0 .. MaxAttempts]
  /\ acked \in SUBSET Deliveries
  /\ excused \in SUBSET Deliveries

Init ==
  /\ hookRow = [h \in Hooks |-> "absent"]
  /\ row = [d \in Deliveries |-> NoRow]
  /\ cache = [p \in Procs |-> [h \in Hooks |-> "absent"]]
  /\ writing = [p \in Procs |-> NoHook]
  /\ loading = [p \in Procs |-> NotLoading]
  /\ up = {}
  /\ queue = [p \in Procs |-> <<>>]
  /\ lane = [p \in Procs |-> [l \in Lanes |-> NoCall]]
  /\ faults = 0
  /\ issued = {}
  /\ refused = [d \in Deliveries |-> 0]
  /\ acked = {}
  /\ excused = {}

-----------------------------------------------------------------------------
(* The registry.  Every call changes the cache and then awaits its write.  *)

\* register_endpoint.
Register(p, h) ==
  /\ writing[p] = NoHook
  /\ h \notin issued
  /\ issued' = issued \cup {h}
  /\ cache' = [cache EXCEPT ![p][h] = "active"]
  /\ writing' = [writing EXCEPT ![p] = h]
  /\ UNCHANGED <<tables, loading, dispatcher, faults, refused, acked, excused>>

\* unregister_endpoint and update_endpoint, of a cached endpoint only.  An update that
\* leaves 'active' as it is writes the row all the same, from what may be a stale cache.
Change(p, h, s) ==
  /\ writing[p] = NoHook
  /\ cache[p][h] # "absent"
  /\ cache' = [cache EXCEPT ![p][h] = s]
  /\ writing' = [writing EXCEPT ![p] = h]
  /\ UNCHANGED <<tables, loading, dispatcher, faults, history>>

\* _save_endpoint_to_db or _delete_endpoint_from_db: the row becomes what the cache
\* says; deleting it deletes its deliveries (ON DELETE CASCADE).
WriteHook(p) ==
  LET h == writing[p] IN
  /\ h # NoHook
  /\ hookRow' = [hookRow EXCEPT ![h] = cache[p][h]]
  /\ row' = [d \in Deliveries |->
               IF HookOf[d] = h /\ cache[p][h] = "absent" THEN NoRow ELSE row[d]]
  /\ excused' = IF cache[p][h] = "absent"
                THEN excused \cup {d \in Deliveries : HookOf[d] = h /\ row[d] # NoRow} ELSE excused
  /\ writing' = [writing EXCEPT ![p] = NoHook]
  /\ UNCHANGED <<cache, loading, dispatcher, faults, issued, refused, acked>>

\* The write raises: cache and row disagree from here on.
WriteHookFails(p) ==
  /\ writing[p] # NoHook
  /\ faults < MaxFaults
  /\ faults' = faults + 1
  /\ writing' = [writing EXCEPT ![p] = NoHook]
  /\ UNCHANGED <<tables, cache, loading, dispatcher, history>>

\* WebhookService.start: read the active endpoints, or none when that fails ...
BeginStart(p) ==
  /\ p \notin up /\ loading[p] = NotLoading
  /\ \/ /\ loading' = [loading EXCEPT ![p] = {h \in Hooks : hookRow[h] = "active"}]
        /\ UNCHANGED faults
     \/ /\ faults < MaxFaults
        /\ faults' = faults + 1
        /\ loading' = [loading EXCEPT ![p] = {}]
  /\ UNCHANGED <<tables, cache, writing, dispatcher, history>>

\* ... and, with the registry lock, put them in the cache; then the workers start.
FinishStart(p) ==
  /\ loading[p] # NotLoading
  /\ writing[p] = NoHook
  /\ cache' = [cache EXCEPT ![p] =
                 [h \in Hooks |-> IF h \in loading[p] THEN "active" ELSE @[h]]]
  /\ loading' = [loading EXCEPT ![p] = NotLoading]
  /\ up' = up \cup {p}
  /\ UNCHANGED <<tables, writing, queue, lane, faults, history>>

-----------------------------------------------------------------------------
(* Dispatch, delivery workers and the retry scan.                          *)

\* The unrecorded deliveries of D are given up, unless another copy is under way.
Lost(D) == excused' = excused \cup {d \in D : row[d] = NoRow}

Room(p) == QueueMax - Len(queue[p])
Within(s, n) == SubSeq(s, 1, IF Len(s) <= n THEN Len(s) ELSE n)
IdsOf(s) == {s[i] : i \in DOMAIN s}

Queued(p) == {queue[p][i].id : i \in DOMAIN queue[p]}
InLane(p) == {lane[p][l].id : l \in {m \in Lanes : lane[p][m] # NoCall}}
Held(d) == \E p \in Procs : d \in Queued(p) \cup InLane(p)
Fresh == {d \in Deliveries :
            ~Held(d) /\ row[d] = NoRow /\ d \notin excused \cup acked /\ refused[d] = 0}

\* The deliveries one event may create in p: one for each active cached endpoint.
Batches(p) ==
  LET active == {h \in Hooks : cache[p][h] = "active"}
  IN {b \in [1 .. Cardinality(active) -> Fresh] : {HookOf[d] : d \in IdsOf(b)} = active}

\* dispatch_event: put_nowait until the queue is full; the rest is dropped.
Dispatch(p) ==
  /\ p \in up
  /\ \E b \in Batches(p) :
       LET taken == Within(b, Room(p)) IN
       /\ b # <<>>
       /\ queue' = [queue EXCEPT ![p] =
                      @ \o [i \in DOMAIN taken |-> [id |-> taken[i], attempts |-> 0]]]
       /\ Lost(IdsOf(b) \ IdsOf(taken))
  /\ UNCHANGED <<tables, registry, up, lane, faults, issued, refused, acked>>

\* _delivery_worker takes a copy and _process_delivery looks its endpoint up: a copy
\* whose endpoint is unknown or inactive here is forgotten.
Take(p, l) ==
  LET c == Head(queue[p]) IN
  /\ p \in up /\ lane[p][l] = NoCall /\ queue[p] # <<>>
  /\ queue' = [queue EXCEPT ![p] = Tail(@)]
  /\ IF cache[p][HookOf[c.id]] = "active"
     THEN /\ lane' = [lane EXCEPT ![p][l] =
                        [phase |-> "posting", id |-> c.id, attempts |-> c.attempts + 1]]
          /\ UNCHANGED excused
     ELSE Lost({c.id}) /\ UNCHANGED lane
  /\ UNCHANGED <<tables, registry, up, faults, issued, refused, acked>>

\* Faults: off by one, either way.
VerdictLate(ok, n) ==
  IF ok THEN "delivered" ELSE IF n > MaxAttempts THEN "failed" ELSE "pending"
VerdictEarly(ok, n) ==
  IF ok THEN "delivered" ELSE IF n + 1 >= MaxAttempts THEN "failed" ELSE "pending"

\* The status after request number n.
Verdict(ok, n) ==
  IF ok THEN "delivered" ELSE IF n >= MaxAttempts THEN "failed" ELSE "pending"

\* transport.deliver answers: accepted, or any other status, error or timeout.
Answer(p, l, ok) ==
  LET c == lane[p][l] IN
  /\ c.phase = "posting"
  /\ ok \/ c.id \in Flaky
  /\ lane' = [lane EXCEPT ![p][l] =
                [phase |-> "saving", id |-> c.id, attempts |-> c.attempts,
                 status |-> Verdict(ok, c.attempts)]]
  /\ acked' = IF ok THEN acked \cup {c.id} ELSE acked
  /\ refused' = IF ok \/ refused[c.id] = MaxAttempts THEN refused
                ELSE [refused EXCEPT ![c.id] = @ + 1]
  /\ UNCHANGED <<tables, registry, up, queue, faults, issued, excused>>

\* _process_delivery raises: json.dumps refuses the payload, the endpoint's secret can't be
\* decrypted, or a transport raises, perhaps after the receiver has accepted.  The worker
\* logs it, sleeps and goes on; the copy is gone, and a row keeps its attempts and its date.
Raise(p, l) ==
  LET c == lane[p][l] IN
  /\ c.phase = "posting"
  /\ acked' \in {acked, acked \cup {c.id}}
  /\ Lost({c.id})
  /\ lane' = [lane EXCEPT ![p][l] = NoCall]
  /\ UNCHANGED <<tables, registry, up, queue, faults, issued, refused>>

\* Faults: ON CONFLICT DO NOTHING, or no record of what the first request has settled.
SaveFirstOnly(p, l) ==
  LET c == lane[p][l] IN
  /\ c.phase = "saving"
  /\ row' = IF hookRow[HookOf[c.id]] # "absent" /\ row[c.id] = NoRow
            THEN [row EXCEPT ![c.id] =
                    [status |-> c.status, attempts |-> c.attempts, due |-> FALSE]]
            ELSE row
  /\ IF hookRow[HookOf[c.id]] = "absent" THEN Lost({c.id}) ELSE UNCHANGED excused
  /\ lane' = [lane EXCEPT ![p][l] = NoCall]
  /\ UNCHANGED <<hookRow, registry, up, queue, faults, issued, refused, acked>>

SaveRetriesOnly(p, l) ==
  LET c == lane[p][l] IN
  /\ c.phase = "saving"
  /\ row' = IF hookRow[HookOf[c.id]] # "absent" /\ c.status # "delivered"
            THEN [row EXCEPT ![c.id] =
                    [status |-> c.status, attempts |-> c.attempts, due |-> FALSE]]
            ELSE row
  /\ IF hookRow[HookOf[c.id]] = "absent" THEN Lost({c.id}) ELSE UNCHANGED excused
  /\ lane' = [lane EXCEPT ![p][l] = NoCall]
  /\ UNCHANGED <<hookRow, registry, up, queue, faults, issued, refused, acked>>

\* _save_delivery_record: upsert by id, over whatever another copy has written.
\* Without the endpoint's row the foreign key refuses it, and the error is swallowed.
Save(p, l) ==
  LET c == lane[p][l] IN
  /\ c.phase = "saving"
  /\ IF hookRow[HookOf[c.id]] # "absent"
     THEN /\ row' = [row EXCEPT ![c.id] =
                       [status |-> c.status, attempts |-> c.attempts, due |-> FALSE]]
          /\ UNCHANGED excused
     ELSE Lost({c.id}) /\ UNCHANGED row
  /\ lane' = [lane EXCEPT ![p][l] = NoCall]
  /\ UNCHANGED <<hookRow, registry, up, queue, faults, issued, refused, acked>>

\* The database fails during the save: logged, and the copy is gone.
SaveFails(p, l) ==
  LET c == lane[p][l] IN
  /\ c.phase = "saving"
  /\ faults < MaxFaults
  /\ faults' = faults + 1
  /\ Lost({c.id})
  /\ lane' = [lane EXCEPT ![p][l] = NoCall]
  /\ UNCHANGED <<tables, registry, up, queue, issued, refused, acked>>

\* next_retry_at passes.
ComeDue(d) ==
  /\ row[d].status = "pending" /\ ~row[d].due
  /\ row' = [row EXCEPT ![d].due = TRUE]
  /\ UNCHANGED <<hookRow, registry, dispatcher, faults, history>>

\* _retry_processor: copy the pending rows that are due into the queue, as far as it has
\* room.  The row locks end with the SELECT, and the rows stay as they are.
Scan(p) ==
  LET ripe == {d \in Deliveries : row[d].status = "pending" /\ row[d].due} IN
  /\ p \in up /\ ripe # {} /\ Room(p) > 0
  /\ \E s \in [1 .. Cardinality(ripe) -> ripe] :
       /\ IdsOf(s) = ripe
       /\ queue' = [queue EXCEPT ![p] = @ \o
            [i \in DOMAIN Within(s, Room(p)) |->
               [id |-> s[i], attempts |-> row[s[i]].attempts]]]
  /\ UNCHANGED <<tables, registry, up, lane, faults, history>>

\* WebhookDispatcher.stop cancels workers and scan, wherever they are; the queue stays.
Stop(p) ==
  /\ p \in CanFail \cap up
  /\ faults < MaxFaults
  /\ faults' = faults + 1
  /\ up' = up \ {p}
  /\ lane' = [lane EXCEPT ![p] = [l \in Lanes |-> NoCall]]
  /\ Lost(InLane(p))
  /\ UNCHANGED <<tables, registry, queue, issued, refused, acked>>

\* The process dies, and a new one with an empty memory takes its place.
Crash(p) ==
  /\ p \in CanFail
  /\ faults < MaxFaults
  /\ faults' = faults + 1
  /\ up' = up \ {p}
  /\ lane' = [lane EXCEPT ![p] = [l \in Lanes |-> NoCall]]
  /\ queue' = [queue EXCEPT ![p] = <<>>]
  /\ cache' = [cache EXCEPT ![p] = [h \in Hooks |-> "absent"]]
  /\ writing' = [writing EXCEPT ![p] = NoHook]
  /\ loading' = [loading EXCEPT ![p] = NotLoading]
  /\ Lost(InLane(p) \cup Queued(p))
  /\ UNCHANGED <<tables, issued, refused, acked>>

-----------------------------------------------------------------------------
RegistryStep(p) ==
  \/ p \in Callers /\ \E h \in Hooks : \/ Register(p, h)
                                      \/ \E s \in HookStates : Change(p, h, s)
  \/ WriteHook(p) \/ WriteHookFails(p) \/ BeginStart(p) \/ FinishStart(p)

LaneStep(p, l) ==
  \/ Take(p, l) \/ Raise(p, l) \/ Save(p, l) \/ SaveFails(p, l)
  \/ \E ok \in BOOLEAN : Answer(p, l, ok)

Next ==
  \/ \E p \in Callers : Dispatch(p)
  \/ \E p \in Procs : \/ RegistryStep(p) \/ Scan(p) \/ Stop(p) \/ Crash(p)
                      \/ \E l \in Lanes : LaneStep(p, l)
  \/ \E d \in Deliveries : ComeDue(d)

Spec == Init /\ [][Next]_vars

\* Workers and scans of a running process are asyncio tasks that always run again, a
\* request ends by its timeout, one way or the other, and time passes.  Stop, crash and
\* calls owe nothing.
Fairness ==
  /\ \A p \in Procs : WF_vars(Scan(p))
  /\ \A p \in Procs, l \in Lanes :
       /\ WF_vars(Take(p, l)) /\ WF_vars(Save(p, l))
       /\ WF_vars(Raise(p, l) \/ \E ok \in BOOLEAN : Answer(p, l, ok))
  /\ \A d \in Deliveries : WF_vars(ComeDue(d))

FairSpec == Spec /\ Fairness

-----------------------------------------------------------------------------
(* Properties.                                                             *)

\* What a record says has happened, whatever copies of the delivery are under way in
\* which processes: 'delivered' was accepted by the receiver, 'failed' was refused
\* MaxAttempts times, and no attempt is recorded that was not made (_process_delivery).
RecordsAreEarned ==
  \A d \in Deliveries :
    /\ row[d].status = "delivered" => d \in acked
    /\ row[d].status = "failed" => refused[d] = MaxAttempts
    /\ row[d].status = "pending" => row[d].attempts \in 1 .. refused[d]

\* A dispatched delivery is queued, with a worker or recorded, unless a full queue, an
\* unknown endpoint, an exception in its worker, a failed save, a stop or a crash has cost
\* it: refused or accepted requests are never forgotten otherwise (dispatch_event,
\* _delivery_worker, _process_delivery).
NothingForgotten ==
  \A d \in Deliveries :
    d \in acked \/ refused[d] > 0 => Held(d) \/ row[d] # NoRow \/ d \in excused

\* A recorded delivery does not stay 'pending' for good while some process that knows
\* its endpoint keeps running and can send, although copies overtake and overwrite each
\* other, queues are full, and other processes stop, die or drop every copy they take
\* because delivering raises (_retry_processor).  A process can send when, from some time
\* on, delivering d does not raise there: it has the key of the endpoint's secret.
PendingSettles ==
  \A d \in Deliveries :
    (\E p \in Procs :
       /\ <>[](p \in up /\ cache[p][HookOf[d]] = "active")
       /\ <>[][\A l \in Lanes : Raise(p, l) => lane[p][l].id # d]_vars)
      => []<>(row[d].status # "pending")

=============================================================================
