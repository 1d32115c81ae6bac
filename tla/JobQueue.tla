------------------------------ MODULE JobQueue ------------------------------
(***************************************************************************)
(* Soniq's worker fleet over the job store: worker processes with their    *)
(* concurrency slots (core/worker.py), the path of one job through a slot  *)
(* (core/processor.py), and the producers and operators that enqueue,      *)
(* cancel and delete jobs.                                                 *)
(*                                                                         *)
(* A worker may crash at any step, may stall long enough to be taken for   *)
(* dead and then go on, may lose a database write, and may be told to shut *)
(* down while its jobs run.  A slot without a worker is a run_once call:   *)
(* it claims without a worker id, sends no heartbeat and has no shutdown.  *)
(***************************************************************************)
EXTENDS JobStore

CONSTANTS
  Slots,        \* the worker_task coroutines of every worker, and run_once calls
  WorkerOf,     \* the worker of each slot; NoWorker for run_once
  NoJob,        \* an empty slot
  SyncJobs,     \* jobs whose handler is a plain function, run in a thread
  Snoozers,     \* jobs whose handler may return Snooze
  MaxAttempts,  \* max_attempts of every job: retries + 1
  CanStop,      \* workers that may be told to shut down
  CanCrash,     \* workers that may be killed
  CanStall,     \* workers whose heartbeats may stop while they run
  MaxFaults     \* bound: how many database writes may fail, key clashes apart

ASSUME QueueAssumption ==
  /\ WorkerOf \in [Slots -> Workers \cup {NoWorker}]
  /\ NoJob \notin Jobs
  /\ MaxAttempts \in Nat \ {0}
  /\ MaxFaults \in Nat

VARIABLES
  proc,    \* what each worker process is doing
  pc,      \* what each slot is doing
  held,    \* the job each slot claimed
  token,   \* the attempt count of that claim: claimed_attempts
  nacks,   \* jobs a worker in FORCE_TIMEOUT_PATH still has to nack
  faults,  \* database writes that have raised
  spent    \* history: the attempts of each job that were executed and count as used

slotVars == <<pc, held, token>>
vars == <<storeVars, proc, slotVars, nacks, faults, spent>>

-----------------------------------------------------------------------------
ProcStates == {"new", "up", "draining", "forced", "stopped", "crashed"}
SlotStates == {"idle", "claimed", "running", "recorded", "exited"}

TypeOK ==
  /\ StoreTypeOK
  /\ proc \in [Workers -> ProcStates]
  /\ pc \in [Slots -> SlotStates]
  /\ held \in [Slots -> Jobs \cup {NoJob}]
  /\ token \in [Slots -> Nat]
  /\ nacks \in [Workers -> SUBSET Jobs]
  /\ faults \in Nat
  /\ spent \in [Jobs -> SUBSET Nat]
  /\ \A s \in Slots : pc[s] \in {"claimed", "running", "recorded"} => held[s] \in Jobs

Init ==
  /\ StoreInit
  /\ proc = [w \in Workers |-> "new"]
  /\ pc = [s \in Slots |-> "idle"]
  /\ held = [s \in Slots |-> NoJob]
  /\ token = [s \in Slots |-> 0]
  /\ nacks = [w \in Workers |-> {}]
  /\ faults = 0
  /\ spent = [j \in Jobs |-> {}]

-----------------------------------------------------------------------------
SlotsOf(w) == {s \in Slots : WorkerOf[s] = w}
RunOnce(s) == WorkerOf[s] = NoWorker

\* The slot may still write the outcome of its claim.
Live(s) == pc[s] \in {"claimed", "running"}

\* The slot's in-flight entry names its job, from dispatch until the processor returns.
Populated(s) == pc[s] \in {"running", "recorded"}

\* The slot's claim is the one its row is at.
Holds(s, j) == Live(s) /\ held[s] = j /\ Matches(j, token[s])

\* The slots of S end their worker_task, the others stay as they are.
Exit(S) ==
  /\ pc' = [s \in Slots |-> IF s \in S THEN "exited" ELSE pc[s]]
  /\ held' = [s \in Slots |-> IF s \in S THEN NoJob ELSE held[s]]
  /\ token' = [s \in Slots |-> IF s \in S THEN 0 ELSE token[s]]

\* process_job_via_backend returns or raises.  The worker_task loops, or ends when the
\* shutdown event is set.
Release(s) ==
  /\ pc' = [pc EXCEPT ![s] = IF RunOnce(s) \/ proc[WorkerOf[s]] = "up"
                             THEN "idle" ELSE "exited"]
  /\ held' = [held EXCEPT ![s] = NoJob]
  /\ token' = [token EXCEPT ![s] = 0]

-----------------------------------------------------------------------------
(* Producers and operators.                                                *)

Enqueue(j) == Insert(j) /\ UNCHANGED <<proc, slotVars, nacks, faults, spent>>
Elapse(j) == ComeDue(j) /\ UNCHANGED <<proc, slotVars, nacks, faults, spent>>
Cancel(j) == CancelJob(j) /\ UNCHANGED <<proc, slotVars, nacks, faults, spent>>
Delete(j) == DeleteJob(j) /\ UNCHANGED <<proc, slotVars, nacks, faults, spent>>

-----------------------------------------------------------------------------
(* The path of a job through a slot.                                       *)

\* Fault: the slot keeps the attempt count from before the claim.
ClaimStale(s, j) ==
  /\ pc[s] = "idle"
  /\ ~RunOnce(s) => proc[WorkerOf[s]] \in {"up", "draining"}
  /\ FetchAndLock(j, WorkerOf[s])
  /\ pc' = [pc EXCEPT ![s] = "claimed"]
  /\ held' = [held EXCEPT ![s] = j]
  /\ token' = [token EXCEPT ![s] = attempts[j]]
  /\ UNCHANGED <<proc, nacks, faults, spent>>

\* Fetch a due job.  A slot that is idle while its worker drains has a fetch under way
\* that began before the signal.
Claim(s, j) ==
  /\ pc[s] = "idle"
  /\ ~RunOnce(s) => proc[WorkerOf[s]] \in {"up", "draining"}
  /\ FetchAndLock(j, WorkerOf[s])
  /\ pc' = [pc EXCEPT ![s] = "claimed"]
  /\ held' = [held EXCEPT ![s] = j]
  /\ token' = [token EXCEPT ![s] = attempts[j] + 1]
  /\ UNCHANGED <<proc, nacks, faults, spent>>

\* The claim can't be run: its attempt is past max_attempts, or no handler has its name.
\* Dead-letter it without dispatch.
Reject(s) ==
  /\ pc[s] = "claimed"
  /\ MarkDeadLetter(held[s], token[s]) \/ Dropped(held[s], token[s])
  /\ Release(s)
  /\ UNCHANGED <<proc, nacks, faults, spent>>

\* Fill the in-flight slot and call the handler.
Begin(s) ==
  /\ pc[s] = "claimed"
  /\ token[s] <= MaxAttempts
  /\ pc' = [pc EXCEPT ![s] = "running"]
  /\ spent' = [spent EXCEPT ![held[s]] = @ \cup {token[s]}]
  /\ UNCHANGED <<storeVars, proc, held, token, nacks, faults>>

\* The handler ends and the outcome write commits.  The in-flight slot stays filled until
\* the hooks and the metrics sink have run.
Recorded(s) ==
  /\ pc[s] = "running"
  /\ pc' = [pc EXCEPT ![s] = "recorded"]
  /\ UNCHANGED <<held, token, proc, nacks, faults>>

Succeed(s) ==
  /\ Recorded(s)
  /\ MarkDone(held[s], token[s]) \/ Dropped(held[s], token[s])
  /\ UNCHANGED spent

\* Snooze gives the attempt back.
Snooze(s) ==
  /\ Recorded(s)
  /\ held[s] \in Snoozers
  /\ \/ /\ Reschedule(held[s], token[s], IF token[s] > 0 THEN token[s] - 1 ELSE 0)
        /\ spent' = [spent EXCEPT ![held[s]] = @ \ {token[s]}]
     \/ Dropped(held[s], token[s]) /\ UNCHANGED spent

\* The handler raised or timed out, attempts are left and the policy gave a delay.
Retry(s) ==
  /\ Recorded(s)
  /\ token[s] < MaxAttempts
  /\ Requeue(held[s], token[s], token[s]) \/ Dropped(held[s], token[s])
  /\ UNCHANGED spent

\* The attempts are used up, the retry policy declined, or the arguments were invalid.
GiveUp(s) ==
  /\ Recorded(s)
  /\ MarkDeadLetter(held[s], token[s]) \/ Dropped(held[s], token[s])
  /\ UNCHANGED spent

\* The processor's finally clause empties the in-flight slot.
Clear(s) ==
  /\ pc[s] = "recorded"
  /\ Release(s)
  /\ UNCHANGED <<storeVars, proc, nacks, faults, spent>>

\* Requeueing the row raises UniqueViolation.  The worker logs it and goes on to the next
\* fetch; the row stays 'processing'.
Clash(s) ==
  /\ pc[s] = "running"
  /\ Matches(held[s], token[s]) /\ ~CanQueue({held[s]})
  /\ token[s] < MaxAttempts \/ held[s] \in Snoozers
  /\ faults' = faults + 1
  /\ Release(s)
  /\ UNCHANGED <<storeVars, proc, nacks, spent>>

\* A write, or a metrics call before dispatch, raises: same path as Clash.
Fault(s) ==
  /\ Live(s)
  /\ faults < MaxFaults
  /\ faults' = faults + 1
  /\ Release(s)
  /\ UNCHANGED <<storeVars, proc, nacks, spent>>

\* The process of a run_once call dies; a later call starts with an empty slot.
Abort(s) ==
  /\ RunOnce(s) /\ pc[s] # "idle"
  /\ pc' = [pc EXCEPT ![s] = "idle"]
  /\ held' = [held EXCEPT ![s] = NoJob]
  /\ token' = [token EXCEPT ![s] = 0]
  /\ UNCHANGED <<storeVars, proc, nacks, faults, spent>>

-----------------------------------------------------------------------------
(* The life of a worker process.                                           *)

Start(w) ==
  /\ proc[w] = "new"
  /\ RegisterWorker(w)
  /\ proc' = [proc EXCEPT ![w] = "up"]
  /\ UNCHANGED <<slotVars, nacks, faults, spent>>

\* update_heartbeat, until in-flight jobs have drained.  A worker whose row was deleted
\* registers again.
Heartbeat(w) ==
  /\ proc[w] \in {"up", "draining", "forced"}
  /\ Touch(w) \/ RegisterWorker(w)
  /\ UNCHANGED <<proc, slotVars, nacks, faults, spent>>

Age(w) ==
  /\ w \in CanStall \/ proc[w] \in {"stopped", "crashed"}
  /\ BeatExpires(w)
  /\ UNCHANGED <<proc, slotVars, nacks, faults, spent>>

\* _maybe_cleanup runs at the end of a worker_task's iteration, while it holds the
\* maintenance lock: delete_expired_jobs, then cleanup_stale_workers.
InMaintenance(w) ==
  /\ proc[w] \in {"up", "draining", "forced"}
  /\ \E s \in SlotsOf(w) : pc[s] \in {"idle", "exited"}

Expire(w) ==
  /\ InMaintenance(w)
  /\ \E R \in SUBSET Jobs : DeleteExpired(R)
  /\ UNCHANGED <<proc, slotVars, nacks, faults, spent>>

Sweep(w) ==
  /\ InMaintenance(w)
  /\ CleanupStaleWorkers
  /\ UNCHANGED <<proc, slotVars, nacks, faults, spent>>

\* SIGTERM: DRAINING.  Slots between jobs end now or have a last fetch under way.
Drain(w) ==
  /\ w \in CanStop
  /\ proc[w] = "up"
  /\ proc' = [proc EXCEPT ![w] = "draining"]
  /\ \E S \in SUBSET {s \in SlotsOf(w) : pc[s] = "idle"} : Exit(S)
  /\ UNCHANGED <<storeVars, nacks, faults, spent>>

\* That last fetch finds nothing.
FetchNothing(s) ==
  /\ pc[s] = "idle" /\ ~RunOnce(s)
  /\ proc[WorkerOf[s]] = "draining"
  /\ Exit({s})
  /\ UNCHANGED <<storeVars, proc, nacks, faults, spent>>

\* shutdown_timeout passes: FORCE_TIMEOUT_PATH.  Tasks whose slot names an async job are
\* cancelled and their jobs noted for a nack, tasks with an empty slot are cancelled, and
\* tasks with a sync job are left to their threads.
ForceTimeout(w) ==
  LET syncs == {s \in SlotsOf(w) : Populated(s) /\ held[s] \in SyncJobs}
      asyncs == {s \in SlotsOf(w) : Populated(s)} \ syncs
  IN /\ proc[w] = "draining"
     /\ \E s \in SlotsOf(w) : pc[s] # "exited"
     /\ proc' = [proc EXCEPT ![w] = "forced"]
     /\ nacks' = [nacks EXCEPT ![w] = {held[s] : s \in asyncs}]
     /\ Exit(SlotsOf(w) \ syncs)
     /\ UNCHANGED <<storeVars, faults, spent>>

\* One nack_job of the list; the worker logs one that fails and goes on.
Nack(w, j) ==
  /\ j \in nacks[w]
  /\ nacks' = [nacks EXCEPT ![w] = @ \ {j}]
  /\ \/ NackJob(j) /\ UNCHANGED faults
     \/ faults < MaxFaults /\ faults' = faults + 1 /\ UNCHANGED storeVars
  /\ UNCHANGED <<proc, slotVars, spent>>

\* sync_handler_grace_seconds passes: asyncio.wait_for cancels the gather of the sync
\* tasks, so no outcome is written for them although their threads run on.
GraceExpires(w) ==
  /\ proc[w] = "forced" /\ nacks[w] = {}
  /\ \E s \in SlotsOf(w) : pc[s] # "exited"
  /\ Exit(SlotsOf(w))
  /\ UNCHANGED <<storeVars, proc, nacks, faults, spent>>

\* Every task ended: stop the heartbeat and mark_worker_stopped, whose failure is ignored.
Stop(w) ==
  /\ proc[w] \in {"draining", "forced"} /\ nacks[w] = {}
  /\ \A s \in SlotsOf(w) : pc[s] = "exited"
  /\ proc' = [proc EXCEPT ![w] = "stopped"]
  /\ Touch(w) \/ UNCHANGED storeVars
  /\ UNCHANGED <<slotVars, nacks, faults, spent>>

\* SIGKILL, out of memory, lost host.
Crash(w) ==
  /\ w \in CanCrash
  /\ proc[w] \in {"up", "draining", "forced"}
  /\ proc' = [proc EXCEPT ![w] = "crashed"]
  /\ nacks' = [nacks EXCEPT ![w] = {}]
  /\ Exit(SlotsOf(w))
  /\ UNCHANGED <<storeVars, faults, spent>>

-----------------------------------------------------------------------------
ClientStep(j) == Enqueue(j) \/ Elapse(j) \/ Cancel(j) \/ Delete(j)

SlotStep(s) ==
  \/ \E j \in Jobs : Claim(s, j)
  \/ Reject(s) \/ Begin(s)
  \/ Succeed(s) \/ Snooze(s) \/ Retry(s) \/ GiveUp(s)
  \/ Clear(s) \/ Clash(s) \/ Fault(s) \/ Abort(s) \/ FetchNothing(s)

WorkerStep(w) ==
  \/ Start(w) \/ Heartbeat(w) \/ Age(w) \/ Expire(w) \/ Sweep(w)
  \/ Drain(w) \/ ForceTimeout(w) \/ GraceExpires(w) \/ Stop(w) \/ Crash(w)
  \/ \E j \in Jobs : Nack(w, j)

Next ==
  \/ \E j \in Jobs : ClientStep(j)
  \/ \E s \in Slots : SlotStep(s)
  \/ \E w \in Workers : WorkerStep(w)

Spec == Init /\ [][Next]_vars

\* What the program's scheduling gives: delays pass, started slots go on, handlers end,
\* heartbeats of dead workers age, and every worker_task iteration passes _maybe_cleanup,
\* which runs again each cleanup_interval (strong fairness: between two iterations the
\* slot is busy).
Fairness ==
  /\ \A j \in Jobs : WF_vars(Elapse(j))
  /\ \A s \in Slots :
       /\ WF_vars(~RunOnce(s) /\ \E j \in Jobs : Claim(s, j))
       /\ WF_vars(Reject(s) \/ Begin(s))
       /\ WF_vars(Succeed(s) \/ Retry(s) \/ GiveUp(s) \/ Clash(s))
       /\ WF_vars(Clear(s) \/ FetchNothing(s))
  /\ \A w \in Workers :
       /\ WF_vars(Start(w))
       /\ WF_vars(Heartbeat(w))
       /\ WF_vars(proc[w] \in {"stopped", "crashed"} /\ Age(w))
       /\ WF_vars(ForceTimeout(w))
       /\ WF_vars(\E j \in Jobs : Nack(w, j))
       /\ WF_vars(Stop(w))
       /\ SF_vars(Sweep(w))

FairSpec == Spec /\ Fairness

-----------------------------------------------------------------------------
(* Safety.                                                                 *)

\* The claim fence of _claim_guard: at most one slot can write the outcome of a job,
\* whatever stalls, sweeps, snoozes, nacks and retries came before.
OneHolder ==
  \A j \in Jobs, s, t \in Slots : Holds(s, j) /\ Holds(t, j) => s = t

\* A claim that lost its row never gets it back: a late outcome stays a no-op even when
\* later snoozes count the row's attempts down again.
LostClaimStaysLost ==
  [][\A s \in Slots :
       Live(s) /\ Live(s)' /\ ~Matches(held[s], token[s])
         => ~Matches(held[s], token[s])']_vars

\* No attempt of a job is executed twice, so crashes, stalls and requeues together can't
\* run a job more than max_attempts times, snoozed executions apart.
AttemptRunsOnce ==
  \A s \in Slots : pc[s] = "claimed" => token[s] \notin spent[held[s]]

\* A finished or cancelled row is final: no late outcome, nack or sweep moves it, and only
\* deletion removes it.  A deleted row doesn't come back.
SettledIsFinal ==
  [][\A j \in Jobs :
       /\ status[j] \in {"done", "cancelled"} => status'[j] \in {status[j], "gone"}
       /\ status[j] = "gone" => status'[j] = "gone"]_vars

\* The strengthening of OneHolder and AttemptRunsOnce that steps preserve.  Live claims of
\* one job are pairwise different, none is ahead of a row that can still be claimed, and
\* neither is an executed attempt; so the next claim of the row is new to all of them.
ClaimInv ==
  /\ \A s, t \in Slots : Live(s) /\ Live(t) /\ held[s] = held[t] /\ s # t
                           => token[s] # token[t]
  /\ \A s \in Slots : Live(s) => status[held[s]] # "unborn"
  /\ \A s \in Slots : Live(s) /\ status[held[s]] \in {"queued", "processing"}
                        => token[s] <= attempts[held[s]]
  /\ \A j \in Jobs : status[j] \in {"unborn", "queued", "processing"}
                       => \A n \in spent[j] : n <= attempts[j]
  /\ \A j \in dead : status[j] = "gone"
  /\ AttemptRunsOnce

\* The rows that a running worker has forgotten: they are 'processing' under its id, its
\* heartbeat keeps every sweep away from them, and none of its slots holds them.
Forgotten ==
  {j \in Jobs :
     /\ status[j] = "processing"
     /\ \E w \in Workers :
          owner[j] = w /\ proc[w] = "up" /\ \A s \in SlotsOf(w) : ~Holds(s, j)}

\* A running worker forgets a row only when a write for it has raised, and one row for each
\* such write, whether the connection failed or the row's dedup key had been enqueued again;
\* stalls, sweeps, nacks and the shutdown of others leave none behind.  For fleets without
\* run_once calls: their rows keep the id of an earlier worker.
OneRowPerLostWrite == Cardinality(Forgotten) <= faults

\* The jobs' lives and claims as the abstract lease sees them.
Life == [j \in Jobs |-> IF j \in dead THEN "dead" ELSE status[j]]
Holders == [j \in Jobs |-> {s \in Slots : Holds(s, j)}]

Lease == INSTANCE ClaimLease WITH life <- Life, holders <- Holders

\* The queue implements a lease service that hands each job to one slot at a time, lets
\* only that slot settle it, and may revoke a lease at any time.
ImplementsLease == Lease!Spec

-----------------------------------------------------------------------------
(* Liveness.                                                               *)

Settled(j) == status[j] \in {"done", "cancelled", "gone"}

\* docs/production/reliability.md: every job that is enqueued gets an outcome, as long as
\* one worker keeps running and handlers end.  A write that raises may keep a job from it
\* only while the worker that forgot it runs: once that one stops or dies, the job comes
\* back and is settled.
EveryJobSettles == \A j \in Jobs : status[j] = "queued" ~> Settled(j) \/ [](j \in Forgotten)

\* The jobs that a stopped or crashed worker held are released by a later sweep.
DeadWorkersReleaseJobs ==
  \A j \in Jobs, w \in Workers :
    status[j] = "processing" /\ owner[j] = w /\ proc[w] \in {"stopped", "crashed"}
      ~> status[j] # "processing"

\* docs/production/reliability.md: once a worker is detected as stale, its in-flight jobs
\* are reset to 'queued'.
StaleWorkerJobsReset ==
  \A j \in Jobs, w \in Workers :
    status[j] = "processing" /\ owner[j] = w /\ beat[w] = "stale" ~> status[j] # "processing"

=============================================================================
