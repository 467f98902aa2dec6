---------------------------- MODULE QueueWorker -----------------------------
(***************************************************************************)
(* One durable run between its ticket and its run row.                     *)
(*                                                                         *)
(* A run has two records: the ticket in the job store (JobStore) and the   *)
(* row that pollers read, in the session store.  No transaction spans the  *)
(* two, so QueueWorker (agno/os/job_queue.py) orders its writes and fences *)
(* them with the attempt.  Every await between two of them is a step here: *)
(* executing a claim, sweeping a lost one, cancelling through the route,   *)
(* preparing the row at accept time, each in the company of the others, of *)
(* legs that were given up for dead, of crashes and of failing stores.     *)
(*                                                                         *)
(* Components are agents and teams with a database that implements         *)
(* update_run_in_session; a shared (Redis) cancellation manager.           *)
(***************************************************************************)
EXTENDS JobStore

CONSTANTS
  NoJob,      \* no ticket under sweep
  MaxBudget,  \* bound: a ticket this many attempts old is granted no more
  MaxSeq,     \* bound: no requeue once a session_seq has reached this
  Env         \* the events of the environment an instance admits

ASSUME NoJobAssumption == NoJob \notin Job
ASSUME EnvAssumption ==
  Env \subseteq {"stream", "cancel", "continue", "requeue", "crash", "drop",
                      "falseLapse", "slow", "quickRequeue",
                      "readFault", "gateFault", "stampFault", "saveFault",
                      "ticketFault"}

VARIABLES
  rows,        \* [Job -> Row], the run rows
  intents,     \* the runs with a cancellation intent
  continuing,  \* the tickets whose payload carries a continue block
  legs,        \* the _execute_claimed tasks
  owned,       \* [Worker -> [Job -> Nat]], the attempt in _worker_managed_runs
               \* (and the task in _in_flight) under the run's id, 0 for none
  sweeps,      \* [Worker -> Sweep], _sweep_job in each poll loop
  cancels,     \* [Job -> Cancel], the cancel route
  preparing,   \* the runs whose accept-time prepare has not returned
  alive

store == <<jobs, rows>>
doors == <<cancels, preparing>>
vars == <<jobs, rows, intents, continuing, legs, owned, sweeps, cancels,
          preparing, alive>>

Finished == {"completed", "cancelled"}
\* "fatal": ERROR with metadata.retryable False; "unseen": ERROR, retryable or
\* not, saved by the error arm of a stream, which yields the event and no output.
RowStatus == {"none", "pending", "running", "paused", "error", "fatal", "unseen"}
               \cup Finished
Row == [status : RowStatus, attempt : Nat]

\* check ... enter: _execute_claimed_inner before the component is called;
\* exec, saved: inside the call; fail, settle: the worker's own handlers.
LegPc == {"check", "ensure", "stamp", "slot", "running", "honor", "enter",
          "exec", "saved", "fail", "settle", "cancelTicket", "cancelRow"}
Result == {"none", "completed", "cancelled", "paused", "error", "fatal",
           "unseen", "permanent", "transient", "fork"}
Leg == [worker : Worker, job : Job, attempt : Nat,
        fresh : BOOLEAN,  \* not a continuation
        last : BOOLEAN,   \* attempt >= max_attempts in the claimed snapshot
        pc : LegPc, result : Result]

SweepPc == {"idle", "listed", "reconcile", "deface", "settle"}
Sweep == [pc : SweepPc, job : Job \cup {NoJob}, attempt : Nat,
          result : {"none", "failed", "paused"} \cup Finished,
          refused : BOOLEAN]  \* the ERROR write was refused once
NoSweep == [pc |-> "idle", job |-> NoJob, attempt |-> 0, result |-> "none",
            refused |-> FALSE]

CancelPc == {"idle", "row", "ticket", "intent"}
Cancel == [pc : CancelPc, attempt : Nat]
NoCancel == [pc |-> "idle", attempt |-> 0]

\* Every type, and the sweeper's and the canceller's records at rest when idle.
TypeOK ==
  /\ jobs \in [Job -> Ticket]
  /\ rows \in [Job -> Row]
  /\ intents \in SUBSET Job /\ continuing \in SUBSET Job
  /\ legs \in SUBSET Leg
  /\ owned \in [Worker -> [Job -> Nat]]
  /\ sweeps \in [Worker -> Sweep]
  /\ cancels \in [Job -> Cancel]
  /\ preparing \in SUBSET Job /\ alive \in SUBSET Worker
  /\ \A w \in Worker : sweeps[w].pc = "idle" <=> sweeps[w] = NoSweep
  /\ \A j \in Job : cancels[j].pc = "idle" <=> cancels[j] = NoCancel

Init ==
  /\ StoreInit
  /\ rows = [j \in Job |-> [status |-> "none", attempt |-> 0]]
  /\ intents = {} /\ continuing = {} /\ legs = {} /\ preparing = {}
  /\ owned = [w \in Worker |-> [j \in Job |-> 0]]
  /\ sweeps = [w \in Worker |-> NoSweep]
  /\ cancels = [j \in Job |-> NoCancel]
  /\ alive = Worker

-----------------------------------------------------------------------------
(* update_run_in_session: the row-locked, attempt-fenced primitive *)

\* Mutant: a finished row is not protected.
RefusesNothing(j, attempt, status) ==
  IF rows[j].status = "none" THEN "missing"
  ELSE IF rows[j].attempt > attempt THEN "stale" ELSE "updated"

\* What it answers; the caller decides what the answer means.
PersistOutcome(j, attempt, status) ==
  IF rows[j].status = "none" THEN "missing"
  ELSE IF rows[j].attempt > attempt THEN "stale"
  ELSE IF rows[j].status \in Finished /\ status # rows[j].status
  THEN "refused" ELSE "updated"

\* The row is written iff the answer is "updated"; a missing row is not
\* created (the whole-session fallback finds no run to change either).
Persist(j, attempt, status) ==
  rows' = IF PersistOutcome(j, attempt, status) = "updated"
          THEN [rows EXCEPT ![j] = [status |-> status, attempt |-> attempt]]
          ELSE rows

\* append_run_to_session_if_absent with a PENDING run of queue_attempt 0.
AppendIfAbsent(j) ==
  rows' = IF rows[j].status = "none"
          THEN [rows EXCEPT ![j].status = "pending"] ELSE rows

-----------------------------------------------------------------------------
(* Legs *)

Goto(l, pc, result) ==
  legs' = (legs \ {l}) \cup {[l EXCEPT !.pc = pc, !.result = result]}

\* The task ends: worker_managed_execution and _discard pop the entries of the
\* run, which are keyed by the run alone.
EndOf(l) ==
  /\ legs' = legs \ {l}
  /\ owned' = [owned EXCEPT ![l.worker][l.job] = 0]

LegStep(l, pc) == l \in legs /\ l.pc = pc

\* What a leg leaves alone unless it says otherwise.
Quiet == UNCHANGED <<continuing, sweeps, doors, alive>>

Claim(w, j) ==
  /\ w \in alive /\ sweeps[w].pc = "idle"
  /\ ClaimJob(w, j)
  /\ LET attempt == jobs[j].attempt + 1
         fresh == j \notin continuing
     IN  /\ legs' = legs \cup
              {[worker |-> w, job |-> j, attempt |-> attempt, fresh |-> fresh,
                last |-> attempt >= jobs[j].maxAttempts,
                pc |-> IF ~fresh THEN "stamp"
                       ELSE IF attempt > 1 THEN "check" ELSE "ensure",
                result |-> "none"]}
         /\ owned' = [owned EXCEPT ![w][j] = attempt]
  /\ UNCHANGED <<rows, intents>> /\ Quiet

Heartbeat(w) ==
  /\ w \in alive
  /\ HeartbeatJobs(w, {j \in Job : owned[w][j] > 0})
  /\ UNCHANGED <<rows, intents, legs, owned>> /\ Quiet

\* The leg ends with the ticket left to the lease.
Leave(l) == EndOf(l) /\ UNCHANGED <<store, intents>> /\ Quiet

\* A ticket write of the leg, which is its last step.  A refused or failing
\* one is logged and otherwise the same.
Settling(l, write) ==
  /\ \/ write
     \/ /\ "ticketFault" \in Env \/ ~OwnsLease(l.worker, l.job, l.attempt)
        /\ UNCHANGED jobs
  /\ EndOf(l) /\ UNCHANGED rows /\ Quiet

\* Mutant: the settle presents the attempt it finds on the ticket.
SettleAnyAttempt(l, status) ==
  Settling(l, CompleteJob(l.worker, l.job, jobs[l.job].attempt, status))

\* _asettle_ticket and _aretry_or_fail_ticket (with a delay of zero).
Settle(l, status) ==
  Settling(l, CompleteJob(l.worker, l.job, l.attempt, status))
RetryOrFail(l) ==
  Settling(l, RetryOrFailJob(l.worker, l.job, l.attempt, TRUE))

\* _ahonor_non_retryable_row, before a fresh run is executed again.
Check(l) ==
  /\ LegStep(l, "check")
  /\ \/ "readFault" \in Env /\ Leave(l)
     \/ /\ \/ /\ rows[l.job].status \in {"fatal", "unseen"}
              /\ Goto(l, "settle", "permanent")
           \/ rows[l.job].status # "fatal" /\ Goto(l, "ensure", "none")
        /\ UNCHANGED <<store, intents, owned>> /\ Quiet

\* aprepare_queued_run: no execution without a row.
Ensure(l) ==
  /\ LegStep(l, "ensure")
  /\ \/ "gateFault" \in Env /\ Leave(l)
     \/ /\ AppendIfAbsent(l.job) /\ Goto(l, "stamp", "none")
        /\ UNCHANGED <<jobs, intents, owned>> /\ Quiet

\* The attempt is stamped on the row, with no status; best effort.
Stamp(l) ==
  /\ LegStep(l, "stamp")
  /\ Goto(l, "slot", "none")
  /\ \/ rows' = IF rows[l.job].status = "none" \/ rows[l.job].attempt > l.attempt
                THEN rows ELSE [rows EXCEPT ![l.job].attempt = l.attempt]
     \/ "stampFault" \in Env /\ UNCHANGED rows
  /\ UNCHANGED <<jobs, intents, owned>> /\ Quiet

\* No component is found, or one that cannot be built; or the worker is drained
\* while the run waits for its slot.
NotExecutable(l) ==
  /\ LegStep(l, "slot")
  /\ \/ Leave(l)
     \/ /\ \E result \in {"permanent", "transient"} :
             Goto(l, IF result = "permanent" \/ l.last
                     THEN "fail" ELSE "settle", result)
        /\ UNCHANGED <<store, intents, owned>> /\ Quiet

\* background_run_slot: waiting polls the intent.
Slot(l) ==
  /\ LegStep(l, "slot")
  /\ IF l.job \in intents THEN Goto(l, "cancelTicket", "none")
     ELSE Goto(l, IF l.fresh THEN "running" ELSE "enter", "none")
  /\ UNCHANGED <<store, intents, owned>> /\ Quiet

\* Mutant: the refusal of the RUNNING stamp is not looked at.
AfterRunningStamp(l) == "exec"

AfterStamp(l) ==
  IF PersistOutcome(l.job, l.attempt, "running") = "refused"
  THEN "honor" ELSE "exec"

\* A fresh run is shown as RUNNING; best effort, but a finished row is honored.
Running(l) ==
  /\ LegStep(l, "running")
  /\ \/ Persist(l.job, l.attempt, "running") /\ Goto(l, AfterStamp(l), "none")
     \/ "stampFault" \in Env /\ UNCHANGED rows /\ Goto(l, "exec", "none")
  /\ UNCHANGED <<jobs, intents, owned>> /\ Quiet

\* _ahonor_terminal_row; the row is finished and can no longer change.
Honor(l) ==
  /\ LegStep(l, "honor")
  /\ \/ "readFault" \in Env /\ Leave(l)
     \/ rows[l.job].status \in Finished
        /\ Settle(l, rows[l.job].status) /\ UNCHANGED intents

\* Mutant: a cancelled run is continued all the same.
EnterAnyway(l) ==
  /\ LegStep(l, "enter") /\ Goto(l, "exec", "none")
  /\ UNCHANGED <<store, intents, owned>> /\ Quiet

\* acontinue_run: a cancelled run is refused, a completed one is forked into
\* a run of its own, any other is re-entered.
Enter(l) ==
  /\ LegStep(l, "enter")
  /\ CASE rows[l.job].status = "cancelled" -> Goto(l, "fail", "permanent")
       [] rows[l.job].status = "completed" -> Goto(l, "exec", "fork")
       [] OTHER -> Goto(l, "exec", "none")
  /\ UNCHANGED <<store, intents, owned>> /\ Quiet

-----------------------------------------------------------------------------
(* Inside the component: its own saves and its ways out *)

\* apersist_worker_owned_run: fenced with the attempt registered in this
\* process for the run; without a registration, a bare upsert.  A refusal and a
\* raised error drop the save (aupsert_run).
OwnSave(l, status) ==
  LET attempt == owned[l.worker][l.job] IN
  \/ IF attempt > 0 THEN Persist(l.job, attempt, status)
     ELSE rows' = [rows EXCEPT ![l.job] = [status |-> status, attempt |-> 0]]
  \/ "saveFault" \in Env /\ UNCHANGED rows

\* A checkpoint of the running component.
Checkpoint(l) ==
  /\ LegStep(l, "exec") /\ l.result # "fork"
  /\ OwnSave(l, "running")
  /\ UNCHANGED <<jobs, intents, legs, owned>> /\ Quiet

Finish(l, result) ==
  /\ LegStep(l, "exec")
  /\ \/ result \in {"completed", "paused", "error", "fatal"}
     \/ result = "unseen" /\ "stream" \in Env
     \/ result = "cancelled" /\ l.job \in intents
  /\ IF l.result = "fork" THEN UNCHANGED rows ELSE OwnSave(l, result)
  /\ Goto(l, "saved", result)
  /\ UNCHANGED <<jobs, intents, owned>> /\ Quiet

\* acleanup_run, then the ticket is settled from the result that came back; for
\* a stream that failed none did, and the ticket is completed.
Return(l) ==
  /\ LegStep(l, "saved")
  /\ CASE l.result = "error" -> RetryOrFail(l)
       [] l.result = "fatal" -> Settle(l, "failed")
       [] l.result = "unseen" -> Settle(l, "completed")
       [] OTHER -> Settle(l, l.result)
  /\ intents' = intents \ {l.job}

\* A timeout, the drain of a stopping worker or an exception.  The first two
\* also strike between the run's own save and its return.
Interrupt(l, result) ==
  /\ l \in legs /\ l.pc \in {"exec", "saved"}
  /\ result = "transient" \/ (result = "permanent" /\ l.pc = "exec")
  /\ Goto(l, IF result = "permanent" \/ l.last
             THEN "fail" ELSE "settle", result)
  /\ intents' = intents \ {l.job}
  /\ UNCHANGED <<store, owned>> /\ Quiet

\* Mutant: a failing persist does not stop the ticket write.
FailAnyway(l) ==
  /\ LegStep(l, "fail")
  /\ \/ Persist(l.job, l.attempt, "error")
     \/ "gateFault" \in Env /\ UNCHANGED rows
  /\ Goto(l, "settle", l.result)
  /\ UNCHANGED <<jobs, intents, owned>> /\ Quiet

\* _persist_run_error gates the terminal ticket write; every answer passes.
Fail(l) ==
  /\ LegStep(l, "fail")
  /\ \/ /\ Persist(l.job, l.attempt, "error") /\ Goto(l, "settle", l.result)
        /\ UNCHANGED <<jobs, intents, owned>> /\ Quiet
     \/ "gateFault" \in Env /\ Leave(l)

SettleFailed(l) ==
  /\ LegStep(l, "settle")
  /\ IF l.result = "permanent" THEN Settle(l, "failed") ELSE RetryOrFail(l)
  /\ UNCHANGED intents

\* RunCancelledException: the ticket first, then the row, whatever became of
\* the other.
CancelTicket(l) ==
  /\ LegStep(l, "cancelTicket")
  /\ \/ /\ CompleteJob(l.worker, l.job, l.attempt, "cancelled")
        /\ Goto(l, "cancelRow", "cancelled")
     \/ /\ "ticketFault" \in Env \/ ~OwnsLease(l.worker, l.job, l.attempt)
        /\ UNCHANGED jobs /\ Goto(l, "cancelRow", "none")
  /\ UNCHANGED <<rows, intents, owned>> /\ Quiet

CancelRow(l) ==
  /\ LegStep(l, "cancelRow")
  /\ \/ Persist(l.job, l.attempt, "cancelled")
     \/ "gateFault" \in Env /\ UNCHANGED rows
  /\ EndOf(l) /\ UNCHANGED <<jobs, intents>> /\ Quiet

Execute(l) ==
  \/ Check(l) \/ Ensure(l) \/ Stamp(l) \/ NotExecutable(l) \/ Slot(l)
  \/ Running(l) \/ Honor(l) \/ Enter(l) \/ Return(l) \/ Fail(l)
  \/ SettleFailed(l) \/ CancelTicket(l) \/ CancelRow(l)
  \/ \E result \in Result : Finish(l, result) \/ Interrupt(l, result)

-----------------------------------------------------------------------------
(* The sweep: own the ticket, compare with the row, only then fail it *)

SweepStep(w, pc) == sweeps[w].pc = pc

SweepGoto(w, pc, result) ==
  sweeps' = [sweeps EXCEPT ![w].pc = pc, ![w].result = result]

\* Mutant: the ticket stays noted after its sweep.
SweepEndsKeepingTicket(w) == sweeps' = [sweeps EXCEPT ![w].pc = "idle"]

SweepEnds(w) == sweeps' = [sweeps EXCEPT ![w] = NoSweep]

SweepQuiet == UNCHANGED <<intents, continuing, legs, owned, doors, alive>>

\* sweep_exhausted_jobs: the job record the sweep works with from here on.
List(w, j) ==
  /\ w \in alive /\ SweepStep(w, "idle")
  /\ Sweepable(j)
  /\ sweeps' = [sweeps EXCEPT ![w] =
       [NoSweep EXCEPT !.pc = "listed", !.job = j, !.attempt = jobs[j].attempt]]
  /\ UNCHANGED store /\ SweepQuiet

\* acquire_sweep, lost if the ticket is no longer stale.
Acquire(w) ==
  /\ SweepStep(w, "listed")
  /\ \/ AcquireSweep(w, sweeps[w].job) /\ SweepGoto(w, "reconcile", "none")
     \/ /\ ~Sweepable(sweeps[w].job) \/ "ticketFault" \in Env
        /\ SweepEnds(w) /\ UNCHANGED jobs
  /\ UNCHANGED rows /\ SweepQuiet

\* Where a sweep goes that could not settle the ticket to match the row: to
\* the ERROR write, unless that was refused already.
Unreconciled(w) ==
  IF sweeps[w].refused THEN SweepEnds(w) ELSE SweepGoto(w, "deface", "none")

\* _areconcile_swept_job reads the row.
Reconcile(w) ==
  /\ SweepStep(w, "reconcile")
  /\ LET status == rows[sweeps[w].job].status IN
     \/ /\ status \in Finished \cup {"paused"}
        /\ SweepGoto(w, "settle", status)
     \/ /\ status \notin Finished \cup {"paused"} \/ "readFault" \in Env
        /\ Unreconciled(w)
  /\ UNCHANGED store /\ SweepQuiet

\* The fenced ERROR write, with the attempt that was listed.
Deface(w) ==
  LET j == sweeps[w].job IN
  /\ SweepStep(w, "deface")
  /\ \/ /\ Persist(j, sweeps[w].attempt, "error")
        /\ IF PersistOutcome(j, sweeps[w].attempt, "error") = "refused"
           THEN sweeps' = [sweeps EXCEPT ![w].pc = "reconcile", ![w].refused = TRUE]
           ELSE SweepGoto(w, "settle", "failed")
     \/ "gateFault" \in Env /\ SweepEnds(w) /\ UNCHANGED rows
  /\ UNCHANGED jobs /\ SweepQuiet

\* settle_swept_job.  Refused after a reconciliation, the row counts as
\* unreconciled; refused after the ERROR write, the sweep is over, as it is when
\* the store raises instead of answering no.
SettleSwept(w) ==
  LET j == sweeps[w].job result == sweeps[w].result IN
  /\ SweepStep(w, "settle")
  /\ \/ SettleSweptJob(w, j, result) /\ SweepEnds(w)
     \/ /\ "ticketFault" \in Env \/ jobs[j].status # "running"
             \/ jobs[j].lockedBy # w
        /\ \/ result # "failed" /\ Unreconciled(w)
           \/ (result = "failed" \/ "ticketFault" \in Env) /\ SweepEnds(w)
        /\ UNCHANGED jobs
  /\ UNCHANGED rows /\ SweepQuiet

SweepOn(w) == Acquire(w) \/ Reconcile(w) \/ Deface(w) \/ SettleSwept(w)

-----------------------------------------------------------------------------
(* The doors *)

DoorQuiet == UNCHANGED <<legs, owned, sweeps, alive>>

Enqueue(j) ==
  /\ \E created \in Stamps : EnqueueJob(j, created)
  /\ preparing' = preparing \cup {j}
  /\ UNCHANGED <<rows, intents, continuing, cancels>> /\ DoorQuiet

\* aprepare_accepted_or_abort: the row is appended, or the waiting ticket is
\* cancelled; or the accepting replica dies.
Prepare(j) ==
  /\ j \in preparing /\ preparing' = preparing \ {j}
  /\ \/ AppendIfAbsent(j) /\ UNCHANGED jobs
     \/ "gateFault" \in Env /\ CancelJob(j) /\ UNCHANGED rows
     \/ UNCHANGED store
  /\ UNCHANGED <<intents, continuing, cancels>> /\ DoorQuiet

CancelGoto(j, pc) == cancels' = [cancels EXCEPT ![j].pc = pc]

\* The cancel route: acancel_queued reads the ticket,
CancelRead(j) ==
  /\ "cancel" \in Env /\ cancels[j].pc = "idle" /\ jobs[j].status # "absent"
  /\ cancels' = [cancels EXCEPT ![j] =
       IF jobs[j].status \in {"queued", "paused"}
       THEN [pc |-> "row", attempt |-> jobs[j].attempt]
       ELSE [pc |-> "intent", attempt |-> 0]]
  /\ UNCHANGED <<store, intents, continuing, preparing>> /\ DoorQuiet

\* writes the row first and goes on to the ticket whatever the answer,
CancelRunRow(j) ==
  /\ cancels[j].pc = "row"
  /\ \/ Persist(j, cancels[j].attempt, "cancelled") /\ CancelGoto(j, "ticket")
     \/ "gateFault" \in Env /\ UNCHANGED rows /\ CancelGoto(j, "intent")
  /\ UNCHANGED <<jobs, intents, continuing, preparing>> /\ DoorQuiet

\* and tombstones a ticket that waits, not necessarily as it did when read.
CancelTombstone(j) ==
  /\ cancels[j].pc = "ticket"
  /\ \/ CancelJob(j)
     \/ /\ "ticketFault" \in Env \/ jobs[j].status \notin {"queued", "paused"}
        /\ UNCHANGED jobs
  /\ CancelGoto(j, "intent")
  /\ UNCHANGED <<rows, intents, continuing, preparing>> /\ DoorQuiet

\* The route registers the intent in any case; or its replica died before.
CancelIntent(j) ==
  /\ cancels[j].pc # "idle"
  /\ \/ cancels[j].pc = "intent" /\ intents' = intents \cup {j}
     \/ "crash" \in Env /\ UNCHANGED intents
  /\ cancels' = [cancels EXCEPT ![j] = NoCancel]
  /\ UNCHANGED <<store, continuing, preparing>> /\ DoorQuiet

\* acontinue_via_queue: the caller saw a paused row some time before.
Continue(j) ==
  /\ "continue" \in Env /\ jobs[j].attempt < MaxBudget
  /\ ContinueJob(j)
  /\ continuing' = continuing \cup {j}
  /\ UNCHANGED <<rows, intents, doors>> /\ DoorQuiet

\* POST /queue/jobs/{id}/requeue, with or without clear_cancellation.  An
\* operator who is not quick finds no leg still writing its row.
Requeue(j) ==
  /\ "requeue" \in Env /\ jobs[j].attempt < MaxBudget
  /\ "quickRequeue" \in Env \/ \A l \in legs : l.job = j => l.pc # "cancelRow"
  /\ \A k \in Job : jobs[k].seq < MaxSeq
  /\ RequeueJob(j)
  /\ intents' \in {intents, intents \ {j}}
  /\ UNCHANGED <<rows, continuing, doors>> /\ DoorQuiet

-----------------------------------------------------------------------------
(* Time and failure *)

\* The intent outlives its TTL.
IntentExpires(j) ==
  /\ "drop" \in Env /\ j \in intents
  /\ intents' = intents \ {j}
  /\ UNCHANGED <<store, continuing, legs, owned, sweeps, doors, alive>>

\* Somebody refreshes the lease of j, or took it a moment ago.
Attended(j) ==
  \/ owned[jobs[j].lockedBy][j] > 0
  \/ sweeps[jobs[j].lockedBy].job = j

\* A lease lapses when nobody attends to it, or falsely.  A request is over, and
\* a sweeper through with its list, long before a lease is, unless they are slow.
Lapse(j) ==
  /\ LeaseLapses(j)
  /\ "falseLapse" \in Env \/ ~Attended(j)
  /\ \/ "slow" \in Env
     \/ /\ j \notin preparing /\ cancels[j] = NoCancel
        /\ \A w \in Worker : sweeps[w].pc = "listed" => sweeps[w].job # j
  /\ UNCHANGED <<rows, intents, continuing, legs, owned, sweeps, doors, alive>>

Crash(w) ==
  /\ "crash" \in Env /\ w \in alive /\ alive \ {w} # {}
  /\ alive' = alive \ {w}
  /\ legs' = {l \in legs : l.worker # w}
  /\ owned' = [owned EXCEPT ![w] = [j \in Job |-> 0]]
  /\ sweeps' = [sweeps EXCEPT ![w] = NoSweep]
  /\ UNCHANGED <<store, intents, continuing, doors>>

Next ==
  \/ \E w \in Worker, j \in Job : Claim(w, j) \/ List(w, j)
  \/ \E w \in Worker : Heartbeat(w) \/ SweepOn(w) \/ Crash(w)
  \/ \E l \in legs : Execute(l) \/ Checkpoint(l)
  \/ \E j \in Job :
       \/ Enqueue(j) \/ Prepare(j) \/ Continue(j) \/ Requeue(j)
       \/ CancelRead(j) \/ CancelRunRow(j) \/ CancelTombstone(j) \/ CancelIntent(j)
       \/ IntentExpires(j) \/ Lapse(j)

Spec == Init /\ [][Next]_vars

\* A sweep step that does not give the sweep up over a failing store.
SweepLands(w) == SweepOn(w) /\ (sweeps'[w] = NoSweep => jobs' # jobs)

\* A live poll loop sweeps and claims; a leg takes its next step, by its run
\* timeout at the latest; an unattended lease lapses; a store that answers
\* infinitely often also answers this sweep.  No door has to be used, and an
\* accepted run need not be prepared by the replica that accepted it.
Fairness ==
  /\ \A w \in Worker :
       /\ SF_vars(\E j \in Job : Claim(w, j))
       /\ WF_vars(\E j \in Job : List(w, j))
       /\ WF_vars(SweepOn(w))
       /\ \A pc \in SweepPc : SF_vars(sweeps[w].pc = pc /\ SweepLands(w))
  /\ \A w \in Worker, j \in Job :
       WF_vars(\E l \in legs : l.worker = w /\ l.job = j /\ Execute(l))
  /\ \A j \in Job : WF_vars(Lapse(j) /\ ~Attended(j)) /\ WF_vars(Prepare(j))

FairSpec == Spec /\ Fairness

-----------------------------------------------------------------------------
(* What the two records say to each other *)

\* A COMPLETED or CANCELLED row keeps its status, whichever of its writers comes
\* late: a leg, its own saves, a sweep, a cancel, a prepare.
FinishedIsFinal ==
  [][\A j \in Job : rows[j].status \in Finished
                     => rows'[j].status = rows[j].status]_vars

\* A completed ticket stands over a COMPLETED row, or over the ERROR that a
\* failing stream has kept from the worker: no cancel, sweep, zombie or retry
\* gets between the run's own save and the settle, and none undoes it.
CompletedIsCompleted ==
  \A j \in Job : jobs[j].status = "completed" =>
    rows[j].status \in {"completed", "unseen"}

\* A failed ticket never leaves pollers a row that looks alive
\* (_persist_run_error: "never a stuck RUNNING/PENDING").
FailedIsVisible ==
  \A j \in Job : jobs[j].status = "failed" =>
    rows[j].status \notin {"pending", "running", "paused"}

\* A paused ticket can be continued: its row is PAUSED, or CANCELLED by a
\* cancel that has not reached the ticket, or COMPLETED when a continuation
\* forked off a finished run has paused in its turn.
PausedIsPaused ==
  \A j \in Job : jobs[j].status = "paused" =>
    \/ rows[j].status \in {"paused", "cancelled"}
    \/ rows[j].status = "completed" /\ j \in continuing

\* The latest leg of a run never executes it afresh once its row is finished,
\* whoever finished it: a cancel that overtook the claim, or an earlier leg.
ExecutesLiveRun ==
  \A l \in legs :
    l.pc = "exec" /\ l.fresh /\ l.attempt = jobs[l.job].attempt
      => rows[l.job].status \notin Finished

\* No poller waits forever for a run that was durably accepted: its row does
\* not stay PENDING or RUNNING, whatever crashes or faults came in between.
NoRunIsStuck ==
  \A j \in Job : rows[j].status \in {"pending", "running"}
                   ~> rows[j].status \notin {"pending", "running"}

\* A leg is over for the queue once its ticket write has landed.
Queue == INSTANCE JobQueue WITH
  legs <- {[worker |-> l.worker, job |-> l.job, attempt |-> l.attempt] :
             l \in {m \in legs : ~(m.pc = "cancelRow" /\ m.result = "cancelled")}},
  sweeping <- [w \in Worker |->
                 IF sweeps[w].pc = "listed" THEN NoJob ELSE sweeps[w].job]

\* Whatever runs, rows and stores do, the tickets behave as JobQueue says; so
\* what is proved of JobQueue holds here.
QueueTickets == Queue!Spec
=============================================================================
