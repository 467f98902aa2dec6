# Specifications of agno's durable execution and scheduler

agno builds agents, teams and workflows and runs them as services (AgentOS).
The part of it with a distributed protocol of its own is **durable execution**:
a run accepted with `background=true` becomes a *ticket* in a job store that
several replicas share, is claimed by one of them, executed, retried, paused
for a human, continued, cancelled, swept when its replica is lost, and
requeued by operators, while pollers read its *run row* from the session
store and clients on any replica tail its *event stream*. Beside it a
**scheduler** fires runs by cron from a table that several pollers share. This
directory specifies these parts in TLA+, checks them with TLC and proves the
theorems that do not depend on the size of the instance with TLAPS.

Paths below are relative to `libs/agno/agno/`.

## 1. Inventory

### The queue and what it touches

| Component | State | Operations | Interacts by |
|---|---|---|---|
| Ticket store (`job_queue/store.py`, `session.py`; adapters in `db/postgres`, `db/redis`) | one ticket per run: status, attempt, max_attempts, locked_by, locked_at, available_at, created_at, payload (session_seq, continue block) | enqueue, claim/reclaim, heartbeat, complete, retry-or-fail, settle paused, cancel, list/acquire/settle sweep, requeue, continue, retention | atomic calls from every replica |
| Queue worker (`os/job_queue.py`) | per process: `_in_flight`, `_saturated`, wake event, heartbeat thread or task | poll loop (sweep, claim burst, retention, wait), execute a claim, heartbeat, stop and drain | store calls, run-row writes, component calls, event streams |
| Run row (`run/status_persist.py`, `update_run_in_session`) | status, content, queue_attempt | fenced status write, append if absent, the component's own saves | row lock of the session store |
| Worker registration and slot (`run/concurrency.py`) | `_worker_managed_runs` by run id, one semaphore per loop | register for the span of an execution, cancellation cause, acquire a slot against cancellation | process globals |
| Cancellation (`run/cancellation_management`) | intents with a TTL, member runs | register, cancel, check, clean up | shared (Redis) or per process |
| Doors (`os/routers/*`, end of `os/job_queue.py`) | none | accept and prepare, cancel, continue durable or inline, requeue, stats | all of the above |
| Event streams (`os/event_streams`) | log of entries, index counter, status and writer generation per run; the processes that refresh these keys | register, begin attempt, reset, add (take an index, append), complete, reopen, refresh, tail | Redis transactions and scripts, or memory |
| Scheduler (`scheduler`, its router, its tables) | schedules with a lock and next run time; run records; tasks in flight | claim due, execute with retries, release, trigger, patch, enable, disable, delete, stop | database rows, HTTP to the endpoint |

### The rest of the repository

Agents, teams, workflows, models, tools, knowledge and vector databases,
memory, learning, context, sandbox, company tasks, evals, tracing, the database
adapters at large, the HTTP application, the client, `agno_infra`, `agnoctl`
and the cookbook. They are sequential control around calls of external
services, data transformation, I/O or wiring. What the queue observes of an
agent or team run (its checkpoints, its own saves, how it ends, how it answers
a continuation) is modelled; the run itself is not. `PROJECT.json` lists each
with its reason.

### What is hard

* **No transaction spans the ticket and the run row.** Each handler writes one,
  then the other, in an order chosen so that a crash or failure in between can
  be repaired by someone. Every pair of handlers meets in between.
* **A lease proves that heartbeats stopped, not that execution did.** A leg
  that lost its lease goes on, writes the row and settles the ticket.
* **Fences.** Ticket writes are compare-and-sets on (owner, attempt); row
  writes on the attempt, and a COMPLETED or CANCELLED row refuses any other
  status. The component's own saves are fenced through a process-global
  registry.
* **Best effort or gate.** Some failing writes are logged and passed over, some
  stop the handler; which is which decides whether a run can get stuck.
* **Session order.** At most one live turn per session, in acceptance order,
  while retries, pauses, continuations and requeues leave and re-enter the
  queue, and clocks disagree.
* **Cancellation** is a row write, a tombstone and an intent, read at different
  times; intents are never cleared automatically.
* **A slot and a cancel race** inside one event loop: an acquire can be granted
  and not have resumed when its waiter gives up.
* **Indices must go on increasing** over retries, continuations, expired
  counters and writers of an older attempt, since a client filters by the last
  index it has seen; and a sentinel of one attempt lies in the log of the next.
* **A schedule's lock is not refreshed.** An execution that outlasts the grace
  period is taken over while it runs, and at its end arms a firing computed
  from the schedule as it was when claimed, in between of which users edit it.

`PROJECT.json` lists these as hazards, each at its line, with the properties
that catch it or the reason why none does yet.

### What correct means, component by component

* Store: budgets are kept (`max_attempts = 1` means at most once), attempts are
  unique tokens, session order.
* Worker: a ticket and its row agree when the ticket is over; a finished row is
  final; nobody executes a finished run; nothing is left looking alive for
  ever; a replaced leg changes nothing.
* Registry: an executing run's saves carry its attempt.
* Slot: as many executions as permits, no permit and no wake lost, a cancelled
  run does not need a permit to come out.
* Streams: indices increase, no event is published under an index a client is
  past, a tail misses nothing and ends with its run.
* Scheduler: executions overlap only behind a lapsed lock, a firing is claimed
  once, an expired execution does not disturb its successor, every due firing
  is served.

## 2. Modules

| Module | What it is |
|---|---|
| `JobStore` | the ticket store: variable `jobs`, one action per store method, each atomic as it is under the store's lock |
| `JobQueue` | EXTENDS JobStore: legs, sweeps, crashes and doors over the store; the properties of tickets |
| `SessionTurns` | abstract: a session is a line of turns whose head may hold it |
| `JobQueueTurns` | refinement mapping from JobQueue to SessionTurns |
| `QueueWorker` | EXTENDS JobStore: one step per await of the worker's handlers, over tickets, run rows, intents and registrations; refines JobQueue |
| `PollLoop` | EXTENDS JobStore: the process side of a worker, its loop, its runs in flight and stop(); refines JobQueue |
| `EventStream` | the stream of one run: the keys in Redis, the producers' operations, the tails of clients |
| `RunStream` | EXTENDS JobStore and EventStream: streaming legs, sweep and doors of one run writing its ticket, its row and its stream |
| `BackgroundSlot` | the execution slot: an asyncio semaphore raced against cancellation |
| `SqlQueue` | EXTENDS JobQueue: the same tickets on Postgres, where a claim, a submit and a requeue take several statements |
| `Scheduler` | pollers, executions, retries and the doors over the schedules table |
| `MCJobQueue`, `MCSqlQueue`, `MCQueueWorker`, `MCPollLoop`, `MCRunStream`, `MCBackgroundSlot`, `MCScheduler` | instances for TLC |
| `JobStoreProofs` | lemmas on the store's methods, for every module that uses the store |
| `JobQueueProofs`, `SqlQueueProofs`, `QueueWorkerProofs`, `PollLoopProofs`, `RunStreamProofs`, `BackgroundSlotProofs`, `SchedulerProofs` | theorems of the module each is named after |

Operators marked "Mutant" are plausible bugs of the definition that follows
them; each is known to break the property it is listed with in `PROJECT.json`.
They are not used by the specifications.

### JobStore

`jobs` maps a ticket id to a record of the columns the code compares. Clock
readings are abstracted to what they are compared for: `stale` is "locked_at is
a lock grace old", `due` is "available_at has come"; `LeaseLapses` and
`BackoffEnds` are the passage of time. `created` is kept as a number because
the claim orders candidates by it, and is chosen freely at acceptance: it is
read by the submitting replica from its own clock. `SessionOf` and `Serves`
(deployment affinity) are constants since they never change. An action is
enabled exactly when the method answers success.

A ticket removed by retention is "deleted" and its id is never used again.
Idempotency keys are not modelled: a duplicate changes nothing.

### JobQueue

A *leg* is an execution: (worker, job, attempt), from the claim to its ticket
write. Several legs of a ticket may exist. A leg ends by a `complete_job`
(completed, cancelled, failed, paused), a `retry_or_fail_job`, or without a
ticket write. The poll loop sweeps or claims, one ticket at a time, so
`sweeping[w]` is a single ticket. `Lapse` may strike a ticket whose leg is alive and
well, because the heartbeat is only as reliable as the process; `Heartbeat`
refreshes any subset of the worker's legs, because two legs of one run share an
entry of `_in_flight` and the first to end removes it.

### SqlQueue

In memory every method of the store holds one lock. On Postgres three of them
are transactions of several statements in READ COMMITTED, each statement with a
snapshot of its own:

| Actions | Code (`db/postgres/postgres.py`) |
|---|---|
| `Scan`, `LockRow` | the candidate query of `claim_job`: its rows in the snapshot, then `FOR UPDATE SKIP LOCKED LIMIT 1` over them, oldest first |
| `TrySession`, `Recheck`, `Take` | `pg_try_advisory_xact_lock`, the second look at the session, the update with its commit |
| `Submit` or `AskAgain`, `TakeSession`, `Sequence`, `Write` | `enqueue_job` and `requeue_job`: the depth gate or the row `FOR UPDATE`, `pg_advisory_xact_lock`, the session's next number, the write with its commit |
| `ClaimFails`, `DoorFails` | an error anywhere rolls back |
| `OfOneRow` | the methods that write one row, as in JobQueue, but waiting for a locked row |

`claim` and `door` are the transactions, `jobs` is what is committed. Locks are
no variables: they are read off the transactions (`RowFree`, `SessionFree`). A
locking scan looks again at a row that has changed since its snapshot, but at
the rest of the session as the snapshot has it (`BlockedInSnapshot`): this is
why the code looks a second time under the session's lock. A replica that dies
is one whose transaction fails and that takes no further step. Whether a row is
stale or due is judged when it is locked, not by the clock read at the start of
the method, so the model may claim a little more than the code.

### QueueWorker

The control of the handlers of `os/job_queue.py` for agents and teams with a
database that implements `update_run_in_session`:

| Actions | Code |
|---|---|
| `Claim` ... `Return`, `Fail`, `CancelRow` (program counter of a leg) | `_claim_burst`, `_execute_claimed_inner`: retry check, ensure the row, attempt stamp, slot, RUNNING stamp, honor a finished row, execute, settle; its four `except` arms |
| `Finish`, `Checkpoint`, `OwnSave`, `Enter` | the component: its saves through `apersist_worker_owned_run`, a refused or forking `acontinue_run` |
| `List`, `Acquire`, `Reconcile`, `Deface`, `SettleSwept` | `_sweep_exhausted`, `_sweep_job`, `_areconcile_swept_job` |
| `CancelRead`, `CancelRunRow`, `CancelTombstone`, `CancelIntent` | the cancel route and `acancel_queued` |
| `Enqueue`, `Prepare` | the accept seam and `aprepare_accepted_or_abort` |
| `Continue`, `Requeue` | `acontinue_via_queue`; the requeue route |
| `Persist`, `AppendIfAbsent` | `update_run_in_session`, `append_run_to_session_if_absent` of the Postgres adapter |

Row status "fatal" is ERROR with a metadata flag that says not to retry, and
"unseen" is ERROR saved by the error arm of a streaming agent or team, which
yields its error event and no run output: `_execute_streaming` returns nothing
and the worker settles the ticket as completed ("Unseen error" below).
`result = "fork"` is a continuation that runs under a new run id and no longer
touches this row.

`Env` names what the environment may do in an instance:

| Element | Meaning |
|---|---|
| stream | the run is streamed, by an agent or a team |
| cancel, continue, requeue | users and operators use these doors |
| crash | a replica dies (never the last one); a request dies with it |
| drop | a cancellation intent reaches its TTL |
| falseLapse | the lease of a ticket whose leg or sweep is alive may lapse |
| slow | a request, or a sweeper's list, may outlive a lease |
| quickRequeue | an operator may requeue while the leg that cancelled the ticket still writes the row |
| readFault | reading the row fails |
| gateFault | a row write fails at a place where the failure stops the handler, or aborts the acceptance |
| stampFault | a best-effort stamp fails |
| saveFault | the component's own save fails (it is logged and dropped) |
| ticketFault | a ticket write fails or reports failure (the settle of a sweep, which the Postgres adapter answers with no and another may raise from, both) |

A fault is available whenever its element is in `Env`, at each use anew.

### PollLoop

| Variable | Code |
|---|---|
| `pc`, `listed`, `swept` | `_poll_loop` and the list of `_sweep_exhausted` |
| `call`, `got` | a `claim_job` in its thread: its commit and its return are two steps, and after a stop the thread may commit a claim nobody waits for |
| `event`, `saturated` | `_wake`, `_saturated` |
| `tasks`, `inFlight` | the tasks of `_execute_claimed` with their done callback pending or not, and the table `_in_flight` |
| `stop`, `gathered` | `stop()`: cancel the loop, drain, cancel and gather the stragglers |
| `nudges` | a door commits its ticket and calls `wake()` later |

Tasks of one event loop interleave at awaits only, so an action is what happens
between two of them. What a run does is one step from "exec" to "settled"
(the ticket write) and one to "done". The heartbeat is the guard of `Lapse`: the
lease of a ticket in `inFlight` does not lapse. Other replicas are absent;
JobQueue has them, and PollLoop implements JobQueue with one worker. As in
JobQueue, `MaxSeq` stops requeues once a session's numbers have come that far.

### BackgroundSlot

| Variable | Code |
|---|---|
| `limit`, `latest`, `capacity` | the configured limit; the semaphore cached for the loop and what each was made with (a change of the limit makes a new one, and runs already in the old one keep it) |
| `value` | `Semaphore._value` |
| `pc`, `sem` | where a run is in `background_run_slot`, and its semaphore |
| `acq`, `ahead` | the task of `semaphore.acquire()`, and who stood in `_waiters` when it joined |
| `intents` | cancellations that are stored |

An action is what one task does between two awaits. The semaphore belongs to
the standard library and is modelled as CPython 3.11's: a release increments
the value and grants the first waiter that is not done; a granted waiter that
is cancelled before it resumes releases again. Three lines of the code rest on
it: an acquire that has won is released, one that has not is cancelled *and
awaited*, and one that won while it was being cancelled is released too (with
this semaphore that last case does not arise; `GivenUp` keeps it because the
code does).

### EventStream and RunStream

`EventStream` has one action per Redis transaction or script. A position stands
for a stream id: `head` counts the entries deleted, so positions stay
comparable after a reset. `gen` is the writer generation: a lifecycle write
or an append of an attempt older than it is refused. `add_event` is two
operations, `TakeIndex` and `AppendEvent`; an event whose second half is
refused is lost with its index. `tail()` is a replay of the whole stream, then
reads of `ReadCount` entries, a peek behind a sentinel that ends a batch, and,
when a read comes back empty, a probe of the status. `enrolled` is
`_active_runs`: the processes that refresh the keys; when none does, the keys
expire.

In `RunStream` a leg carries the list `todo` of the steps it still has to take,
fixed at its claim and again when the component comes to an end (`Ending`): this
is the order in which `_execute_streaming` and `_execute_claimed_inner` write
stream, row and ticket, which differs from one ending to another. `owed` holds
the stream writes of doors that have committed their ticket. The run row is
what the stream depends on (status, attempt, one past the highest event index),
saved without failure; QueueWorker has the rest.

The component saves its row and *then* yields the event that tells of the
ending (`ahandle_agent_run_paused_stream`, the error and cancel arms of
`_arun_stream`), and an event gets its index only when `add_event` publishes it.
So `Finish` saves the indices of what was published before (`floor` of the leg),
and the last event is a step of its own (`Tell`) that no save records.

| Ending | Code |
|---|---|
| completed, paused, cancelled | the component returns its output with this status |
| error | it returns its output with ERROR (a workflow, whose output the worker reads from the row), to be retried while attempts are left |
| unseen | an agent or a team saves ERROR and returns none |
| aborted | the user's cancel raises `RunCancelledException` to the worker, also before the slot (`Abort`) |
| exception, permanent | the component raises, what a retry may cure or not |
| timeout, drain | the worker interrupts it |

A workflow's error that is classed as not to be retried ends as an error on the
last attempt does and is not an ending of its own.

| Element of `Env` | Meaning |
|---|---|
| cancel, continue, requeue | users and operators use these doors |
| crash | a replica dies (never the last); doors may lose their stream write |
| falseLapse | the lease of a live leg may lapse, so zombies write the stream |
| expire | keys nobody refreshes reach their time to live |
| slowDoor | a door's stream write may come later than the leg it precedes |
| lostCancel | the one lost write of a door that nothing makes up for |
| lateRetry, lateLeg | the keys expire before a fresh retry, or under a leg |
| lostEnd | a leg may die between the ticket it has settled and the row or the sentinel that it has yet to write, and a requeue may come in between |
| unstored | the component does not store its events (`store_events` is off by default), so the row holds no index |

`slowDoor`, `lostCancel`, `lostEnd`, `lateRetry` and `lateLeg` are in no run:
with any of them a property fails, as listed under "Other disagreements".

### Scheduler

| Variable | Code |
|---|---|
| `rows` | the schedules table: enabled, cron (a period, 0 for on demand), next_run_at, locked_by, locked_at; `drifted` says that the endpoint no longer matches the provenance target |
| `execs` | the tasks of `_in_flight`: where each is in `ScheduleExecutor.execute`, the claim it was given, the record of its attempt |
| `pollers` | running, in `stop()`, or gone |
| `door` | the edits between reading the schedule and writing it, with the cron and next firing they computed: a PATCH with a cadence (`Patch`), a PATCH of the timezone alone, which writes the firing but no cron (`Retime`), an enable |
| `last` | history only: the due time and moment of the last claim; the due time is reset by an edit, and by a failed write of a disable that leaves the firing due |

`now` is `int(time.time())`. A cron expression is a number of seconds, and its
firings are the multiples. The database is the synchronous Postgres adapter, on
which an execution runs from one await to the next without a pause of its own
process, so what is interleaved with it are other processes, at each statement.
`release_schedule` and `claim_due_schedule` are single statements or
transactions; `update_schedule_run` swallows its errors and matches nothing
when the schedule was deleted with its runs. The finally clause of `execute` is
`Release`, or, where the next firing cannot be computed, `CronFails`,
`DisableUnarmed` (whose write may fail, and is then passed over) and `Release`
without a next firing, which leaves the one in the row.

## 3. Runs

Bounds common to all: ticket ids, workers and session are small sets of one or
two; `MaxBudget` stops grants (requeue, continue) once a ticket is that many
attempts old; `MaxSeq` stops requeues once a session sequence has grown that
far. Without them a user can requeue for ever. Deadlock is not checked: every
ticket may be over and every grant given.

| Run | Question | Bounds and why they suffice |
|---|---|---|
| `queue_progress` | one live turn per session, in acceptance order; budgets, unique attempts; every ticket ends, is paused or waits behind a paused one | two turns of one session, two workers of which one may crash, each ticket at most two attempts, so that two legs of one ticket live side by side and either turn may be retried, paused, continued and requeued past the other. The timestamps are equal, so the claim looks at the smaller id first, whichever ticket was accepted first. `AcceptanceOrder` is the refinement of SessionTurns |
| `sql_queue` | the same order and budgets when claims, submits and requeues interleave statement by statement | two turns of one session, two replicas and two requests, so that any two transactions meet between any two statements; one attempt and one grant, numbers up to 2 |
| `worker_agreement` | the ticket and the row agree, and a finished row stays, whatever interleaves | one run, streaming or not, two replicas, two attempts and a grant, cancels, crashes, failing reads, gates and ticket writes |
| `worker_tickets` | JobQueue is implemented also when leases lapse over live legs and saves are lost | one run, two replicas |
| `worker_progress` | no row stays PENDING or RUNNING | one run, two replicas, one attempt and two grants, failing stores |
| `poll_loop` | wakes, the table of runs in flight, stop | one process with one slot and two tickets, each executed up to twice: one waits at the cap while the other ends, is settled, swept or granted again |
| `background_slot` | permits, wakes, cancels | three runs and one permit, so that one holds it, one is granted and one waits behind; the limit may be switched off and on |
| `run_stream` | what a client is shown over retries, continuations and zombies | one run on two replicas, two attempts, by retry or by a grant, so that a leg given up for dead lives beside its successor; an event beside the one that tells of the ending, reads of one entry (a tail is thus behind at every distance), pauses, a crash and lapsed leases. The other endings are those of `run_stream_progress`; a finished row would end the obligation of `EventsAreNew` |
| `run_stream_progress` | no leg, fresh or continued, executes behind a sentinel; every tail ends | all ten endings, on the first and on the last of two attempts, with cancels, continuations, requeues, a crash and expiring keys; one event beside that of the ending, no grant once the log has three entries |
| `scheduler` | overlap, release, firings, records, service of due firings | one schedule with a period of two seconds, so that a firing has seconds before and between it, two pollers, two executions alive at once, a grace of one second, a clock of four, two interventions: one to leave a lock behind or to break the cron, one to edit meanwhile or to fail the disable |
| `scheduler_cadence`, `stream_idle_tail` | the two disagreements below | one poller, one execution; one run, one event |

Properties:

* `OneTurnPerSession`, `AcceptanceOrder`: `session.py` promises "at most one
  live turn per session, in acceptance order".
* `WithinBudget`: the claim of a queued ticket does not look at the budget, so
  the promise rests on every way back to queued.
* `LegsAreFenced`: the attempt is a token.
* `CompletedIsCompleted`, `FailedIsVisible`, `PausedIsPaused`: what a ticket's
  status says of the row. `CompletedIsCompleted` excepts the row whose ERROR a
  failing stream kept from the worker. `PausedIsPaused` has two exceptions that the code
  really has: a cancel that has written the row and not reached the ticket,
  and a continuation that forked off a finished run and paused in its turn.
* `FinishedIsFinal`: a COMPLETED or CANCELLED row keeps its status. It is
  checked where leases lapse only when nobody attends to them: a leg
  that lost its registration saves without a fence.
* `ExecutesLiveRun`: the latest leg never executes a finished run afresh.
* `QueueTickets`: QueueWorker and PollLoop implement JobQueue, so everything
  proved of JobQueue holds of their tickets.
* `NoTicketIsLost`, `NoRunIsStuck`: liveness.
* `HolderIsInFlight`, `StoppedIsQuiet`: the table `_in_flight` stands for the
  tasks, for the heartbeat and the drain. They hold as long as a ticket does
  not become claimable before its former task has returned.
* `PromptClaim`: no wake is lost. It is checked without any fairness of the
  poll interval, so the tick cannot make up for a lost wake.
* `PermitsConserved`, `WithinLimit`, `LeavesNothingBehind`, `NoWaitInVain`,
  `CancelEndsTheWait`, `SlotComes`: see BackgroundSlot in section 1.
* `StreamOrdered`, `EventsAreNew`: indices increase in the log, and, while the run
  is not finished, also with respect to what a client has seen of a log that is
  gone; there a continuation may give an index out again that the row does not
  hold ("Short floor" below), and none that it holds. A continuation that starts on a finished row (the pause it continues was
  completed by a leg given up for dead) runs as a fork, and is not seeded.
* `LiveStreamIsOpen`: no leg executes as the newest writer of a stream whose last
  entry is the sentinel of an attempt before. It speaks of fresh executions
  always and of continuations where no lease lapses under a live leg
  (`run_stream` checks the former, `run_stream_progress` both); why is under
  "Other disagreements".
* `SentinelEndsComplete`, `TailsEnd`: a tail that a sentinel ends has everything;
  every tail ends, or waits for a run whose error the worker did not see
  (`Orphaned`, "Unseen error" below).
* `OverlapOnlyAfterGrace`, `OnlyTheHolderReleases`, `OneClaimPerFiring`,
  `OnDemandIsNotRearmed`, `RecordsAreSettled`, `DueIsServed`: see Scheduler in
  section 1. The unless-clauses name what the code gives up: a record whose
  write failed; an edit that writes no cron, an enable or a PATCH of the
  timezone, and had read the old one; the firing that stays due when the
  schedule could neither be re-armed nor disabled. `DueIsServed` says that no
  firing stays due; an execution whose first record cannot be written makes no
  request and is released all the same.

### Fairness

`JobQueue`: a live poll loop keeps sweeping (weak) and claiming (strong: other
replicas and other tickets may disable a particular claim again and again); a
leg ends, by its run timeout at the latest (weak); a lease nobody refreshes
lapses and a backoff passes (weak, time). A sweep that can settle again and
again settles at last (strong): a store that fails for ever is not served by
any code. No door is ever obliged to be used, a crashed worker owes nothing,
and at least one worker survives.

`QueueWorker`: the same for its finer steps. The strong fairness is per place
of the sweep, and says only that a store which answers infinitely often also
answers this sweep. `worker_progress` leaves cancels and swallowed saves out,
because with them the property fails: "Cancel before prepare" and "Lost save"
under "Other disagreements".

`PollLoop`: the loop, its tasks and the doors go on (weak). Nothing is asked of
the tick, of the sleep after an error or of stop().

`BackgroundSlot`: the event loop schedules its tasks and a poll returns (weak).
That executions end is not assumed but a premise of `SlotComes`.

`RunStream`: as JobQueue; a tail reads on, a refresher notices a run that is
over, keys that nobody refreshes expire, a door makes its stream write or dies.

`Scheduler`: a running poller comes round again, executions go on (a request has
a timeout), the clock ticks (all weak). Since the clock of the model stops, a
lock that would lapse behind its end excuses a due firing.

### What the violation runs show

Each states a sentence of the code's own documentation, and TLC finds a behaviour of the
modelled code that contradicts it. `PROJECT.json` quotes them.

| Run | What happens |
|---|---|
| `scheduler_cadence` | a user changes the cadence while an execution runs; at its end the execution arms the next firing of the cadence it was claimed with, which overwrites the deadline of the new one (`execute` in `scheduler/executor.py`, `release_schedule`). The guard against the same race exists for an on-demand schedule only |
| `stream_idle_tail` | a read of the tail times out empty; the run publishes its last events and its sentinel; the tail then looks at the status, finds it terminal and returns without them (`tail` in `os/event_streams/redis.py`) |

### Other disagreements

Behaviours of the models that contradict a comment and have no run of their
own. Where an element of `Env` admits them, the run needs only that element.

* *Cancel before prepare.* Accept commits the ticket; a cancel reads it, finds
  no row to write and tombstones; the accept then appends a PENDING row nobody
  revisits (`os/job_queue.py:1335`, against the comment at 1328).
* *Unseen error* (`stream`, and the ending unseen). The error arms of a streaming
  agent (`agent/_run.py:2577`, 2648, 5705, 5788; the team's alike) save ERROR and
  yield the error event, but no run output. `_execute_streaming` sees no status,
  takes the run for one that will be retried and leaves the stream open
  (`os/job_queue.py:1543`); `_execute_claimed_inner` sees no status either and
  settles the ticket as completed (2451), which nobody retries. The run is ERROR
  under a completed ticket, and as long as the process lives it refreshes the
  keys of a stream that no sentinel will end. "Dead-producer TTL detection bounds the
  wait if no retry comes" says the comment at 1542; the producer is not dead.
* *Lost save* (`saveFault`). The agent's final save fails and is logged; the
  worker completes the ticket over a RUNNING row (1591).
* *Abort after execution.* A prepare that is still failing when the first leg
  has failed and is queued for retry cancels that retry, and tells the
  caller that the run "will not execute" (3106).
* *Swept pause.* The leg paused and its ticket write was lost; the sweep reads
  PAUSED, fails to park the ticket, and goes on to write ERROR over the pause
  (1229 and 1286).
* *Lost entry* ("quick" of PollLoop). A ticket is claimed again by the same
  worker before the task that settled it has returned; that task's done
  callback removes the new task's entry of `_in_flight`, so neither heartbeat
  nor drain sees the new leg (624 and 1050). Its registration, which
  fences its saves, goes the same way.
* *Forked continuation.* A continuation that timed out after its COMPLETED save
  and is requeued runs as a fork under another run id, though "re-enter the
  paused run under the SAME run_id" is the comment of `_execute_claimed_inner`.
* *Requeue after a cancel* asks for no grace because "no zombie attempt can
  exist", though a leg that lost its lease can.
* *Late retry* (`lateRetry`). A fresh retry after the stream has expired starts
  its indices at 0 (1436); a client that reconnects with its last index
  is shown nothing of it.
* *Short floor* (`expire`). The row of a pause is saved before the pause event is
  yielded (`agent/_run.py:354`), and `add_event` gives that event its index
  later, so the highest index in the row is one short at every ordinary pause;
  with `store_events` off, the default (`agent/agent.py:355`), the row holds
  none and there is no floor at all (`os/utils.py:684`). When the stream
  expires, the continuation seeds the counter from the row (`os/job_queue.py:1448`)
  and publishes again under the index of the pause event, or from 0: "resuming
  clients, which dedup by index, silently discard" what is to be new
  (`os/event_streams/base.py:108`). The floor is there to prevent that.
* *Lost end* (`lostEnd`). A leg that the user's cancel, a permanent failure or a
  drain ended settles its ticket before it writes the CANCELLED row or the
  sentinel (2491, 2518, 2555, 2480). If it dies in between nobody sweeps the
  ticket: a stream that a continuation had reopened stays open, and is not
  dead to its tails if another enrolled process lives on. An operator may requeue
  the run before the row is CANCELLED; `reopen_run` then does not reopen a
  stream that says cancelled, and the continuation executes behind the sentinel.
* *Abort beside its successor* (the ending aborted with `falseLapse`). A leg that
  was given up for dead while it waits for its slot is cancelled after a newer
  leg has stamped the row. Its CANCELLED write is refused there, but its sentinel is
  not before the newer leg has begun its attempt on the stream; the newer
  continuation then finds the stream cancelled, does not reopen it and does not
  seed a lost counter. `IndicesAreNew` therefore excludes the two together.
* *Closed continuation* (`falseLapse`, three attempts). The lease of a continuation lapses before
  it starts the stream; the sweep fails or parks its ticket and writes a
  sentinel; the leg, not dead, sets the stream running, which writes no marker.
  The next continuation finds the stream running, does not reopen it
  (`reopen_run` reopens what is paused, failed or unknown) and executes behind
  the sentinel, on which every new tail ends. The comment at 1413 says of a leg
  that was given up for dead that "its sentinel cannot close this leg's tails".
* *Late seam* (`slowDoor`). The continue door's reopen can come after the leg it
  announces has ended, and then leaves the stream pending behind its sentinel.
* *Lost cancel* (`lostCancel`). If the cancel door dies between its ticket and
  its stream write, nobody completes the stream.
* *Edits against PATCH.* The enable route, and a PATCH of the timezone alone,
  compute the next firing of the cron they read and write no cron; a schedule that
  another PATCH makes on-demand in between is armed all the same
  (`os/routers/schedules/router.py:490` and 366; `scheduler/manager.py:48`).
* *Failing disable* (`cron` with `dbFault`). An execution that cannot compute the
  next firing disables the schedule "to prevent it from becoming stuck"
  (`scheduler/executor.py:350`). When that write fails, the error is passed over
  (361, and by the adapter), and the release without a next firing leaves the due one
  in the row and unlocks it: the next poll executes the same firing again.
* *Unsettled run records.* A crash, or a failed write of a record, leaves it
  "running" for ever; nothing sweeps `schedule_runs`.
* *A run polled to its deadline* is retried as a second run while the first is
  still executing.

## 4. Proofs

### JobQueueProofs

`JobQueueProofs` proves of `JobQueue!Spec`, for any sets of tickets, workers
and sessions and any values of the bounds, from the named assumptions of
`JobStore` and `JobQueue` (ticket ids are naturals, `Nobody`, `NoSession` and
`NoJob` are not what they stand in for, attempts and depth are naturals):

| Theorem | States |
|---|---|
| `TypeCorrect` | `[]TypeOK` |
| `BudgetHolds` | `[](WithinBudget /\ BudgetInv)` |
| `OneTurn` | `[](OneTurnPerSession /\ OrderInv)` |
| `TurnsInOrder` | `AcceptanceOrder` |
| `Fenced` | `[](LegsAreFenced /\ LegInv)` |

The argument:

1. `TypeStep` shows types inductive, together with "locked iff running".
2. `StepMoves` classifies each step: it moves at most one ticket, in one of
   nine ways (it starts a leg, gives back, parks, ends, resumes, enters,
   disappears, or stays the same in all that matters), or removes tickets that
   are over. Later proofs split on these moves (`OneMove`) and not on the twenty
   actions of `Next`, so they serve SqlQueue as well.
3. `BudgetInv` strengthens `WithinBudget` by "a queued ticket has an execution
   left": the claim does not check it, so it must be kept by every return to
   the queue.
4. `OrderInv` strengthens `OneTurnPerSession` by distinct sequence numbers
   among the live tickets of a session, of which the holder has the smallest:
   a claim needs its ticket to be the first of the queued, an accepted or requeued ticket
   to come after all of them.
   With it each move is one turn's, or nobody's: a start is `Begin` of the ticket
   that nobody is ahead of, giving back and resuming are `Yield`, an end is
   `Leave`, an entry `Accept` (`TurnsMove`), which is the refinement of
   SessionTurns.
5. `LegInv` adds to `LegsAreFenced` that a leg's ticket was accepted. Attempts
   only grow while a ticket exists and legs are created by claims only, so a
   new leg's attempt is fresh.

### SqlQueueProofs

For any sets of tickets, replicas, requests and sessions, from the assumptions
of `JobQueueProofs`:

| Theorem | States |
|---|---|
| `LocksHold` | `[](SqlTypeOK /\ LockInv)` |
| `SqlBudgetHolds` | `[]WithinBudget` |
| `SqlOneTurn` | `[]OneTurnPerSession` |
| `SqlTurnsInOrder` | `AcceptanceOrder` |
| `SqlFenced` | `[]LegsAreFenced` |

`LockInv` says what the locks are good for. A row, and a session, belong to one
transaction at a time (`RowsExclusive`, `SessionsExclusive`), hence what a
transaction has read of them holds until it writes: a locked candidate can still
be claimed, after the recheck its session is still free (`ClaimInv`); the row
of a requeue is still over with the attempt that was read, and the number it was
given still is the last of its session (`DoorInv`). With `LockInv` the
update of a claim is the move "starts a leg" and the write of a door the move
"enters" of `JobQueueProofs` (`TakeStarts`, `WriteEnters`), every other step
moves a ticket as a step of JobQueue does or none, and the lemmas about moves
(`BudgetMove`, `OrderMove`, `TurnsMove`, `LegMove`) do the rest.

SqlQueue does not implement JobQueue itself: a claim passes over an older ticket
that another transaction has locked, and the depth is not serialized with the
insert. What it implements, and what its callers rely on, is SessionTurns.

### QueueWorkerProofs

For any sets of runs and workers, any budget and any bounds, from the
assumptions of `JobStore` and `QueueWorker`:

| Theorem | Assumes of `Env` | States |
|---|---|---|
| `TypeCorrect` | nothing | `[](TypeOK /\ StoreTypeOK)` |
| `TicketsRefine` | no quickRequeue | `QueueTickets` |
| `CompletedAgrees`, `FailedShows`, `PausedAgrees`, `LiveRunsExecute` | `Orderly` | `[]CompletedIsCompleted`, `[]FailedIsVisible`, `[]PausedIsPaused`, `[]ExecutesLiveRun` |
| `FinishedStays` | `Orderly` | `FinishedIsFinal` |

`TicketsRefine` is the refinement of JobQueue step by step: a leg that has not
written its ticket is a leg of JobQueue, and each step of a handler is one of
JobQueue's or a stutter. `GoesOn`, `Cancels`, `EndsWithWrite` and `EndsWithout`
classify what a leg does to its ticket, so that the proof has four cases and not
one per await. It needs `TicketInv`: a leg that goes on after its ticket write
left a *cancelled* ticket (`LegsInv`), and every entry among the managed runs
has a leg (`OwnedInv`), for through the entry the heartbeat finds its tickets.
Hence the hypothesis: an operator who requeues a cancelled ticket while its leg
still writes the row lets the entry of that leg refresh the lease of the next
claim, for which JobQueue has no leg.

`Orderly` excludes five elements of `Env`; cancels, continuations, requeues,
crashes, expiring intents and failures of every read, gate and ticket write
remain. Each of the five breaks the agreement in the code itself, as TLC finds on
the instance of `worker_agreement` with that element added: *falseLapse* and
*quickRequeue* all five properties (two legs of a run, or a leg and a sweep, write
the row without knowing of each other), *slow* `FailedIsVisible` (a request that
read an earlier state: "Abort after execution"), *stampFault*
`CompletedIsCompleted`, `PausedIsPaused` and `ExecutesLiveRun` (the row does not
carry the attempt that its fences compare), *saveFault* `CompletedIsCompleted`,
`FailedIsVisible` and `PausedIsPaused` (the worker settles over a row that was
never saved: "Lost save").

The inductive `Agreement` says what ticket and row say to each other at *every*
await, which the four invariants say of finished tickets only. `LeaseInv`: a leg
that has not settled holds the lease. `RowFits`: the row as a leg at each of its
places may find it. `AgreeInv`: ticket and row with no leg in between.
`CancelInv`: a cancel that is about to write the row read an attempt before the
one that runs, so the fence refuses it. `SweepInv`: a sweep that acquired a
ticket has it for itself, and what it will settle with is what the row says.

### PollLoopProofs

For any set of tickets, any cap and any budget:

| Theorem | Assumes of `Env` | States |
|---|---|---|
| `TypeCorrect` | nothing | `[](TypeOK /\ StoreTypeOK)` |
| `TicketsRefine` | nothing | `QueueTickets` |
| `HoldersAreListed` | no quick | `[]HolderIsInFlight` |
| `StopIsQuiet` | no quick | `[]StoppedIsQuiet` |

In the refinement a claim whose answer is under way or lost is a leg of
JobQueue as is a task; `FenceInv` keeps them apart by their attempts.
`HolderInv` strengthens `HolderIsInFlight` by what makes it inductive: there is
one task per ticket (`OneTask`), and a ticket with a task that has not returned
is not claimable (`Held`), so the done callback, which removes the entry of its
*run*, removes its own. With *quick* that is not so ("Lost entry"). `DrainInv`
follows the tasks from the end of the drain to the gathering of the stragglers.

### RunStreamProofs

For any sets of workers and clients, any endings, budgets and lengths, where keys
do not expire under a leg that still writes them (no lateLeg, under which the
generation that fences the leg is gone):

| Theorem | States |
|---|---|
| `TypeCorrect` | `[]TypeOK` |
| `IndicesIncrease` | `[]StreamOrdered` |
| `StreamStaysOpen` (no lostEnd either) | `[]LiveStreamIsOpen` |
| `SentinelsEndLast` | `SentinelEndsComplete` |
| `IndicesAreNew` (no lateRetry either, and if a run can be aborted no falseLapse and no lostEnd) | `EventsAreNew` |

The argument:

1. `TypeInv` adds to the types that what a leg has yet to do is in order
   (`WellOrdered`, proved from the lists that `Claim` and `Ending` make), that no
   two legs have one attempt, and that every index in the log is below the
   counter.
2. `OrderInv`: the log is ordered, no entry is of a generation ahead of the
   stream's, and of each leg, that an index it has taken is above all in the
   log while its generation is the stream's (`WriterInv`). `StreamOrdered` is
   not inductive without it: the append of a taken index is two operations
   after the counter, and only the fence keeps another writer out. All writes
   are of one form (`Writes`), so the invariant is proved for that and not for
   each producer. A leg that was given up for dead needs no case of its own.
3. For fresh executions `LiveStreamIsOpen` follows from `OrderInv`: a retry
   clears the stream, and what it then finds is of no attempt before its own
   (`Fresh`).
4. Continuations keep the stream, and need the lease. Without falseLapse
   `LeaseInv` (one leg or one sweep at a time has the lease, and a continuation has
   one attempt), `AbortInv` (the ticket of a leg that the user's cancel ended
   stays cancelled until the leg has written its row), `RowInv` (the row beside ticket and leg: a leg that executes has
   no finished row, what a sweep shows is what the row says) and `OpenInv` are
   inductive. `OpenInv`: a leg that has yet to clear or reopen the stream is
   newer than every entry, behind its marker there is no sentinel of an attempt
   (`Quiet`), and a stream that ends in one is paused, failed or completed, so
   that the continuation will reopen it, or its row is cancelled, so that it
   will refuse to execute.
5. `TailInv`: a tail is past every event up to the position it has looked at. A
   look keeps it only because the log is ordered (`LooksPassNothing`): what
   `tail()` skips for its index is then something it has yielded. What producers
   do to the stream is of three forms (`Grows`), of which only the append adds
   an event, behind all that tails have looked at. A tail ends on a sentinel
   behind which there is nothing, so it has everything.
6. `CountInv`: while the run is not finished, the counter, and an index that a
   current leg has taken, is `New`: every client is below it, or the run
   continues and the row does not hold it. When the keys have expired the counter
   is 0 and that is `Lost`, which says why nobody publishes before the counter is
   seeded again: every leg continues the run and has not come to its reopening,
   and the stream's status admits the reopening, which seeds what the row holds
   (`LegSeeds`). `StampInv` is why the row never gains an index that is yet to be
   published: a leg stamps no index beyond the counter, and saves the row only
   with its attempt on it. `DoorInv` adds what doors and sweeps leave behind. The
   hypotheses are the ways in which the code lets the counter start over
   below its clients ("Late retry", "Lost end", "Abort beside its successor").

### BackgroundSlotProofs

For any finite set of runs, any limits and any number of semaphores
(`SlotAssumption`):

| Theorem | States |
|---|---|
| `PermitsAreConserved` | `[](TypeOK /\ PermitsConserved)` |
| `NothingIsLeftBehind` | `[]LeavesNothingBehind` |
| `LimitHolds` | `[]WithinLimit` |
| `NoWakeIsLost` | `[]NoWaitInVain` |

The inductive invariant `SlotInv` is `TypeOK`, `PlaceInv` (where a run is in
`background_run_slot` determines which states its acquire task can be in),
`FreshInv` (semaphores not made yet have no permits and no users) and
`PermitsConserved`. Conservation needs the other two: a release is right only
because the place says that the permit was out, and a new semaphore starts with
its full capacity because nobody held any of it. `OneHolder` and `WakeKeeps`
account for one permit moving between the value and the holders. `NoWakeIsLost`
is proved from `SlotInv` by an induction of its own.

### SchedulerProofs

For any sets of schedules and pollers, any cadences, grace, attempts and bounds
(`SchedulerAssumption`: periods, grace and attempts are positive naturals, and
there is a schedule and a poller; `NobodyAssumption`: no poller is called
"nobody"):

| Theorem | States |
|---|---|
| `TypeCorrect` | `[]TypeOK` |
| `RecordsSettled` | `[]RecordsAreSettled` |
| `Exclusion` | `[]OverlapOnlyAfterGrace` |
| `HolderReleases` | `OnlyTheHolderReleases` |
| `OnDemandStays` | `OnDemandIsNotRearmed` |
| `FiringsClaimedOnce` | `OneClaimPerFiring` |

The argument:

1. `TypeInv` adds to `TypeOK` what an execution always is (`ExecOK`): which
   places leave a record running, an attempt to spare or nothing to release.
2. `Moves` classifies the steps: a claim, a release, a deletion, the write of an
   edit, or a quiet step, which moves no lock, arms nothing and ends no claim
   but by a crash. What follows splits on these five.
3. `ClaimInv` strengthens the exclusion: an execution has the lock of its
   schedule, taken at the last claim, or its grace had passed when the schedule
   was claimed again (`LockInv`). The overlap property alone is not inductive: it
   does not say that the row still names the execution, so a claim could not
   be seen to wait for it. `HolderReleases` reads off `LockInv` that a release that matches
   the row comes from the last claim.
4. `EditInv` says that an edit without a cadence, its own or the one it read,
   carries no firing.
5. `FiringInv` relates the firing in the row to the last one claimed: a schedule
   whose row still has the firing last claimed is locked, unless it was deleted,
   disabled or edited, or could not be disabled, and until then the cadence an
   execution holds is the one in the row, and an execution that is about to
   release without a next firing has disabled the schedule. That a release arms a later firing rests on
   `NextRunLater` (the next firing is after this second) and on the clock not
   having gone back since the claim.

### What is only model-checked

* Liveness: `NoTicketIsLost`, `NoRunIsStuck`, `TailsEnd`, `SlotComes`,
  `CancelEndsTheWait`, `DueIsServed`, and `PromptClaim`. The proof system has no
  rules for fairness and ENABLED.
* `EventsAreNew` of a finished run and the streams of a *lateLeg*: they do not hold.
* The agreement of QueueWorker where leases lapse over live legs: it does not
  hold there (see `Orderly`), its tickets' behaviour does and is proved.

The types of JobQueue, SqlQueue and Scheduler are proved and not among the
properties of a run.

## 5. Not modelled, and why

Queue and worker:

* Workflows' restore of the paused row, components with a terminal writer of
  their own (external compute), company tasks, media, components without a
  database or without the atomic primitive (the code warns that they are
  unfenced).
* Inline continues; of them `asettle_paused_ticket` appears, in JobQueue. Read, not
  checked: the gate (`araise_if_ticket_owns_continue`, `os/job_queue.py:2669`)
  looks at the ticket once and admits a terminal one, and a requeue asks nothing
  about inline executions, so a requeue after the gate seems to let both
  execute, and the inline one's settling then meets a later pause of the ticket.
* Per-process cancellation managers: the intents are one set, as with Redis.
* Database adapters: the asynchronous twin of the Postgres adapter has the
  statements of SqlQueue and no module of its own; the Redis adapter (WATCH
  and MULTI) is not modelled. Of the Postgres adapter, the idempotency key (a
  duplicate changes nothing, and the loser of a race is rolled back by the
  unique index) and the provisioning of the table are left out. The depth gate
  is not serialized with the insert, so the depth can be exceeded by the
  requests in between, as its docstring says; no property bounds it.
* Time: only the order of events that timeouts allow.

Slot: a run without a run id, which takes the semaphore without the race (the
bare acquire of the library).

Streams: the sentinel that the worker itself writes at a `RunPaused` event of a
harness with native permission requests (`os/job_queue.py:1513`), which goes on
executing behind it; the in-memory stream; trimming of a stream at its maximum length;
faults of Redis; the fallback without Lua. The four keys of a run expire
together, as their refresh sets them together. Registering a run and setting
its status at the start of a leg are one step. `ReadCount` scales the count of
a read with the length of the log.

Scheduler: the asynchronous adapters; the HTTP endpoint (external: it answers,
fails or times out); disabling and deleting are one step, since they use nothing
of what they read but that the schedule exists; the record of a refused
execution is one step. The
trigger *route* executes outside `_in_flight` and is not modelled,
`SchedulePoller.trigger` is. Companies have an executor of their own. With one
schedule the order of claims by due time is trivial, and with two executions
alive the cap on concurrency does not bind.

The rest of the repository: see section 1 and the notes of `PROJECT.json`. Agent,
team and workflow runs are sequential programs around models and tools; their
size, and not their protocol, is why most of the repository's lines are
outside these models.

## 6. Plan

Next, in this order:

1. Proofs: the safety half of the liveness properties, beginning with the wake of
   PollLoop (a wake that was sent is seen by the next look at the queue).
2. The Redis adapter of the ticket store beside SqlQueue.
3. `ContinueDoors`: inline against durable continue, approvals, settling.
4. `CancellationManager` with members and expiry.
