----------------------------- MODULE Scheduler ------------------------------
(***************************************************************************)
(* The cron scheduler: pollers (agno/scheduler/poller.py) that claim due   *)
(* schedules from the database, the executions they spawn (executor.py),   *)
(* and the doors through which schedules are edited meanwhile              *)
(* (os/routers/schedules/router.py, scheduler/manager.py).                 *)
(*                                                                         *)
(* Nothing refreshes the lock of a claim.  An execution that outlasts the  *)
(* grace period is taken over while it is still running, by its own poller *)
(* perhaps, and what it writes at its end it computed from the schedule as *)
(* it was when it was claimed.                                             *)
(*                                                                         *)
(* The database is the synchronous Postgres adapter: a poller's process    *)
(* runs from one await to the next, and other processes between any two of *)
(* its statements.                                                         *)
(***************************************************************************)
EXTENDS Naturals, FiniteSets

CONSTANTS
  Schedule,
  Poller,         \* worker ids; one poller per process
  Period,         \* cron expressions, as the number of seconds between firings
  Grace,          \* lock_grace_seconds of claim_due_schedule
  MaxAttempts,    \* max_retries + 1
  MaxConcurrent,  \* in-flight executions a poller claims up to
  Env,            \* what the environment may do, see below
  MaxTime,        \* bound: the clock stops here
  MaxSlots,       \* bound: executions alive at once
  MaxUpsets       \* bound: interventions of the environment

\* edit     a user changes cadence, pauses, resumes and deletes schedules
\* trigger  a user fires one by hand
\* drift    an endpoint stops matching the provenance target, or is repaired
\* stop     pollers stop and start again
\* crash    processes die
\* dbFault  writes about executions fail
\* cron     the next firing cannot be computed
EnvElement == {"edit", "trigger", "drift", "stop", "crash", "dbFault", "cron"}

ASSUME SchedulerAssumption ==
  /\ Period \subseteq Nat \ {0}
  /\ Grace \in Nat \ {0}
  /\ MaxAttempts \in Nat \ {0}
  /\ MaxConcurrent \in Nat \ {0}
  /\ Env \subseteq EnvElement
  /\ MaxTime \in Nat \ {0}
  /\ MaxSlots \in Nat /\ MaxUpsets \in Nat
  /\ Schedule # {} /\ Poller # {}

ASSUME NobodyAssumption == "nobody" \notin Poller

VARIABLES
  now,      \* int(time.time())
  rows,     \* the schedules table
  execs,    \* executions, each in a slot
  pollers,  \* [Poller -> {"up", "stopping", "down"}]
  door,     \* [Schedule -> the edits between their read and their write]
  last,     \* history: when a schedule was last claimed, and for which firing,
            \* unless it has been edited since, or left due because the write
            \* that should have disabled it failed
  upsets    \* counts the interventions, for their bound

vars == <<now, rows, execs, pollers, door, last, upsets>>

Slot == 1 .. MaxSlots
Nobody == "nobody"
Never == 0        \* next_run_at NULL
OnDemand == 0     \* cron_expr ""
Cron == {OnDemand} \cup Period

Row == [exists : BOOLEAN, enabled : BOOLEAN, cron : Cron, next : Nat,
        lockedBy : Poller \cup {Nobody}, lockedAt : Nat, drifted : BOOLEAN]

\* answered: the request ended in success, paused or cancelled, which all end
\* the execution; cancelled: the shutdown ended it.
RunStatus == {"none", "running", "answered", "failed", "cancelled"}

\* claimed  its task is spawned        disabling   drift was recorded
\* calling  its request is out         closing     in the finally clause
\* waiting  between two attempts       uncomputed  there, next_run_for raised
\*                                     unarmed     and the disable was tried
\* run is the record of the attempt in hand, none before the first or when it
\* was deleted; lost says that a write of a record has failed.
Exec == [pc : {"free", "claimed", "calling", "waiting", "disabling", "closing",
               "uncomputed", "unarmed"},
         schedule : Schedule, poller : Poller, cron : Cron, lockedAt : Nat,
         drifted : BOOLEAN, release : BOOLEAN, attempt : 0 .. MaxAttempts,
         run : RunStatus, lost : BOOLEAN]

\* What an edit is about to write: a patch its cron, a retime none, and both
\* their next firing if they arm; an enable always arms.
Edit == [kind : {"patch", "retime", "enable"}, cron : Cron, arms : BOOLEAN,
         next : Nat]

\* NULL locks go together, and a lock is never from the future.
TypeOK ==
  /\ now \in 1 .. MaxTime
  /\ rows \in [Schedule -> Row]
  /\ \A s \in Schedule :
       /\ rows[s].lockedBy = Nobody <=> rows[s].lockedAt = 0
       /\ rows[s].lockedAt <= now
  /\ execs \in [Slot -> Exec]
  /\ pollers \in [Poller -> {"up", "stopping", "down"}]
  /\ door \in [Schedule -> SUBSET Edit]
  /\ last \in [Schedule -> [due : Nat, at : Nat]]
  /\ upsets \in 0 .. MaxUpsets

\* Mutant: a firing in this very second counts as the next.
NextRunInclusive(cron) ==
  IF cron = OnDemand THEN Never ELSE ((now + cron - 1) \div cron) * cron

\* compute_next_run: the first firing after this second; next_run_for: none
\* for an on-demand schedule.
NextRun(cron) ==
  IF cron = OnDemand THEN Never ELSE (now \div cron + 1) * cron

Unclaimed == [due |-> Never, at |-> 0]

Free ==
  [pc |-> "free", schedule |-> CHOOSE s \in Schedule : TRUE,
   poller |-> CHOOSE p \in Poller : TRUE, cron |-> OnDemand, lockedAt |-> 0,
   drifted |-> FALSE, release |-> FALSE, attempt |-> 0,
   run |-> "none", lost |-> FALSE]

Init ==
  /\ now = 1
  /\ rows \in [Schedule ->
                {[exists |-> TRUE, enabled |-> TRUE, cron |-> c,
                  next |-> NextRun(c),
                  lockedBy |-> Nobody, lockedAt |-> 0, drifted |-> FALSE] :
                 c \in Period}]
  /\ execs = [i \in Slot |-> Free]
  /\ pollers = [p \in Poller |-> "up"]
  /\ door = [s \in Schedule |-> {}]
  /\ last = [s \in Schedule |-> Unclaimed]
  /\ upsets = 0

\* The environment intervenes, which Env must allow.
Upset(kind) ==
  /\ kind \in Env
  /\ upsets < MaxUpsets
  /\ upsets' = upsets + 1

\* A write fails, or does not.
Faulty(fault) ==
  IF fault THEN Upset("dbFault") ELSE UNCHANGED upsets

-----------------------------------------------------------------------------
(* Claiming *)

Live(i) == execs[i].pc # "free"

InFlight(p) == {i \in Slot : Live(i) /\ execs[i].poller = p}

Due(s) ==
  /\ rows[s].exists /\ rows[s].enabled
  /\ rows[s].next # Never /\ rows[s].next <= now

\* Mutant: a lock is never taken over.
ClaimableIfUnlocked(s) == Due(s) /\ rows[s].lockedBy = Nobody

\* Mutant: the lock is not looked at.
ClaimableRegardless(s) == Due(s)

Claimable(s) ==
  /\ Due(s)
  /\ rows[s].lockedBy # Nobody => rows[s].lockedAt + Grace <= now

Oldest(s) ==
  \A t \in Schedule : Claimable(t) => rows[s].next <= rows[t].next

\* The slots are bookkeeping: the lowest idle one is used.
IsNextSlot(i) ==
  /\ ~Live(i)
  /\ \A j \in Slot : j < i => Live(j)

Spawn(i, p, s, lockedAt, release) ==
  execs' = [execs EXCEPT ![i] =
    [Free EXCEPT !.pc = "claimed", !.schedule = s, !.poller = p,
                 !.cron = rows[s].cron, !.lockedAt = lockedAt,
                 !.drifted = rows[s].drifted, !.release = release]]

\* One turn of the loop of _poll_once: claim_due_schedule, one transaction that
\* takes the schedule that has been due longest, and a task for it.
Claim(p, s, i) ==
  /\ pollers[p] = "up"
  /\ Cardinality(InFlight(p)) < MaxConcurrent
  /\ Claimable(s) /\ Oldest(s)
  /\ IsNextSlot(i)
  /\ rows' = [rows EXCEPT ![s].lockedBy = p, ![s].lockedAt = now]
  /\ Spawn(i, p, s, now, TRUE)
  /\ last' = [last EXCEPT ![s] = [due |-> rows[s].next, at |-> now]]
  /\ UNCHANGED <<now, pollers, door, upsets>>

\* SchedulePoller.trigger: no claim, no cap, no release.
Trigger(p, s, i) ==
  /\ Upset("trigger")
  /\ pollers[p] = "up"
  /\ rows[s].exists /\ rows[s].enabled
  /\ IsNextSlot(i)
  /\ Spawn(i, p, s, 0, FALSE)
  /\ UNCHANGED <<now, rows, pollers, door, last>>

-----------------------------------------------------------------------------
(* ScheduleExecutor.execute *)

\* Mutant: a failure is not recorded.
RecordedUnlessFailed(i, status, fault) ==
  IF fault THEN [execs[i] EXCEPT !.lost = TRUE]
  ELSE [execs[i] EXCEPT !.run = IF @ = "none" \/ status = "failed" THEN @ ELSE status]

\* update_schedule_run swallows its errors, and finds nothing to update when
\* the schedule has been deleted with its runs.
Recorded(i, status, fault) ==
  IF fault THEN [execs[i] EXCEPT !.lost = TRUE]
  ELSE [execs[i] EXCEPT !.run = IF @ = "none" THEN @ ELSE status]

Becomes(i, exec) == execs' = [execs EXCEPT ![i] = exec]

\* create_schedule_run of the next attempt, and its request.  An error of the
\* insert ends the execution.
StartAttempt(i) ==
  \E fault \in BOOLEAN :
    /\ Faulty(fault)
    /\ Becomes(i, IF fault THEN [execs[i] EXCEPT !.pc = "closing"]
                  ELSE [execs[i] EXCEPT !.pc = "calling", !.attempt = @ + 1,
                                        !.run = "running"])

Begin(i) ==
  /\ execs[i].pc = "claimed" /\ ~execs[i].drifted
  /\ StartAttempt(i)
  /\ UNCHANGED <<now, rows, pollers, door, last>>

\* The endpoint no longer matches the provenance target: the refusal is
\* recorded as a failed run, and the schedule will be disabled.
Refuse(i) ==
  /\ execs[i].pc = "claimed" /\ execs[i].drifted
  /\ \E fault \in BOOLEAN :
       /\ Faulty(fault)
       /\ Becomes(i, IF fault THEN [execs[i] EXCEPT !.pc = "closing"]
                     ELSE [execs[i] EXCEPT !.pc = "disabling", !.attempt = 1,
                                           !.run = "failed"])
  /\ UNCHANGED <<now, rows, pollers, door, last>>

Disabled(s, fault) ==
  IF fault \/ ~rows[s].exists THEN rows
  ELSE [rows EXCEPT ![s].enabled = FALSE]

DisableDrifted(i) ==
  /\ execs[i].pc = "disabling"
  /\ \E fault \in BOOLEAN :
       Faulty(fault) /\ rows' = Disabled(execs[i].schedule, fault)
  /\ Becomes(i, [execs[i] EXCEPT !.pc = "closing"])
  /\ UNCHANGED <<now, pollers, door, last>>

\* Only a failure is retried.
Retried(i, status) == status = "failed" /\ execs[i].attempt < MaxAttempts

\* The request came back, or raised, or the run was polled until its deadline.
Answer(i, status) ==
  /\ execs[i].pc = "calling"
  /\ pollers[execs[i].poller] = "up"
  /\ \E fault \in BOOLEAN :
       /\ Faulty(fault)
       /\ Becomes(i, [Recorded(i, status, fault) EXCEPT
                        !.pc = IF Retried(i, status) THEN "waiting" ELSE "closing"])
  /\ UNCHANGED <<now, rows, pollers, door, last>>

Retry(i) ==
  /\ execs[i].pc = "waiting"
  /\ pollers[execs[i].poller] = "up"
  /\ StartAttempt(i)
  /\ UNCHANGED <<now, rows, pollers, door, last>>

\* The awaits at which a task can be cancelled.
AtAwait(i) == execs[i].pc \in {"calling", "waiting"}

\* stop() cancels the task: the record of its attempt, settled or not, becomes
\* cancelled.
Cancelled(i) ==
  /\ AtAwait(i)
  /\ pollers[execs[i].poller] = "stopping"
  /\ \E fault \in BOOLEAN :
       /\ Faulty(fault)
       /\ Becomes(i, [Recorded(i, "cancelled", fault) EXCEPT !.pc = "closing"])
  /\ UNCHANGED <<now, rows, pollers, door, last>>

\* The finally clause when next_run_for raises.
CronFails(i) ==
  /\ execs[i].pc = "closing" /\ execs[i].release /\ execs[i].cron # OnDemand
  /\ Upset("cron")
  /\ Becomes(i, [execs[i] EXCEPT !.pc = "uncomputed"])
  /\ UNCHANGED <<now, rows, pollers, door, last>>

\* Mutant: it matches the worker only.
HoldsSchedule(i) ==
  /\ rows[execs[i].schedule].exists
  /\ rows[execs[i].schedule].lockedBy = execs[i].poller

\* release_schedule matches the individual claim.
HoldsClaim(i) ==
  LET row == rows[execs[i].schedule]
  IN /\ row.exists
     /\ row.lockedBy = execs[i].poller
     /\ row.lockedAt = execs[i].lockedAt

\* The schedule is disabled, and will be released without a next firing.  When
\* that write fails, which is swallowed, the firing just executed stays due.
DisableUnarmed(i) ==
  LET s == execs[i].schedule
  IN /\ execs[i].pc = "uncomputed"
     /\ \E fault \in BOOLEAN :
          /\ Faulty(fault)
          /\ rows' = Disabled(s, fault)
          /\ last' = IF fault /\ HoldsClaim(i) THEN [last EXCEPT ![s].due = Never]
                     ELSE last
     /\ Becomes(i, [execs[i] EXCEPT !.pc = "unarmed"])
     /\ UNCHANGED <<now, pollers, door>>

\* Mutant: the cron of the row is not looked at.
RearmedAnyway(i, next) ==
  IF next # Never THEN next ELSE rows[execs[i].schedule].next

\* What it writes to next_run_at: nothing when no next firing is given, and
\* NULL when the cron has been cleared since the claim.
Rearmed(i, next) ==
  LET row == rows[execs[i].schedule]
  IN IF row.cron = OnDemand THEN Never
     ELSE IF next # Never THEN next ELSE row.next

\* A triggered execution has nothing to release.
Release(i) ==
  /\ execs[i].pc \in {"closing", "unarmed"}
  /\ LET s == execs[i].schedule
         next == IF execs[i].pc = "closing" THEN NextRun(execs[i].cron) ELSE Never
     IN \E fault \in BOOLEAN :
          /\ Faulty(fault)
          /\ fault => execs[i].release
          /\ rows' = IF fault \/ ~execs[i].release \/ ~HoldsClaim(i) THEN rows
                     ELSE [rows EXCEPT ![s].lockedBy = Nobody, ![s].lockedAt = 0,
                                       ![s].next = Rearmed(i, next)]
  /\ Becomes(i, Free)
  /\ UNCHANGED <<now, pollers, door, last>>

-----------------------------------------------------------------------------
(* The doors: an edit reads the schedule, and writes it in a second statement *)

Opens(s) == rows[s].exists /\ Upset("edit")

Reads(s, edit) ==
  /\ door' = [door EXCEPT ![s] = @ \cup {edit}]
  /\ UNCHANGED <<now, rows, execs, pollers, last>>

\* PATCH with a cadence.  A paused schedule is armed when it is enabled again.
Patch(s, cron) ==
  /\ Opens(s)
  /\ Reads(s, [kind |-> "patch", cron |-> cron, next |-> NextRun(cron),
               arms |-> rows[s].enabled \/ cron = OnDemand])

\* PATCH of the timezone alone: the next firing is that of the cron it reads,
\* which it does not write.
Retime(s) ==
  /\ Opens(s)
  /\ Reads(s, [kind |-> "retime", cron |-> rows[s].cron,
               next |-> NextRun(rows[s].cron),
               arms |-> rows[s].enabled \/ rows[s].cron = OnDemand])

\* The enable route computes the next firing of the cron it reads.
Enable(s) ==
  /\ Opens(s)
  /\ ~rows[s].drifted
  /\ Reads(s, [kind |-> "enable", cron |-> rows[s].cron,
               next |-> NextRun(rows[s].cron), arms |-> TRUE])

Edited(row, edit) ==
  [row EXCEPT !.enabled = @ \/ edit.kind = "enable",
              !.cron = IF edit.kind = "patch" THEN edit.cron ELSE @,
              !.next = IF edit.arms THEN edit.next ELSE @]

\* update_schedule, whatever has become of the schedule.
Write(s, edit) ==
  /\ rows' = IF rows[s].exists THEN [rows EXCEPT ![s] = Edited(@, edit)] ELSE rows
  /\ last' = [last EXCEPT ![s].due = Never]
  /\ door' = [door EXCEPT ![s] = @ \ {edit}]
  /\ UNCHANGED <<now, execs, pollers, upsets>>

Disable(s) ==
  /\ Opens(s)
  /\ rows[s].enabled
  /\ rows' = [rows EXCEPT ![s].enabled = FALSE]
  /\ UNCHANGED <<now, execs, pollers, door, last>>

\* delete_schedule deletes its runs with it.
Delete(s) ==
  /\ Opens(s)
  /\ rows' = [rows EXCEPT ![s] =
       [@ EXCEPT !.exists = FALSE, !.enabled = FALSE, !.next = Never,
                 !.lockedBy = Nobody, !.lockedAt = 0]]
  /\ execs' = [i \in Slot |->
       IF execs[i].schedule = s
       THEN [execs[i] EXCEPT !.run = "none"] ELSE execs[i]]
  /\ UNCHANGED <<now, pollers, door, last>>

\* A write below the manager repoints the endpoint, or puts it right.
Repoint(s) ==
  /\ Upset("drift")
  /\ rows[s].exists
  /\ rows' = [rows EXCEPT ![s].drifted = ~@]
  /\ UNCHANGED <<now, execs, pollers, door, last>>

-----------------------------------------------------------------------------
(* Processes and time *)

OtherIsUp(p) == \E q \in Poller \ {p} : pollers[q] = "up"

Stop(p) ==
  /\ Upset("stop")
  /\ pollers[p] = "up" /\ OtherIsUp(p)
  /\ pollers' = [pollers EXCEPT ![p] = "stopping"]
  /\ UNCHANGED <<now, rows, execs, door, last>>

\* stop() has awaited its tasks.
Stopped(p) ==
  /\ pollers[p] = "stopping"
  /\ InFlight(p) = {}
  /\ pollers' = [pollers EXCEPT ![p] = "down"]
  /\ UNCHANGED <<now, rows, execs, door, last, upsets>>

Start(p) ==
  /\ pollers[p] = "down"
  /\ pollers' = [pollers EXCEPT ![p] = "up"]
  /\ UNCHANGED <<now, rows, execs, door, last, upsets>>

Crash(p) ==
  /\ Upset("crash")
  /\ pollers[p] # "down" /\ OtherIsUp(p)
  /\ pollers' = [pollers EXCEPT ![p] = "down"]
  /\ execs' = [i \in Slot |->
       IF i \in InFlight(p) THEN Free ELSE execs[i]]
  /\ UNCHANGED <<now, rows, door, last>>

Tick ==
  /\ now < MaxTime
  /\ now' = now + 1
  /\ UNCHANGED <<rows, execs, pollers, door, last, upsets>>

Step(i) ==
  \/ Begin(i) \/ Refuse(i) \/ DisableDrifted(i)
  \/ \E status \in {"answered", "failed"} : Answer(i, status)
  \/ Retry(i) \/ Cancelled(i) \/ CronFails(i) \/ DisableUnarmed(i) \/ Release(i)

Next ==
  \/ \E p \in Poller, s \in Schedule, i \in Slot : Claim(p, s, i) \/ Trigger(p, s, i)
  \/ \E i \in Slot : Step(i)
  \/ \E s \in Schedule :
       \/ \E cron \in Cron : Patch(s, cron)
       \/ Retime(s) \/ Enable(s) \/ (\E edit \in door[s] : Write(s, edit))
       \/ Disable(s) \/ Delete(s) \/ Repoint(s)
  \/ \E p \in Poller : Stop(p) \/ Stopped(p) \/ Start(p) \/ Crash(p)
  \/ Tick

Spec == Init /\ [][Next]_vars

\* A running poller comes round again, an execution goes on, its request is
\* answered or runs out of time, and the clock ticks.  No door is obliged to be
\* used, no stopped poller to start.
Fairness ==
  /\ \A p \in Poller :
       WF_vars(\E s \in Schedule, i \in Slot : Claim(p, s, i))
  /\ \A i \in Slot : WF_vars(Step(i))
  /\ WF_vars(Tick)

FairSpec == Spec /\ Fairness

-----------------------------------------------------------------------------
(* What the scheduler guarantees *)

Holder(i) == Live(i) /\ execs[i].release

\* Two executions of one schedule that the pollers claimed overlap only when
\* the lock of the earlier has been left to lapse, whatever was edited,
\* released, crashed or restarted in between (poller.py, execute).
OverlapOnlyAfterGrace ==
  \A i, j \in Slot :
    /\ i # j /\ Holder(i) /\ Holder(j)
    /\ execs[i].schedule = execs[j].schedule
    => \/ execs[i].lockedAt + Grace <= execs[j].lockedAt
       \/ execs[j].lockedAt + Grace <= execs[i].lockedAt

\* A lock is given back, and a firing armed, by the execution of the claim that
\* took it and by no other, not even by an expired one of the same worker
\* (execute: "an expired invocation cannot release it").
OnlyTheHolderReleases ==
  [][\A s \in Schedule :
       /\ rows[s].lockedBy # Nobody /\ rows'[s].lockedBy = Nobody
       /\ rows'[s].exists
       => \E i \in Slot : /\ execs[i].schedule = s /\ execs[i].release
                          /\ Live(i) /\ execs'[i].pc = "free"
                          /\ execs[i].lockedAt = last[s].at]_vars

\* One due time is claimed once, but for a lock left to lapse: a release never
\* arms the firing it has just executed.  An edit of the schedule starts afresh,
\* and so does the one release that can leave its firing due: the next firing
\* could not be computed and the write that disables the schedule failed
\* (execute: "disabling schedule to prevent it from becoming stuck").
OneClaimPerFiring ==
  [][\A i \in Slot :
       LET s == execs'[i].schedule
       IN /\ ~Live(i) /\ execs'[i].release
          /\ last[s].due # Never /\ rows[s].next = last[s].due
          => last[s].at + Grace <= now]_vars

\* An attempt that is over is recorded as over: no run record says running
\* once its execution sleeps until the next attempt or closes, unless the
\* write of it failed.
RecordsAreSettled ==
  \A i \in Slot :
    execs[i].run = "running" => execs[i].pc = "calling" \/ execs[i].lost

\* An execution never arms a schedule whose cron was cleared while it ran
\* (release_schedule).  Only an edit that writes no cron, an enable or a PATCH of
\* the timezone, may, when it read the cron before it was cleared.
OnDemandIsNotRearmed ==
  [][\A s \in Schedule :
       /\ rows'[s].cron = OnDemand
       /\ rows'[s].next \notin {rows[s].next, Never}
       => \E edit \in door[s] \ door'[s] :
            edit.kind # "patch" /\ edit.cron # OnDemand]_vars

\* An execution that arms its schedule arms a firing of the cadence the
\* schedule has by then: a new cadence replaces the deadline of the old one
\* (_schedule_timing_updates).  It does not hold.
RearmsForTheCadence ==
  [][\A i \in Slot :
       LET row == rows'[execs[i].schedule]
       IN Live(i) /\ ~Live(i)' /\ row.cron # OnDemand
          => \/ row.next = rows[execs[i].schedule].next
             \/ row.next % row.cron = 0]_vars

\* A firing that is due and free to be claimed, or whose lock will lapse, does
\* not stay due: it is claimed, and the schedule re-armed, disabled or deleted,
\* as it is also when the execution could not be recorded and made no request.
\* A lock that would lapse behind the end of the clock is all that may remain.
Served(s) ==
  \/ ~Due(s)
  \/ rows[s].lockedBy # Nobody /\ rows[s].lockedAt + Grace > MaxTime

DueIsServed ==
  \A s \in Schedule : ~Served(s) ~> Served(s)
=============================================================================
