------------------------------ MODULE PollLoop ------------------------------
(***************************************************************************)
(* The process side of a worker (QueueWorker of agno/os/job_queue.py): the *)
(* poll loop with its wake flag and its concurrency cap, the table of runs *)
(* in flight, which the heartbeat and the drain go by, and stop().  Tasks  *)
(* share one event loop, so what happens between two awaits is one step; a *)
(* store call runs in a thread of its own, so its effect and its return    *)
(* are two.  One replica; the store calls are those of JobStore.           *)
(***************************************************************************)
EXTENDS JobStore

CONSTANTS
  Self,       \* this worker
  NoJob,      \* no ticket
  Cap,        \* effective_max: runs in flight at once, 0 for no limit
  Env,        \* what the environment may do, see below
  MaxBudget,  \* bound: a ticket this many attempts old is granted no more
  MaxSeq      \* bound: no requeue once a session_seq has reached this

\* storeFault  a call of the poll loop to the store raises
\* quick       a ticket may be claimable again before the task that settled it
\*             has returned: a retry without delay, a continue or a requeue
EnvElement == {"storeFault", "quick"}

ASSUME LoopAssumption ==
  /\ Self \in Worker
  /\ NoJob \notin Job
  /\ Cap \in Nat
  /\ Env \subseteq EnvElement

VARIABLES
  pc,         \* where the poll loop is
  listed,     \* the rest of the sweep's list
  swept,      \* the ticket whose sweep is under way
  call,       \* the claim_job call: not made, under way, returning
  got,        \* the ticket a returning claim_job has claimed
  event,      \* _wake is set
  saturated,  \* _saturated
  tasks,      \* the tasks of _execute_claimed
  inFlight,   \* _in_flight, a task being named by its attempt, 0 for none
  stop,       \* where stop() is
  gathered,   \* the tasks stop() waits for in the end
  nudges      \* the doors that have committed a ticket and not called wake()

loop == <<pc, listed, swept, call, got>>
vars == <<jobs, loop, event, saturated, tasks, inFlight, stop, gathered, nudges>>

Task == [job : Job, attempt : Nat, state : {"exec", "settled", "done"}]

TypeOK ==
  /\ jobs \in [Job -> Ticket]
  /\ pc \in {"sweep", "sweeping", "claim", "retain", "wait", "sleep", "ended"}
  /\ listed \in SUBSET Job
  /\ swept \in Job \cup {NoJob}
  /\ call \in {"idle", "asked", "empty", "claimed"}
  /\ got \in Job \cup {NoJob} /\ (got # NoJob <=> call = "claimed")
  /\ event \in BOOLEAN /\ saturated \in BOOLEAN
  /\ tasks \in SUBSET Task
  /\ inFlight \in [Job -> Nat]
  /\ stop \in {"no", "drain", "gather", "stopped"} /\ (stop = "no" <=> pc # "ended")
  /\ gathered \in SUBSET (Job \X Nat)
  /\ nudges \in SUBSET Job

Init ==
  /\ StoreInit
  /\ pc = "sweep" /\ listed = {} /\ swept = NoJob
  /\ call = "idle" /\ got = NoJob
  /\ event = FALSE /\ saturated = FALSE
  /\ tasks = {} /\ inFlight = [j \in Job |-> 0]
  /\ stop = "no" /\ gathered = {}
  /\ nudges = {}

Listed(t) == inFlight[t.job] = t.attempt

-----------------------------------------------------------------------------
(* The poll loop *)

Goto(label) == pc' = label /\ UNCHANGED <<listed, swept, call, got>>

SweepList ==
  /\ pc = "sweep"
  /\ listed' = {j \in Job : Sweepable(j)}
  /\ pc' = "sweeping"
  /\ UNCHANGED <<jobs, swept, call, got, event, saturated, tasks, inFlight,
                 stop, gathered, nudges>>

\* Mutant: the sweep goes on whether or not it acquired the ticket.
SweepUnacquired(j) ==
  /\ pc = "sweeping" /\ swept = NoJob /\ j \in listed
  /\ listed' = listed \ {j} /\ swept' = j
  /\ UNCHANGED <<jobs, pc, call, got, event, saturated, tasks, inFlight, stop,
                 gathered, nudges>>

\* acquire_sweep is refused if the ticket is not stale any more.
SweepNext(j) ==
  /\ pc = "sweeping" /\ swept = NoJob /\ j \in listed
  /\ listed' = listed \ {j}
  /\ \/ AcquireSweep(Self, j) /\ swept' = j
     \/ ~Sweepable(j) /\ UNCHANGED <<jobs, swept>>
  /\ UNCHANGED <<pc, call, got, event, saturated, tasks, inFlight, stop,
                 gathered, nudges>>

\* A sweep that fails is logged and leaves its ticket to the next one.
SweepDone ==
  /\ swept # NoJob
  /\ swept' = NoJob
  /\ \/ \E status \in {"completed", "cancelled", "paused", "failed"} :
          SettleSweptJob(Self, swept, status)
     \/ UNCHANGED jobs
  /\ UNCHANGED <<pc, listed, call, got, event, saturated, tasks, inFlight, stop,
                 gathered, nudges>>

SweepEnds ==
  /\ pc = "sweeping" /\ swept = NoJob /\ listed = {}
  /\ Goto("claim")
  /\ UNCHANGED <<jobs, event, saturated, tasks, inFlight, stop, gathered, nudges>>

\* _in_flight without the entries whose own task is done.
Pruned ==
  [j \in Job |->
     IF \E t \in tasks : t.job = j /\ Listed(t) /\ t.state = "done"
     THEN 0 ELSE inFlight[j]]

AtCap(table) == Cap > 0 /\ Cardinality({j \in Job : table[j] # 0}) >= Cap

\* Mutant: a pass that stops at the cap does not say so.
AskSilently ==
  /\ pc = "claim" /\ call = "idle"
  /\ inFlight' = Pruned
  /\ \/ AtCap(Pruned) /\ Goto("retain")
     \/ ~AtCap(Pruned) /\ call' = "asked" /\ UNCHANGED <<pc, listed, swept, got>>
  /\ UNCHANGED <<jobs, event, saturated, tasks, stop, gathered, nudges>>

Ask ==
  /\ pc = "claim" /\ call = "idle"
  /\ inFlight' = Pruned
  /\ \/ AtCap(Pruned) /\ saturated' = TRUE /\ Goto("retain")
     \/ /\ ~AtCap(Pruned) /\ call' = "asked"
        /\ UNCHANGED <<saturated, pc, listed, swept, got>>
  /\ UNCHANGED <<jobs, event, tasks, stop, gathered, nudges>>

StoreClaims(j) ==
  /\ call = "asked"
  /\ ClaimJob(Self, j)
  /\ call' = "claimed" /\ got' = j
  /\ UNCHANGED <<pc, listed, swept, event, saturated, tasks, inFlight, stop,
                 gathered, nudges>>

StoreFindsNone ==
  /\ call = "asked"
  /\ \A j \in Job : ~Candidate(Self, j)
  /\ call' = "empty"
  /\ UNCHANGED <<jobs, pc, listed, swept, got, event, saturated, tasks, inFlight,
                 stop, gathered, nudges>>

\* Mutant: the task is created and not entered.
StartUnlisted ==
  /\ pc = "claim" /\ call = "claimed"
  /\ tasks' = tasks \cup
       {[job |-> got, attempt |-> jobs[got].attempt, state |-> "exec"]}
  /\ call' = "idle" /\ got' = NoJob
  /\ UNCHANGED <<jobs, pc, listed, swept, event, saturated, inFlight, stop,
                 gathered, nudges>>

\* claim_job returns a ticket: its task is created and entered in _in_flight.
Start ==
  /\ pc = "claim" /\ call = "claimed"
  /\ tasks' = tasks \cup
       {[job |-> got, attempt |-> jobs[got].attempt, state |-> "exec"]}
  /\ inFlight' = [inFlight EXCEPT ![got] = jobs[got].attempt]
  /\ call' = "idle" /\ got' = NoJob
  /\ UNCHANGED <<jobs, pc, listed, swept, event, saturated, stop, gathered, nudges>>

NoneLeft ==
  /\ pc = "claim" /\ call = "empty"
  /\ call' = "idle" /\ pc' = "retain"
  /\ UNCHANGED <<jobs, listed, swept, got, event, saturated, tasks, inFlight,
                 stop, gathered, nudges>>

\* About once an hour the old tickets are deleted.
Retain ==
  /\ pc = "retain"
  /\ Goto("wait")
  /\ UNCHANGED jobs \/ \E old \in SUBSET Job : CleanupJobs(old)
  /\ UNCHANGED <<event, saturated, tasks, inFlight, stop, gathered, nudges>>

\* _wait_for_work returns on a wake; a sweep may be due or not.
Woken ==
  /\ pc = "wait" /\ event
  /\ event' = FALSE
  /\ Goto("sweep") \/ Goto("claim")
  /\ UNCHANGED <<jobs, saturated, tasks, inFlight, stop, gathered, nudges>>

\* It times out after poll_interval, and a sweep is due.
Tick ==
  /\ pc = "wait" /\ ~event
  /\ Goto("sweep")
  /\ UNCHANGED <<jobs, event, saturated, tasks, inFlight, stop, gathered, nudges>>

\* A store call raises; if it was a claim, it may have been made all the same.
PollError ==
  /\ "storeFault" \in Env
  /\ \/ pc \in {"sweep", "retain"}
     \/ pc = "claim" /\ call \in {"asked", "claimed"}
  /\ pc' = "sleep" /\ call' = "idle" /\ got' = NoJob
  /\ UNCHANGED <<jobs, listed, swept, event, saturated, tasks, inFlight, stop,
                 gathered, nudges>>

SleepOver ==
  /\ pc = "sleep"
  /\ Goto("sweep") \/ Goto("claim")
  /\ UNCHANGED <<jobs, event, saturated, tasks, inFlight, stop, gathered, nudges>>

-----------------------------------------------------------------------------
(* The tasks *)

Becomes(t, state) == tasks' = (tasks \ {t}) \cup {[t EXCEPT !.state = state]}

\* The ticket write of a leg: it lands, or is refused, fails or is left out.
Settle(t) ==
  /\ t.state = "exec"
  /\ Becomes(t, "settled")
  /\ \/ \E status \in {"completed", "cancelled", "failed", "paused"} :
          CompleteJob(Self, t.job, t.attempt, status)
     \/ \E due \in BOOLEAN : /\ due => "quick" \in Env
                             /\ RetryOrFailJob(Self, t.job, t.attempt, due)
     \/ UNCHANGED jobs
  /\ UNCHANGED <<loop, event, saturated, inFlight, stop, gathered, nudges>>

\* What follows the ticket write: a row, a stream, the slot; the task is done.
Return(t) ==
  /\ t.state = "settled"
  /\ Becomes(t, "done")
  /\ UNCHANGED <<jobs, loop, event, saturated, inFlight, stop, gathered, nudges>>

\* The done callback.  It removes the entry of its run, whichever task that
\* entry is for, and wakes a loop that stopped at the cap.
Discard(t) ==
  /\ t.state = "done"
  /\ tasks' = tasks \ {t}
  /\ inFlight' = [inFlight EXCEPT ![t.job] = 0]
  /\ saturated' = FALSE
  /\ event' = (event \/ saturated)
  /\ UNCHANGED <<jobs, loop, stop, gathered, nudges>>

-----------------------------------------------------------------------------
(* stop() *)

\* Mutant: the poll task is left running.
StopWithoutCancel ==
  /\ stop = "no"
  /\ stop' = "drain"
  /\ UNCHANGED <<jobs, loop, event, saturated, tasks, inFlight, gathered, nudges>>

\* The poll task is cancelled at the await it is at.  Nobody looks at the wake
\* flag again, and wake() does nothing from now on.
Stop ==
  /\ stop = "no"
  /\ stop' = "drain" /\ pc' = "ended" /\ listed' = {}
  /\ event' = FALSE /\ saturated' = FALSE /\ nudges' = {}
  /\ UNCHANGED <<jobs, swept, call, got, tasks, inFlight, gathered>>

\* The thread of a claim_job whose caller is gone has no one to return to.
CallEnds ==
  /\ pc = "ended" /\ call # "idle"
  /\ call' = "idle" /\ got' = NoJob
  /\ UNCHANGED <<jobs, pc, listed, swept, event, saturated, tasks, inFlight, stop,
                 gathered, nudges>>

\* All runs in flight are done, or stop_timeout has passed and the rest is
\* cancelled; either way those still in flight are waited for.
DrainEnds ==
  /\ stop = "drain"
  /\ stop' = "gather"
  /\ gathered' = {<<j, inFlight[j]>> : j \in {k \in Job : inFlight[k] # 0}}
  /\ UNCHANGED <<jobs, loop, event, saturated, tasks, inFlight, nudges>>

\* Mutant: stop() leaves the stragglers to themselves.
StoppedAtOnce ==
  /\ stop = "gather"
  /\ stop' = "stopped"
  /\ inFlight' = [j \in Job |-> 0]
  /\ UNCHANGED <<jobs, loop, event, saturated, tasks, gathered, nudges>>

Stopped ==
  /\ stop = "gather"
  /\ \A t \in tasks : <<t.job, t.attempt>> \in gathered => t.state = "done"
  /\ stop' = "stopped"
  /\ inFlight' = [j \in Job |-> 0]
  /\ UNCHANGED <<jobs, loop, event, saturated, tasks, gathered, nudges>>

-----------------------------------------------------------------------------
(* The doors of this replica and the clock *)

Returned(j) == "quick" \in Env \/ \A t \in tasks : t.job # j

\* A ticket is committed, and wake() is called after that.  The server takes no
\* request any more when it stops the worker.
Door(j) ==
  /\ stop = "no"
  /\ \/ \E created \in Stamps : EnqueueJob(j, created)
     \/ /\ Returned(j) /\ jobs[j].attempt < MaxBudget
        /\ \/ RequeueJob(j) /\ \A k \in Job : jobs[k].seq < MaxSeq
           \/ ContinueJob(j)
  /\ nudges' = nudges \cup {j}
  /\ UNCHANGED <<loop, event, saturated, tasks, inFlight, stop, gathered>>

Wake(j) ==
  /\ j \in nudges
  /\ nudges' = nudges \ {j}
  /\ event' = TRUE
  /\ UNCHANGED <<jobs, loop, saturated, tasks, inFlight, stop, gathered>>

\* A waiting ticket is cancelled, or a paused one settled by an inline continue.
Withdraw(j) ==
  /\ CancelJob(j) \/ \E status \in Terminal : SettlePausedJob(j, status)
  /\ UNCHANGED <<loop, event, saturated, tasks, inFlight, stop, gathered, nudges>>

Ready(j) ==
  /\ Returned(j)
  /\ BackoffEnds(j)
  /\ UNCHANGED <<loop, event, saturated, tasks, inFlight, stop, gathered, nudges>>

\* The heartbeat refreshes the lease of every ticket in _in_flight, until the
\* drain is over; a sweep, a claim and the return of a task take less than a
\* lease.
Lapse(j) ==
  /\ inFlight[j] = 0 /\ swept # j /\ got # j
  /\ \A t \in tasks : t.job = j => t.state = "exec"
  /\ LeaseLapses(j)
  /\ UNCHANGED <<loop, event, saturated, tasks, inFlight, stop, gathered, nudges>>

-----------------------------------------------------------------------------

Poll ==
  \/ SweepList \/ \E j \in Job : SweepNext(j)
  \/ SweepDone \/ SweepEnds
  \/ Ask \/ \E j \in Job : StoreClaims(j)
  \/ StoreFindsNone \/ Start \/ NoneLeft
  \/ Retain \/ Woken

TaskStep(t) == Settle(t) \/ Return(t) \/ Discard(t)

Next ==
  \/ Poll \/ Tick \/ PollError \/ SleepOver
  \/ \E t \in tasks : TaskStep(t)
  \/ Stop \/ CallEnds \/ DrainEnds \/ Stopped
  \/ \E j \in Job : Door(j) \/ Wake(j) \/ Withdraw(j) \/ Ready(j) \/ Lapse(j)

Spec == Init /\ [][Next]_vars

\* The loop, its tasks and the doors go on.  Nothing is asked of Tick: what
\* holds under this fairness does not wait for a poll interval.
Fairness ==
  /\ WF_vars(Poll)
  /\ \A j \in Job : /\ WF_vars(\E t \in tasks : t.job = j /\ TaskStep(t))
                    /\ WF_vars(Wake(j))

FairSpec == Spec /\ Fairness

-----------------------------------------------------------------------------
(* What the loop guarantees *)

\* A leg that holds its ticket is in _in_flight: "heartbeats its in-flight
\* jobs", so the lease of a live leg does not lapse, and stop() sees it
\* (QueueWorker).
HolderIsInFlight ==
  \A t \in tasks : t.state = "exec" /\ OwnsLease(Self, t.job, t.attempt) => Listed(t)

\* stop() returns when no run is executing any more, in time or as a cancelled
\* straggler (QueueWorker.stop).
StoppedIsQuiet == stop = "stopped" => \A t \in tasks : t.state = "done"

\* A ticket committed by a door of this replica is claimed without waiting for
\* the tick, at whatever point of its round the wake finds the loop, and even
\* if it is at its cap ("the tick only bounds pickup latency for jobs enqueued
\* by OTHER replicas, for retries becoming available, and for the sweep
\* cadence", QueueConfig.poll_interval).  A stop or a failing store excuses it.
PromptClaim ==
  \A j \in Job :
    j \in nudges /\ jobs[j].due
      ~> jobs[j].status # "queued" \/ stop # "no" \/ pc = "sleep"

Leg(t) == [worker |-> Self, job |-> t.job, attempt |-> t.attempt]

\* A claim is a leg from its commit; it ends with its ticket write, or when its
\* result is lost.
Queue == INSTANCE JobQueue WITH
  legs <- {Leg(t) : t \in {u \in tasks : u.state = "exec"}}
          \cup {[worker |-> Self, job |-> j, attempt |-> jobs[j].attempt] :
                  j \in {got} \ {NoJob}},
  sweeping <- [w \in Worker |-> IF w = Self THEN swept ELSE NoJob],
  alive <- Worker

\* A process stopped at any point is, for the tickets, a worker of JobQueue.
QueueTickets == Queue!Spec
=============================================================================
