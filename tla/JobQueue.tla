------------------------------ MODULE JobQueue ------------------------------
(***************************************************************************)
(* The durable queue as its tickets see it: replicas that claim, execute,  *)
(* heartbeat, settle and sweep (QueueWorker of agno/os/job_queue.py), the  *)
(* doors through which users enqueue, cancel, continue and requeue, and    *)
(* crashes, over the ticket store of JobStore.                             *)
(*                                                                         *)
(* An execution is a leg: the attempt of a job that a worker process is    *)
(* running, from the claim to the settle.  Nothing stops a leg whose lease *)
(* has lapsed, so several legs of one job may run at once; what the store  *)
(* guarantees about them is the subject of this module.  What a leg does   *)
(* between the two is the subject of QueueWorker.                          *)
(***************************************************************************)
EXTENDS JobStore

CONSTANTS
  NoJob,      \* no ticket under sweep
  MaxBudget,  \* bound: a ticket this many attempts old is granted no more
  MaxSeq      \* bound: no requeue once a session_seq has reached this

ASSUME NoJobAssumption == NoJob \notin Job

VARIABLES
  legs,       \* the executions in process memory
  sweeping,   \* [Worker -> Job \cup {NoJob}], the ticket its poll loop sweeps
  alive       \* the workers that have not crashed

vars == <<jobs, legs, sweeping, alive>>

Leg == [worker : Worker, job : Job, attempt : Nat]

\* Every type, and the lock of a ticket standing exactly while it is running.
TypeOK ==
  /\ jobs \in [Job -> Ticket]
  /\ legs \in SUBSET Leg
  /\ sweeping \in [Worker -> Job \cup {NoJob}]
  /\ alive \in SUBSET Worker
  /\ \A j \in Job : jobs[j].lockedBy # Nobody <=> jobs[j].status = "running"

Init ==
  /\ StoreInit
  /\ legs = {}
  /\ sweeping = [w \in Worker |-> NoJob]
  /\ alive = Worker

-----------------------------------------------------------------------------
(* Executing: one poll loop per worker, which sweeps and then claims *)

Claim(w, j) ==
  /\ w \in alive
  /\ sweeping[w] = NoJob
  /\ ClaimJob(w, j)
  /\ legs' = legs \cup
       {[worker |-> w, job |-> j, attempt |-> jobs[j].attempt + 1]}
  /\ UNCHANGED <<sweeping, alive>>

\* The lock of the runs in _in_flight is refreshed; two legs of one run share an
\* entry there, which goes with the first of them.
Heartbeat(w) ==
  /\ w \in alive
  /\ \E held \in SUBSET {l.job : l \in {m \in legs : m.worker = w}} :
       HeartbeatJobs(w, held)
  /\ UNCHANGED <<legs, sweeping, alive>>

\* The leg ends and its complete_job lands.
Complete(l, status) ==
  /\ l \in legs
  /\ CompleteJob(l.worker, l.job, l.attempt, status)
  /\ legs' = legs \ {l}
  /\ UNCHANGED <<sweeping, alive>>

\* The leg fails, times out or is drained, and its retry_or_fail_job lands.
RetryOrFail(l, due) ==
  /\ l \in legs
  /\ RetryOrFailJob(l.worker, l.job, l.attempt, due)
  /\ legs' = legs \ {l}
  /\ UNCHANGED <<sweeping, alive>>

\* The leg ends without a ticket write: its compare-and-set was refused, or
\* it leaves the claim to the lease because a durable write did not land.
LeaveClaim(l) ==
  /\ l \in legs
  /\ legs' = legs \ {l}
  /\ UNCHANGED <<jobs, sweeping, alive>>

Sweep(w, j) ==
  /\ w \in alive
  /\ sweeping[w] = NoJob
  /\ AcquireSweep(w, j)
  /\ sweeping' = [sweeping EXCEPT ![w] = j]
  /\ UNCHANGED <<legs, alive>>

SettleSwept(w, status) ==
  /\ sweeping[w] # NoJob
  /\ SettleSweptJob(w, sweeping[w], status)
  /\ sweeping' = [sweeping EXCEPT ![w] = NoJob]
  /\ UNCHANGED <<legs, alive>>

\* The sweep ends without a ticket write; its lock will go stale again.
LeaveSwept(w) ==
  /\ sweeping[w] # NoJob
  /\ sweeping' = [sweeping EXCEPT ![w] = NoJob]
  /\ UNCHANGED <<jobs, legs, alive>>

\* A replica dies with everything it was doing; another one survives.
Crash(w) ==
  /\ w \in alive
  /\ alive \ {w} # {}
  /\ alive' = alive \ {w}
  /\ legs' = {l \in legs : l.worker # w}
  /\ sweeping' = [sweeping EXCEPT ![w] = NoJob]
  /\ UNCHANGED jobs

-----------------------------------------------------------------------------
(* The doors and the clock *)

Enqueue(j) ==
  /\ \E created \in Stamps : EnqueueJob(j, created)
  /\ UNCHANGED <<legs, sweeping, alive>>

Cancel(j) == CancelJob(j) /\ UNCHANGED <<legs, sweeping, alive>>

SettlePaused(j) ==
  /\ \E status \in Terminal : SettlePausedJob(j, status)
  /\ UNCHANGED <<legs, sweeping, alive>>

Requeue(j) ==
  /\ jobs[j].attempt < MaxBudget
  /\ \A k \in Job : jobs[k].seq < MaxSeq
  /\ RequeueJob(j)
  /\ UNCHANGED <<legs, sweeping, alive>>

Continue(j) ==
  /\ jobs[j].attempt < MaxBudget
  /\ ContinueJob(j)
  /\ UNCHANGED <<legs, sweeping, alive>>

Cleanup ==
  /\ \E old \in SUBSET Job : CleanupJobs(old)
  /\ UNCHANGED <<legs, sweeping, alive>>

Lapse(j) == LeaseLapses(j) /\ UNCHANGED <<legs, sweeping, alive>>

Ready(j) == BackoffEnds(j) /\ UNCHANGED <<legs, sweeping, alive>>

-----------------------------------------------------------------------------

EndLeg(l) ==
  \/ \E status \in {"completed", "cancelled", "failed", "paused"} :
       Complete(l, status)
  \/ \E due \in BOOLEAN : RetryOrFail(l, due)
  \/ LeaveClaim(l)

EndSweep(w) ==
  \/ \E status \in {"completed", "cancelled", "paused", "failed"} :
       SettleSwept(w, status)
  \/ LeaveSwept(w)

Next ==
  \/ \E w \in Worker, j \in Job : Claim(w, j) \/ Sweep(w, j)
  \/ \E w \in Worker : Heartbeat(w) \/ EndSweep(w) \/ Crash(w)
  \/ \E l \in legs : EndLeg(l)
  \/ \E j \in Job : \/ Enqueue(j) \/ Cancel(j) \/ SettlePaused(j)
                    \/ Requeue(j) \/ Continue(j) \/ Lapse(j) \/ Ready(j)
  \/ Cleanup

Spec == Init /\ [][Next]_vars

\* Somebody who will refresh the lease of j or settle it.
Attended(j) ==
  \/ \E l \in legs : l.job = j /\ l.worker = jobs[j].lockedBy
  \/ \E w \in Worker : sweeping[w] = j /\ jobs[j].lockedBy = w

\* A live poll loop goes on sweeping and claiming; a leg ends, by its run
\* timeout at the latest; an unattended lease lapses and a backoff passes.
\* A sweep that can settle infinitely often does: its failing row writes and
\* false lapses are not forever.  No door is ever obliged to be used.
Fairness ==
  /\ \A w \in Worker :
       /\ SF_vars(\E j \in Job : Claim(w, j))
       /\ WF_vars(\E j \in Job : Sweep(w, j))
       /\ WF_vars(EndSweep(w))
       /\ SF_vars(\E status \in Terminal : SettleSwept(w, status))
  /\ \A w \in Worker, j \in Job :
       WF_vars(\E l \in legs : l.worker = w /\ l.job = j /\ EndLeg(l))
  /\ \A j \in Job : WF_vars(~Attended(j) /\ Lapse(j)) /\ WF_vars(Ready(j))

FairSpec == Spec /\ Fairness

-----------------------------------------------------------------------------
(* What the queue guarantees *)

\* Two tickets of one session never hold it together, whatever retries,
\* pauses, continuations, requeues, reclaims and sweeps happened to them
\* (session.py: "at most one live turn per session").
OneTurnPerSession ==
  \A j, k \in Job :
    /\ j # k
    /\ IsSerialized(j) /\ SessionOf[j] = SessionOf[k]
    => ~(jobs[j].status \in Holding /\ jobs[k].status \in Holding)

\* No ticket is executed more often than it was granted.  The claim of a
\* queued ticket does not look at the budget, so this rests on every way back
\* to queued leaving an execution to spend (retry_or_fail_job, requeue_job,
\* continue_job); with max_attempts = 1 it is the at-most-once promise.
WithinBudget ==
  \A j \in Job : jobs[j].attempt <= jobs[j].maxAttempts

\* What makes the two above inductive.  A queued ticket has an execution left;
\* among the live tickets of a session the sequence numbers are distinct and
\* the holder's is the smallest.
BudgetInv ==
  \A j \in Job : /\ jobs[j].attempt <= jobs[j].maxAttempts
                 /\ jobs[j].status = "queued" =>
                      jobs[j].attempt < jobs[j].maxAttempts

OrderInv ==
  \A j \in Job : \A k \in SameSession(j) :
    jobs[j].status \in Live /\ jobs[k].status \in Live =>
      /\ jobs[j].seq # jobs[k].seq
      /\ jobs[j].status \in Holding => jobs[j].seq < jobs[k].seq

\* The attempt is a fencing token: at no time do two legs of a job carry the
\* same one, and none is ahead of a ticket that still exists, even when the ticket was
\* requeued or continued while an earlier leg was still running.
LegsAreFenced ==
  /\ \A l \in legs : \/ l.attempt <= jobs[l.job].attempt
                      \/ jobs[l.job].status = "deleted"
  /\ \A l, m \in legs : l.job = m.job /\ l.attempt = m.attempt => l = m

LegInv == LegsAreFenced /\ \A l \in legs : jobs[l.job].status # "absent"

\* No accepted ticket is forgotten: it is paused, ends, or waits behind a
\* paused turn of its session, whichever workers crash on the way.
BehindPaused(j) == \E k \in SameSession(j) : jobs[k].status = "paused"

NoTicketIsLost ==
  \A j \in Job :
    jobs[j].status \in {"queued", "running"}
      ~> jobs[j].status \notin {"queued", "running"} \/ BehindPaused(j)
=============================================================================
