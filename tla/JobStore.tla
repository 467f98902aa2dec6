------------------------------ MODULE JobStore ------------------------------
(***************************************************************************)
(* The ticket store of the durable job queue: InMemoryQueueStore of        *)
(* agno/job_queue/store.py, the contract the database adapters implement,  *)
(* with the session order of agno/job_queue/session.py.  Every method runs *)
(* under the store's lock (a transaction in the databases, whose several   *)
(* statements are taken apart in SqlQueue), so each is one atomic action   *)
(* on the variable jobs.  An action is enabled exactly when the method     *)
(* would return success; a refused call changes nothing.                   *)
(*                                                                         *)
(* Clock readings are kept as what the code compares them for: stale is    *)
(* "locked_at <= now - lock_grace", due is "available_at <= now".  created *)
(* is created_at, read by the submitting replica from its own clock, so it *)
(* need not follow the order in which the store accepts tickets.           *)
(***************************************************************************)
EXTENDS Naturals, FiniteSets

CONSTANTS
  Job,         \* ticket ids, numbers so that (created_at, id) orders them
  Worker,      \* worker processes
  Session,     \* sessions whose turns are serialized
  SessionOf,   \* [Job -> Session \cup {NoSession}]
  Serves,      \* [Worker -> SUBSET Job]: deployment_id is unset or matches
  NoSession,   \* the session of a ticket without payload.serialize_session
  Nobody,      \* locked_by of a ticket no worker owns
  MaxAttempts, \* QueueConfig.max_attempts
  MaxDepth,    \* QueueConfig.max_depth, 0 for no limit
  Stamps       \* the clock readings created_at is taken from

ASSUME JobAssumption == Job \subseteq Nat
ASSUME SessionAssumption ==
  /\ SessionOf \in [Job -> Session \cup {NoSession}]
  /\ NoSession \notin Session
ASSUME WorkerAssumption ==
  /\ Serves \in [Worker -> SUBSET Job]
  /\ Nobody \notin Worker
ASSUME NumberAssumption ==
  /\ MaxAttempts \in Nat \ {0}
  /\ MaxDepth \in Nat
  /\ Stamps \subseteq Nat

VARIABLE jobs

Status == {"absent", "queued", "running", "paused",
           "completed", "cancelled", "failed", "deleted"}
Terminal == {"completed", "failed", "cancelled"}
Live == {"queued", "running", "paused"}
Holding == {"running", "paused"}

Ticket == [status : Status, attempt : Nat, maxAttempts : Nat,
           lockedBy : Worker \cup {Nobody}, stale : BOOLEAN, due : BOOLEAN,
           seq : Nat, created : Nat]

\* An id without a row; "deleted" is an id that had one, and is never reused.
NoTicket(status) ==
  [status |-> status, attempt |-> 0, maxAttempts |-> 0, lockedBy |-> Nobody,
   stale |-> FALSE, due |-> TRUE, seq |-> 0, created |-> 0]

StoreInit == jobs = [j \in Job |-> NoTicket("absent")]

-----------------------------------------------------------------------------
(* Sessions: session.py *)

IsSerialized(j) == SessionOf[j] # NoSession

SameSession(j) ==
  {k \in Job \ {j} : IsSerialized(j) /\ SessionOf[k] = SessionOf[j]}

\* Mutant: the sequence follows only the tickets that hold the session.
NextSeqAfterHolders(j, s) ==
  LET held == {k \in SameSession(j) : jobs[k].status \in Holding}
  IN  IF ~IsSerialized(j) THEN s = 0
      ELSE /\ \A k \in held : jobs[k].seq < s
           /\ s = 1 \/ \E k \in held : s = jobs[k].seq + 1

\* s is next_session_seq: one past the last live ticket of j's session.
NextSessionSeq(j, s) ==
  LET live == {k \in SameSession(j) : jobs[k].status \in Live}
  IN  IF ~IsSerialized(j) THEN s = 0
      ELSE /\ \A k \in live : jobs[k].seq < s
           /\ s = 1 \/ \E k \in live : s = jobs[k].seq + 1

\* The values s may take in NextSessionSeq.
Seqs == {0, 1} \cup {jobs[k].seq + 1 : k \in Job}

Before(k, j) ==
  \/ jobs[k].seq < jobs[j].seq
  \/ jobs[k].seq = jobs[j].seq /\ k < j

\* Mutant: a paused ticket gives its session up.
SessionBlockedByRunning(j) ==
  \E k \in SameSession(j) :
    \/ jobs[k].status = "running"
    \/ /\ jobs[j].status = "queued" /\ jobs[k].status = "queued"
       /\ Before(k, j)

SessionBlocked(j) ==
  \E k \in SameSession(j) :
    \/ jobs[k].status \in Holding
    \/ /\ jobs[j].status = "queued" /\ jobs[k].status = "queued"
       /\ Before(k, j)

-----------------------------------------------------------------------------
(* Accepting *)

QueuedJobs == {j \in Job : jobs[j].status = "queued"}

BelowDepth == MaxDepth = 0 \/ Cardinality(QueuedJobs) < MaxDepth

EnqueueJob(j, created) ==
  /\ jobs[j].status = "absent"
  /\ BelowDepth
  /\ \E s \in Seqs :
       /\ NextSessionSeq(j, s)
       /\ jobs' = [jobs EXCEPT ![j] =
            [NoTicket("queued") EXCEPT !.maxAttempts = MaxAttempts,
                                       !.seq = s, !.created = created]]

-----------------------------------------------------------------------------
(* Claiming and holding a ticket *)

\* Mutant: a stale ticket is reclaimed whatever budget it has left.
ReclaimableOverBudget(j) ==
  /\ jobs[j].status = "running"
  /\ jobs[j].stale

Reclaimable(j) ==
  /\ jobs[j].status = "running"
  /\ jobs[j].stale
  /\ jobs[j].attempt < jobs[j].maxAttempts

Candidate(w, j) ==
  /\ ~SessionBlocked(j)
  /\ jobs[j].due
  /\ j \in Serves[w]
  /\ jobs[j].status = "queued" \/ Reclaimable(j)

Older(j, k) ==
  \/ jobs[j].created < jobs[k].created
  \/ jobs[j].created = jobs[k].created /\ j <= k

Claimed(j, w) ==
  [jobs[j] EXCEPT !.status = "running", !.lockedBy = w, !.stale = FALSE,
                  !.attempt = @ + 1]

ClaimJob(w, j) ==
  /\ Candidate(w, j)
  /\ \A k \in Job : Candidate(w, k) => Older(j, k)
  /\ jobs' = [jobs EXCEPT ![j] = Claimed(j, w)]

\* One call refreshes every lease the worker names and still owns.
HeartbeatJobs(w, held) ==
  jobs' = [j \in Job |->
    IF j \in held /\ jobs[j].status = "running" /\ jobs[j].lockedBy = w
    THEN [jobs[j] EXCEPT !.stale = FALSE] ELSE jobs[j]]

Settled(j, status) ==
  [jobs[j] EXCEPT !.status = status, !.lockedBy = Nobody, !.stale = FALSE]

\* The compare-and-set of every write an executing leg makes.
OwnsLease(w, j, attempt) ==
  /\ jobs[j].status = "running"
  /\ jobs[j].lockedBy = w
  /\ jobs[j].attempt = attempt

CompleteJob(w, j, attempt, status) ==
  /\ OwnsLease(w, j, attempt)
  /\ status \in {"completed", "cancelled", "failed", "paused"}
  /\ jobs' = [jobs EXCEPT ![j] = Settled(j, status)]

\* due' is FALSE while the retry delay runs, TRUE when it is zero.
RetryOrFailJob(w, j, attempt, due) ==
  /\ OwnsLease(w, j, attempt)
  /\ jobs' = [jobs EXCEPT ![j] =
       IF jobs[j].attempt < jobs[j].maxAttempts
       THEN [Settled(j, "queued") EXCEPT !.due = due]
       ELSE Settled(j, "failed")]

-----------------------------------------------------------------------------
(* The sweep of tickets whose worker is lost and whose budget is spent *)

\* Mutant: the sweep waits for the budget to be exceeded.
SweepableOverBudget(j) ==
  /\ jobs[j].status = "running"
  /\ jobs[j].stale
  /\ jobs[j].attempt > jobs[j].maxAttempts

Sweepable(j) ==
  /\ jobs[j].status = "running"
  /\ jobs[j].stale
  /\ jobs[j].attempt >= jobs[j].maxAttempts

\* The sweeper owns the ticket; the attempt does not change.
AcquireSweep(w, j) ==
  /\ Sweepable(j)
  /\ jobs' = [jobs EXCEPT ![j] =
       [jobs[j] EXCEPT !.lockedBy = w, !.stale = FALSE]]

SettleSweptJob(w, j, status) ==
  /\ status \in {"completed", "cancelled", "paused", "failed"}
  /\ jobs[j].status = "running"
  /\ jobs[j].lockedBy = w
  /\ jobs' = [jobs EXCEPT ![j] = Settled(j, status)]

-----------------------------------------------------------------------------
(* Users and operators *)

SettlePausedJob(j, status) ==
  /\ status \in {"completed", "cancelled", "failed"}
  /\ jobs[j].status = "paused"
  /\ jobs' = [jobs EXCEPT ![j] = Settled(j, status)]

CancelJob(j) ==
  /\ jobs[j].status \in {"queued", "paused"}
  /\ jobs' = [jobs EXCEPT ![j] = [jobs[j] EXCEPT !.status = "cancelled"]]

\* Mutant: a grant starts the attempts over.
GrantedFromZero(j) ==
  [jobs[j] EXCEPT !.status = "queued", !.attempt = 0, !.maxAttempts = 1,
                  !.due = TRUE, !.lockedBy = Nobody, !.stale = FALSE]

\* A ticket queued again with exactly one more execution in its budget.
Granted(j) ==
  [jobs[j] EXCEPT !.status = "queued", !.maxAttempts = jobs[j].attempt + 1,
                  !.due = TRUE, !.lockedBy = Nobody, !.stale = FALSE]

RequeueJob(j) ==
  /\ jobs[j].status \in {"failed", "cancelled"}
  /\ \E s \in Seqs :
       /\ NextSessionSeq(j, s)
       /\ jobs' = [jobs EXCEPT ![j] = [Granted(j) EXCEPT !.seq = s]]

ContinueJob(j) ==
  /\ jobs[j].status = "paused"
  /\ jobs' = [jobs EXCEPT ![j] = Granted(j)]

\* Removes the terminal tickets old enough; paused tickets are exempt.
CleanupJobs(old) ==
  /\ old # {}
  /\ \A j \in old : jobs[j].status \in Terminal
  /\ jobs' = [j \in Job |-> IF j \in old THEN NoTicket("deleted") ELSE jobs[j]]

-----------------------------------------------------------------------------
(* The clock *)

LeaseLapses(j) ==
  /\ jobs[j].status = "running" /\ ~jobs[j].stale
  /\ jobs' = [jobs EXCEPT ![j] = [jobs[j] EXCEPT !.stale = TRUE]]

BackoffEnds(j) ==
  /\ jobs[j].status = "queued" /\ ~jobs[j].due
  /\ jobs' = [jobs EXCEPT ![j] = [jobs[j] EXCEPT !.due = TRUE]]
=============================================================================
