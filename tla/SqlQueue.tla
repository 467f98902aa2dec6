------------------------------ MODULE SqlQueue ------------------------------
(***************************************************************************)
(* The ticket store on Postgres (agno/db/postgres/postgres.py, and its     *)
(* asynchronous twin): the three methods that take several statements,     *)
(* claim_job, enqueue_job and requeue_job, one step per statement, among   *)
(* the others, which write one row each in one statement or under its      *)
(* lock.  Everything runs in READ COMMITTED: each statement sees what was  *)
(* committed when it began.                                                *)
(*                                                                         *)
(* jobs is the committed table.  A row is locked by the transaction that   *)
(* selected it FOR UPDATE, a session by the transaction that has its       *)
(* advisory lock, both until the transaction ends.                         *)
(*                                                                         *)
(* Postgres evaluates a locking scan in two moments: the rows are found in *)
(* the snapshot of the statement, then locked one after the other; a row   *)
(* that has changed in between is looked at again, but beside the other    *)
(* rows as they were in the snapshot.  Whether it is due or stale is       *)
(* judged here at that moment and not by the clock of the transaction's    *)
(* start, which may only let more be claimed.                              *)
(***************************************************************************)
EXTENDS JobQueue

CONSTANT Request   \* requests that submit or requeue a ticket

VARIABLES
  claim,   \* [Worker -> the claim_job transaction of its poll loop]
  door     \* [Request -> its enqueue_job or requeue_job transaction]

sqlVars == <<vars, claim, door>>

\* What a candidate query compares of other rows.
Glance == [status : Status, seq : Nat, created : Nat]

Seen ==
  [j \in Job |->
    [status |-> jobs[j].status, seq |-> jobs[j].seq, created |-> jobs[j].created]]

NothingSeen == [j \in Job |-> [status |-> "absent", seq |-> 0, created |-> 0]]

\* scanning  the candidates left of the snapshot are being locked
\* locked    has the row            serialized  and the session
\* eligible  the candidate may be claimed, its update is next
ClaimTx ==
  [pc : {"idle", "scanning", "locked", "serialized", "eligible"},
   seen : [Job -> Glance], left : SUBSET Job, job : Job \cup {NoJob}]

\* waiting  for the session, with the row in case of a requeue
\* sequencing  has the session      writing  has its place there
\* attempt is the one that a requeue has read.
DoorTx ==
  [pc : {"idle", "waiting", "sequencing", "writing"},
   job : Job \cup {NoJob}, attempt : Nat, seq : Nat]

NoClaim ==
  [pc |-> "idle", seen |-> NothingSeen, left |-> {}, job |-> NoJob]

NoDoor == [pc |-> "idle", job |-> NoJob, attempt |-> 0, seq |-> 0]

SqlTypeOK ==
  /\ TypeOK
  /\ claim \in [Worker -> ClaimTx]
  /\ door \in [Request -> DoorTx]

SqlInit ==
  /\ Init
  /\ claim = [w \in Worker |-> NoClaim]
  /\ door = [r \in Request |-> NoDoor]

-----------------------------------------------------------------------------
(* Locks *)

ClaimHasRow(j) == \E w \in Worker : claim[w].job = j

\* Mutant: requeue_job reads the row without FOR UPDATE.
RowFreeOfClaims(j) == ~ClaimHasRow(j)

RowFree(j) == ~ClaimHasRow(j) /\ \A r \in Request : door[r].job # j

ClaimHasSession(j) ==
  \E w \in Worker : /\ claim[w].pc \in {"serialized", "eligible"}
                     /\ claim[w].job \in SameSession(j)

\* The advisory lock of the session of j.
SessionFree(j) ==
  /\ ~ClaimHasSession(j)
  /\ \A r \in Request :
       door[r].pc \in {"sequencing", "writing"} => door[r].job \notin SameSession(j)

-----------------------------------------------------------------------------
(* claim_job *)

Claims(w, tx) ==
  /\ claim' = [claim EXCEPT ![w] = tx]
  /\ UNCHANGED <<vars, door>>

\* The transaction ends without a claim: the poll loop is told None.
GivesUp(w) == Claims(w, NoClaim)

\* The candidate query finds its rows.
Scan(w) ==
  LET found == {j \in Job : Candidate(w, j)}
  IN  /\ w \in alive /\ sweeping[w] = NoJob
      /\ claim[w].pc = "idle"
      /\ found # {}
      /\ Claims(w, [NoClaim EXCEPT !.pc = "scanning", !.seen = Seen, !.left = found])

\* session_claim_condition of a row looked at again, the rest of its session
\* being what the statement saw.
BlockedInSnapshot(seen, j) ==
  \E k \in SameSession(j) :
    \/ seen[k].status \in Holding
    \/ /\ jobs[j].status = "queued" /\ seen[k].status = "queued"
       /\ \/ seen[k].seq < jobs[j].seq
          \/ seen[k].seq = jobs[j].seq /\ k < j

Passes(w, j) ==
  /\ jobs[j].due
  /\ jobs[j].status = "queued" \/ Reclaimable(j)
  /\ ~BlockedInSnapshot(claim[w].seen, j)

OldestLeft(w, j) ==
  LET seen == claim[w].seen
  IN  /\ j \in claim[w].left
      /\ \A k \in claim[w].left :
           \/ seen[j].created < seen[k].created
           \/ seen[j].created = seen[k].created /\ j <= k

\* FOR UPDATE SKIP LOCKED LIMIT 1: the oldest that can be locked and passes.
LockRow(w) ==
  /\ claim[w].pc = "scanning"
  /\ \E j \in claim[w].left :
       /\ OldestLeft(w, j)
       /\ IF RowFree(j) /\ Passes(w, j)
          THEN Claims(w, [NoClaim EXCEPT
                 !.pc = IF IsSerialized(j) THEN "locked" ELSE "eligible", !.job = j])
          ELSE IF claim[w].left = {j} THEN GivesUp(w)
          ELSE Claims(w, [claim[w] EXCEPT !.left = @ \ {j}])

\* pg_try_advisory_xact_lock.
TrySession(w) ==
  /\ claim[w].pc = "locked"
  /\ IF SessionFree(claim[w].job)
     THEN Claims(w, [claim[w] EXCEPT !.pc = "serialized"])
     ELSE GivesUp(w)

\* Mutant: the session is not looked at again.
RecheckedAlready(j) == TRUE

\* The second evaluation of session_claim_condition.
StillEligible(j) == ~SessionBlocked(j)

Recheck(w) ==
  /\ claim[w].pc = "serialized"
  /\ IF StillEligible(claim[w].job)
     THEN Claims(w, [claim[w] EXCEPT !.pc = "eligible"])
     ELSE GivesUp(w)

\* The update of the row, and the commit.
Take(w) ==
  LET j == claim[w].job
  IN  /\ claim[w].pc = "eligible"
      /\ jobs' = [jobs EXCEPT ![j] = Claimed(j, w)]
      /\ legs' = legs \cup
           {[worker |-> w, job |-> j, attempt |-> jobs[j].attempt + 1]}
      /\ claim' = [claim EXCEPT ![w] = NoClaim]
      /\ UNCHANGED <<sweeping, alive, door>>

\* An error rolls the transaction back.
ClaimFails(w) == claim[w].pc # "idle" /\ GivesUp(w)

-----------------------------------------------------------------------------
(* enqueue_job and requeue_job *)

Asks(r, tx) ==
  /\ door' = [door EXCEPT ![r] = tx]
  /\ UNCHANGED <<vars, claim>>

Entering(j, attempt) ==
  [NoDoor EXCEPT !.pc = IF IsSerialized(j) THEN "waiting" ELSE "writing",
                 !.job = j, !.attempt = attempt]

\* The depth gate counts and the insert comes later.  Ids are never reused.
Submit(r, j) ==
  /\ door[r].pc = "idle"
  /\ jobs[j].status = "absent"
  /\ \A q \in Request : door[q].job # j
  /\ BelowDepth
  /\ Asks(r, Entering(j, 0))

\* requeue_job selects the row FOR UPDATE.
AskAgain(r, j) ==
  /\ door[r].pc = "idle"
  /\ jobs[j].status \in {"failed", "cancelled"}
  /\ jobs[j].attempt < MaxBudget
  /\ \A k \in Job : jobs[k].seq < MaxSeq
  /\ RowFree(j)
  /\ Asks(r, Entering(j, jobs[j].attempt))

\* pg_advisory_xact_lock, which waits.
TakeSession(r) ==
  /\ door[r].pc = "waiting"
  /\ SessionFree(door[r].job)
  /\ Asks(r, [door[r] EXCEPT !.pc = "sequencing"])

\* next_session_seq_query.
Sequence(r) ==
  /\ door[r].pc = "sequencing"
  /\ \E s \in Seqs :
       /\ NextSessionSeq(door[r].job, s)
       /\ Asks(r, [door[r] EXCEPT !.pc = "writing", !.seq = s])

Inserted(r, created) ==
  [NoTicket("queued") EXCEPT !.maxAttempts = MaxAttempts, !.seq = door[r].seq,
                             !.created = created]

\* The budget comes from the row that was read, the attempt stays.
Requeued(r) ==
  [Granted(door[r].job) EXCEPT !.maxAttempts = door[r].attempt + 1,
                               !.seq = door[r].seq]

\* The insert or the update, and the commit.
Write(r) ==
  LET j == door[r].job
  IN  /\ door[r].pc = "writing"
      /\ \E created \in Stamps :
           jobs' = [jobs EXCEPT ![j] =
             IF jobs[j].status = "absent" THEN Inserted(r, created) ELSE Requeued(r)]
      /\ door' = [door EXCEPT ![r] = NoDoor]
      /\ UNCHANGED <<legs, sweeping, alive, claim>>

DoorFails(r) == door[r].pc # "idle" /\ Asks(r, NoDoor)

-----------------------------------------------------------------------------
(* The methods of one statement, or of one row that they lock *)

\* They wait for a locked row and then see it as it has become.  A replica
\* that dies is one whose transaction has failed, whose legs and sweep are
\* left, and that takes no further step.
OfOneRow ==
  /\ \/ \E w \in Worker :
          \/ claim[w].pc = "idle" /\ \E j \in Job : Sweep(w, j)
          \/ Heartbeat(w) \/ EndSweep(w)
     \/ \E l \in legs : EndLeg(l)
     \/ \E j \in Job : Cancel(j) \/ SettlePaused(j) \/ Continue(j)
     \/ Cleanup
  /\ \A j \in Job : jobs'[j] # jobs[j] => RowFree(j)
  /\ UNCHANGED <<claim, door>>

Time ==
  /\ \E j \in Job : Lapse(j) \/ Ready(j)
  /\ UNCHANGED <<claim, door>>

SqlNext ==
  \/ \E w \in Worker : \/ Scan(w) \/ LockRow(w) \/ TrySession(w) \/ Recheck(w)
                        \/ Take(w) \/ ClaimFails(w)
  \/ \E r \in Request : \/ \E j \in Job : Submit(r, j) \/ AskAgain(r, j)
                         \/ TakeSession(r) \/ Sequence(r) \/ Write(r) \/ DoorFails(r)
  \/ OfOneRow \/ Time

SqlSpec == SqlInit /\ [][SqlNext]_sqlVars

-----------------------------------------------------------------------------
(* What the locks are good for *)

\* A row belongs to one transaction at a time.
RowsExclusive ==
  /\ \A w, v \in Worker :
       claim[w].job = claim[v].job => w = v \/ claim[w].job = NoJob
  /\ \A r, q \in Request :
       door[r].job = door[q].job => r = q \/ door[r].job = NoJob
  /\ \A w \in Worker, r \in Request :
       claim[w].job = door[r].job => claim[w].job = NoJob

ClaimInSession(w) == claim[w].pc \in {"serialized", "eligible"}
DoorInSession(r) == door[r].pc \in {"sequencing", "writing"}

\* So does a session, whose rows are none of another transaction's.
SessionsExclusive ==
  /\ \A w, v \in Worker :
       ClaimInSession(w) /\ ClaimInSession(v) =>
         claim[v].job \notin SameSession(claim[w].job)
  /\ \A r, q \in Request :
       DoorInSession(r) /\ DoorInSession(q) =>
         door[q].job \notin SameSession(door[r].job)
  /\ \A w \in Worker, r \in Request :
       ClaimInSession(w) /\ DoorInSession(r) =>
         door[r].job \notin SameSession(claim[w].job)

\* What a claim has read of its row, and of the session in the end, holds
\* until it writes.
ClaimInv(w) ==
  LET j == claim[w].job
  IN  /\ j = NoJob <=> claim[w].pc \in {"idle", "scanning"}
      /\ j # NoJob => jobs[j].status = "queued" \/ Reclaimable(j)
      /\ claim[w].pc = "eligible" => ~SessionBlocked(j)

\* The same of a submit or a requeue, whose place stays the last one.
DoorInv(r) ==
  LET j == door[r].job
  IN  /\ j = NoJob <=> door[r].pc = "idle"
      /\ j # NoJob =>
           IF jobs[j].status = "absent" THEN door[r].attempt = 0
           ELSE /\ jobs[j].status \in {"failed", "cancelled"}
                /\ door[r].attempt = jobs[j].attempt
      /\ door[r].pc = "writing" =>
           \A k \in SameSession(j) :
             jobs[k].status \in Live => jobs[k].seq < door[r].seq

LockInv ==
  /\ RowsExclusive /\ SessionsExclusive
  /\ \A w \in Worker : ClaimInv(w)
  /\ \A r \in Request : DoorInv(r)
=============================================================================
