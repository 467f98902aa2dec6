--------------------------- MODULE SqlQueueProofs ---------------------------
(***************************************************************************)
(* Proofs about SqlQueue, for any sets of tickets, workers, sessions and   *)
(* requests.  The locks make the two writes of several statements what     *)
(* they are in JobQueue, a leg that starts and a ticket that enters; every *)
(* other write is a step of JobQueue.  What JobQueueProofs concludes from  *)
(* such moves then holds of the transactions too.                          *)
(***************************************************************************)
EXTENDS SqlQueue, JobQueueProofs

-----------------------------------------------------------------------------
(* Locks *)

LEMMA SameSessionSymmetric ==
  ASSUME NEW j \in Job, NEW k \in SameSession(j)
  PROVE  k \in Job /\ k # j /\ j \in SameSession(k)
  BY DEF SameSession, IsSerialized

LEMMA RowsHeld ==
  ASSUME SqlTypeOK, LockInv
  PROVE  /\ \A w \in Worker : ClaimInSession(w) => claim[w].job \in Job
         /\ \A r \in Request : DoorInSession(r) => door[r].job \in Job
  BY DEF SqlTypeOK, ClaimTx, DoorTx, LockInv, ClaimInv, DoorInv, ClaimInSession,
         DoorInSession

\* A claim_job transaction that moves on keeps the locks exclusive, if the row
\* and the session it holds are the ones it had or were free.
LEMMA ClaimExclusive ==
  ASSUME SqlTypeOK, LockInv, NEW w \in Worker, NEW tx \in ClaimTx,
         claim' = [claim EXCEPT ![w] = tx], door' = door,
         tx.job = NoJob \/ tx.job = claim[w].job \/ RowFree(tx.job),
         tx.pc \in {"serialized", "eligible"} =>
           \/ ClaimInSession(w) /\ tx.job = claim[w].job
           \/ tx.job \in Job /\ SessionFree(tx.job)
  PROVE  RowsExclusive' /\ SessionsExclusive'
<1>1. claim'[w] = tx /\ \A v \in Worker \ {w} : claim'[v] = claim[v]
  BY DEF SqlTypeOK
<1>2. RowsExclusive'
  BY <1>1 DEF LockInv, RowsExclusive, RowFree, ClaimHasRow
<1>3. ASSUME NEW v \in Worker \ {w}, ClaimInSession(v), ClaimInSession(w)'
      PROVE  /\ claim[v].job \notin SameSession(tx.job)
             /\ tx.job \notin SameSession(claim[v].job)
  <2>1. claim[v].job \notin SameSession(tx.job)
    BY <1>1, <1>3
    DEF LockInv, SessionsExclusive, ClaimInSession, SessionFree, ClaimHasSession
  <2>2. QED
    BY <1>3, <2>1, RowsHeld, SameSessionSymmetric
<1>4. ASSUME NEW r \in Request, DoorInSession(r), ClaimInSession(w)'
      PROVE  door[r].job \notin SameSession(tx.job)
  BY <1>1, <1>4
  DEF LockInv, SessionsExclusive, ClaimInSession, DoorInSession, SessionFree
<1>5. tx.job \notin SameSession(tx.job)
  BY DEF SameSession
<1>6. \A v \in Worker \ {w} : ClaimInSession(v)' => ClaimInSession(v)
  BY <1>1 DEF ClaimInSession
<1>7. SessionsExclusive'
  <2>1. ASSUME NEW u \in Worker, NEW v \in Worker,
               ClaimInSession(u)', ClaimInSession(v)'
        PROVE  claim'[v].job \notin SameSession(claim'[u].job)
    BY <1>1, <1>3, <1>5, <1>6, <2>1 DEF LockInv, SessionsExclusive
  <2>2. ASSUME NEW v \in Worker, NEW r \in Request,
               ClaimInSession(v)', DoorInSession(r)'
        PROVE  door'[r].job \notin SameSession(claim'[v].job)
    BY <1>1, <1>4, <1>6, <2>2 DEF LockInv, SessionsExclusive, DoorInSession
  <2>3. ASSUME NEW q \in Request, NEW r \in Request,
               DoorInSession(q)', DoorInSession(r)'
        PROVE  door'[r].job \notin SameSession(door'[q].job)
    BY <2>3 DEF LockInv, SessionsExclusive, DoorInSession
  <2>4. QED
    BY <2>1, <2>2, <2>3 DEF SessionsExclusive, SameSession, IsSerialized
<1>8. QED
  BY <1>2, <1>7

\* The same of an enqueue_job or requeue_job transaction.
LEMMA DoorExclusive ==
  ASSUME SqlTypeOK, LockInv, NEW r \in Request, NEW tx \in DoorTx,
         door' = [door EXCEPT ![r] = tx], claim' = claim,
         tx.job = NoJob \/ tx.job = door[r].job \/ RowFree(tx.job),
         tx.pc \in {"sequencing", "writing"} =>
           \/ DoorInSession(r) /\ tx.job = door[r].job
           \/ tx.job \in Job /\ SessionFree(tx.job)
  PROVE  RowsExclusive' /\ SessionsExclusive'
<1>1. door'[r] = tx /\ \A q \in Request \ {r} : door'[q] = door[q]
  BY DEF SqlTypeOK
<1>2. RowsExclusive'
  BY <1>1 DEF LockInv, RowsExclusive, RowFree, ClaimHasRow
<1>3. ASSUME NEW q \in Request \ {r}, DoorInSession(q), DoorInSession(r)'
      PROVE  /\ door[q].job \notin SameSession(tx.job)
             /\ tx.job \notin SameSession(door[q].job)
  <2>1. door[q].job \notin SameSession(tx.job)
    BY <1>1, <1>3 DEF LockInv, SessionsExclusive, DoorInSession, SessionFree
  <2>2. QED
    BY <1>3, <2>1, RowsHeld, SameSessionSymmetric
<1>4. ASSUME NEW w \in Worker, ClaimInSession(w), DoorInSession(r)'
      PROVE  tx.job \notin SameSession(claim[w].job)
  <2>1. claim[w].job \in Job
    BY <1>4, RowsHeld
  <2>2. CASE DoorInSession(r) /\ tx.job = door[r].job
    BY <1>4, <2>2 DEF LockInv, SessionsExclusive
  <2>3. CASE tx.job \in Job /\ SessionFree(tx.job)
    <3>1. claim[w].job \notin SameSession(tx.job)
      BY <1>4, <2>3 DEF SessionFree, ClaimHasSession, ClaimInSession
    <3>2. QED
      BY <2>1, <3>1, SameSessionSymmetric
  <2>4. QED
    BY <1>1, <1>4, <2>2, <2>3 DEF DoorInSession
<1>5. tx.job \notin SameSession(tx.job)
  BY DEF SameSession
<1>6. \A q \in Request \ {r} : DoorInSession(q)' => DoorInSession(q)
  BY <1>1 DEF DoorInSession
<1>7. SessionsExclusive'
  <2>1. ASSUME NEW q \in Request, NEW p \in Request,
               DoorInSession(q)', DoorInSession(p)'
        PROVE  door'[p].job \notin SameSession(door'[q].job)
    BY <1>1, <1>3, <1>5, <1>6, <2>1 DEF LockInv, SessionsExclusive
  <2>2. ASSUME NEW w \in Worker, NEW q \in Request,
               ClaimInSession(w)', DoorInSession(q)'
        PROVE  door'[q].job \notin SameSession(claim'[w].job)
    BY <1>1, <1>4, <1>6, <2>2 DEF LockInv, SessionsExclusive, ClaimInSession
  <2>3. ASSUME NEW v \in Worker, NEW w \in Worker,
               ClaimInSession(v)', ClaimInSession(w)'
        PROVE  claim'[w].job \notin SameSession(claim'[v].job)
    BY <2>3 DEF LockInv, SessionsExclusive, ClaimInSession
  <2>4. QED
    BY <2>1, <2>2, <2>3 DEF SessionsExclusive, SameSession, IsSerialized
<1>8. QED
  BY <1>2, <1>7

-----------------------------------------------------------------------------
(* What a transaction has read stays true *)

NoneArrives(j) ==
  \A k \in SameSession(j) :
    jobs'[k].status \in Live => jobs[k].status \in Live /\ jobs'[k].seq = jobs[k].seq

NoneTakes(j) ==
  \A k \in SameSession(j) : jobs'[k].status \in Holding => jobs[k].status \in Holding

LEMMA ClaimStays ==
  ASSUME NEW w \in Worker, NEW j, ClaimInv(w), claim'[w] = claim[w],
         j = claim[w].job,
         j # NoJob => /\ jobs'[j].status = jobs[j].status
                      /\ jobs'[j].seq = jobs[j].seq
                      /\ Reclaimable(j) => Reclaimable(j)',
         claim[w].pc = "eligible" => NoneArrives(j) /\ NoneTakes(j)
  PROVE  ClaimInv(w)'
<1>1. ASSUME claim[w].pc = "eligible", NEW k \in SameSession(j) PROVE
        ~ \/ jobs'[k].status \in Holding
          \/ /\ jobs'[j].status = "queued" /\ jobs'[k].status = "queued"
             /\ \/ jobs'[k].seq < jobs'[j].seq
                \/ jobs'[k].seq = jobs'[j].seq /\ k < j
  <2>1. ~SessionBlocked(j) /\ j # NoJob
    BY <1>1 DEF ClaimInv
  <2>2. jobs[k].status \notin Holding
    BY <2>1 DEF SessionBlocked
  <2>3. jobs'[k].status = "queued" =>
          jobs[k].status = "queued" /\ jobs'[k].seq = jobs[k].seq
    BY <1>1, <2>2 DEF NoneArrives, Live, Holding
  <2>4. ~(jobs[j].status = "queued" /\ jobs[k].status = "queued" /\ Before(k, j))
    BY <2>1 DEF SessionBlocked
  <2>5. jobs'[k].status \notin Holding
    BY <1>1, <2>2 DEF NoneTakes
  <2>6. QED
    BY <2>1, <2>3, <2>4, <2>5 DEF Before
<1>2. claim[w].pc = "eligible" => ~SessionBlocked(j)'
  BY <1>1 DEF SessionBlocked, SameSession, IsSerialized, Before
<1>3. QED
  BY <1>2 DEF ClaimInv

LEMMA DoorStays ==
  ASSUME NEW r \in Request, NEW j, DoorInv(r), door'[r] = door[r],
         j = door[r].job,
         j # NoJob => /\ jobs'[j].status = jobs[j].status
                      /\ jobs'[j].attempt = jobs[j].attempt,
         door[r].pc = "writing" => NoneArrives(j)
  PROVE  DoorInv(r)'
<1>1. door[r].pc = "writing" =>
        \A k \in SameSession(j) : jobs'[k].status \in Live => jobs'[k].seq < door[r].seq
  BY DEF DoorInv, NoneArrives
<1>2. QED
  BY <1>1 DEF DoorInv, SameSession, IsSerialized

\* A statement on one row is a step of JobQueue that starts no leg of a ticket
\* that waits and brings no ticket in.
LEMMA OfOneRowMoves ==
  ASSUME TypeOK, OfOneRow \/ Time
  PROVE  /\ Next
         /\ \A j \in Job :
              /\ jobs'[j].status = "queued" => jobs[j].status \in Live
              /\ jobs'[j].status = "running" => jobs[j].status = "running"
<1> DEFINE Calm == \A j \in Job :
              /\ jobs'[j].status = "queued" => jobs[j].status \in Live
              /\ jobs'[j].status = "running" => jobs[j].status = "running"
<1>a. \A j \in Job : jobs[j] \in Ticket
  BY DEF TypeOK
<1>b. ASSUME NEW j \in Job, NEW status \in Status, jobs[j].status \in Live,
             jobs' = [jobs EXCEPT ![j] = Settled(j, status)], status # "running"
      PROVE  Calm
  <2>1. jobs'[j].status = status /\ \A k \in Job \ {j} : jobs'[k] = jobs[k]
    BY <1>b, SettledFields DEF TypeOK
  <2>2. QED
    BY <1>b, <2>1 DEF Live
<1>1. Next
  <2>1. CASE Time
    BY <2>1 DEF Time, Next
  <2>2. CASE \E w \in Worker : \E j \in Job : Sweep(w, j)
    BY <2>2 DEF Next
  <2>3. CASE \E w \in Worker : Heartbeat(w) \/ EndSweep(w)
    BY <2>3 DEF Next
  <2>4. CASE \E l \in legs : EndLeg(l)
    BY <2>4 DEF Next
  <2>5. CASE \E j \in Job : Cancel(j) \/ SettlePaused(j) \/ Continue(j)
    BY <2>5 DEF Next
  <2>6. CASE Cleanup
    BY <2>6 DEF Next
  <2>7. QED
    BY <2>1, <2>2, <2>3, <2>4, <2>5, <2>6 DEF OfOneRow
<1>2. ASSUME NEW w \in Worker, NEW j \in Job, Sweep(w, j) PROVE Calm
  BY <1>2, <1>a DEF Sweep, AcquireSweep, Sweepable, TypeOK, Ticket, Live
<1>3. ASSUME NEW w \in Worker, Heartbeat(w) PROVE Calm
  BY <1>3, <1>a DEF Heartbeat, HeartbeatJobs, TypeOK, Ticket, Live
<1>4. ASSUME NEW w \in Worker, EndSweep(w) PROVE Calm
  <2>1. ASSUME NEW status \in {"completed", "cancelled", "paused", "failed"},
               SettleSwept(w, status)
        PROVE  Calm
    <3>1. sweeping[w] \in Job /\ status \in Status /\ status # "running"
      BY <2>1 DEF SettleSwept, TypeOK, Status
    <3>2. QED
      BY <2>1, <3>1, <1>b DEF SettleSwept, SettleSweptJob, Live
  <2>2. CASE LeaveSwept(w)
    BY <2>2 DEF LeaveSwept, Live
  <2>3. QED
    BY <1>4, <2>1, <2>2 DEF EndSweep
<1>5. ASSUME NEW l \in legs, EndLeg(l) PROVE Calm
  <2>1. l.job \in Job
    BY DEF TypeOK, Leg
  <2>2. ASSUME NEW status \in {"completed", "cancelled", "failed", "paused"},
               Complete(l, status)
        PROVE  Calm
    <3>1. status \in Status /\ status # "running"
      BY DEF Status
    <3>2. QED
      BY <2>1, <2>2, <3>1, <1>b DEF Complete, CompleteJob, OwnsLease, Live
  <2>3. ASSUME NEW due \in BOOLEAN, RetryOrFail(l, due) PROVE Calm
    <3>1. /\ Settled(l.job, "queued") \in Ticket
          /\ Settled(l.job, "queued").status = "queued"
          /\ Settled(l.job, "failed") \in Ticket
          /\ Settled(l.job, "failed").status = "failed"
      BY <2>1, SettledFields DEF Status
    <3>2. [Settled(l.job, "queued") EXCEPT !.due = due].status = "queued"
      BY <3>1 DEF Ticket
    <3>3. jobs[l.job].status = "running"
      BY <2>3 DEF RetryOrFail, RetryOrFailJob, OwnsLease
    <3>4. jobs'[l.job].status \in {"queued", "failed"}
          /\ \A k \in Job \ {l.job} : jobs'[k] = jobs[k]
      <4>1. CASE jobs[l.job].attempt < jobs[l.job].maxAttempts
        BY <2>1, <2>3, <3>2, <4>1 DEF RetryOrFail, RetryOrFailJob, TypeOK
      <4>2. CASE ~(jobs[l.job].attempt < jobs[l.job].maxAttempts)
        BY <2>1, <2>3, <3>1, <4>2 DEF RetryOrFail, RetryOrFailJob, TypeOK
      <4>3. QED
        BY <4>1, <4>2
    <3>5. QED
      BY <2>1, <3>3, <3>4 DEF Live
  <2>4. CASE LeaveClaim(l)
    BY <2>4 DEF LeaveClaim, Live
  <2>5. QED
    BY <1>5, <2>2, <2>3, <2>4 DEF EndLeg
<1>6. ASSUME NEW j \in Job, Cancel(j) PROVE Calm
  BY <1>6, <1>a DEF Cancel, CancelJob, TypeOK, Ticket, Live
<1>7. ASSUME NEW j \in Job, SettlePaused(j) PROVE Calm
  <2>1. PICK status \in Terminal : SettlePausedJob(j, status)
    BY <1>7 DEF SettlePaused
  <2>2. status \in Status /\ status # "running"
    BY DEF Terminal, Status
  <2>3. QED
    BY <2>1, <2>2, <1>b DEF SettlePausedJob, Live
<1>8. ASSUME NEW j \in Job, Continue(j) PROVE Calm
  <2>1. Granted(j).status = "queued" /\ jobs[j].status = "paused"
        /\ jobs' = [jobs EXCEPT ![j] = Granted(j)]
    BY <1>8, WrittenLocks DEF Continue, ContinueJob, TypeOK
  <2>2. QED
    BY <2>1 DEF TypeOK, Live
<1>9. ASSUME Cleanup PROVE Calm
  BY <1>9, <1>a DEF Cleanup, CleanupJobs, NoTicket, TypeOK, Live
<1>10. ASSUME NEW j \in Job, Lapse(j) \/ Ready(j) PROVE Calm
  BY <1>10, <1>a
  DEF Lapse, LeaseLapses, Ready, BackoffEnds, TypeOK, Ticket, Live
<1>11. Calm
  BY <1>2, <1>3, <1>4, <1>5, <1>6, <1>7, <1>8, <1>9, <1>10 DEF OfOneRow, Time
<1>12. QED
  BY <1>1, <1>11

LEMMA OfOneRowIsQuiet ==
  ASSUME TypeOK, OfOneRow \/ Time, NEW j \in Job
  PROVE  NoneArrives(j) /\ NoneTakes(j)
<1> SUFFICES ASSUME NEW k \in Job
             PROVE  /\ jobs'[k].status \in Live =>
                         jobs[k].status \in Live /\ jobs'[k].seq = jobs[k].seq
                    /\ jobs'[k].status \in Holding => jobs[k].status \in Holding
  BY DEF NoneArrives, NoneTakes, SameSession
<1>1. /\ jobs'[k].status = "queued" => jobs[k].status \in Live
      /\ jobs'[k].status = "running" => jobs[k].status = "running"
  BY OfOneRowMoves
<1>2. Same(k) \/ Moves(k) \/ Disappears(k)
  BY OfOneRowMoves, StepMoves DEF OneMove
<1>3. CASE Same(k) \/ Disappears(k)
  BY <1>3 DEF Same, Kept, Disappears, Live, Holding
<1>4. CASE StartsLeg(k) \/ Enters(k)
  BY <1>1, <1>4 DEF StartsLeg, Enters, Live, Holding
<1>5. CASE GivesBack(k) \/ Parks(k) \/ Ends(k) \/ Resumes(k)
  BY <1>5 DEF GivesBack, Parks, Ends, Resumes, Kept, Live, Holding, Terminal
<1>6. QED
  BY <1>2, <1>3, <1>4, <1>5 DEF Moves

-----------------------------------------------------------------------------
(* The two writes *)

\* The update of claim_job starts a leg of a ticket that may start one.
LEMMA TakeStarts ==
  ASSUME SqlTypeOK, LockInv, NEW w \in Worker, Take(w), NEW j, j = claim[w].job
  PROVE  /\ j \in Job /\ TypeOK'
         /\ StartsLeg(j) /\ \A k \in Job \ {j} : jobs'[k] = jobs[k]
<1>1. j \in Job /\ claim[w].pc = "eligible" /\ TypeOK
  BY DEF Take, LockInv, ClaimInv, SqlTypeOK, ClaimTx
<1>2. Claimed(j, w) \in Ticket /\ Claimed(j, w).lockedBy # Nobody
      /\ Claimed(j, w).status = "running"
  BY <1>1, WrittenTickets, WrittenLocks, WorkerAssumption DEF TypeOK
<1>3. jobs' = [jobs EXCEPT ![j] = Claimed(j, w)]
  BY DEF Take
<1>4. /\ jobs' \in [Job -> Ticket]
      /\ \A k \in Job : jobs'[k].lockedBy # Nobody <=> jobs'[k].status = "running"
  BY <1>1, <1>2, <1>3, OneTicketWritten DEF TypeOK
<1>5. [worker |-> w, job |-> j, attempt |-> jobs[j].attempt + 1] \in Leg
  BY <1>1 DEF TypeOK, Ticket, Leg
<1>6. TypeOK'
  BY <1>1, <1>4, <1>5 DEF Take, TypeOK
<1>7. jobs'[j] = Claimed(j, w) /\ \A k \in Job \ {j} : jobs'[k] = jobs[k]
  BY <1>1, <1>3 DEF TypeOK
<1>8. ~SessionBlocked(j) /\ (jobs[j].status = "queued" \/ Reclaimable(j))
  BY <1>1, NoJobAssumption DEF LockInv, ClaimInv
<1>9. /\ Claimed(j, w).attempt = jobs[j].attempt + 1
      /\ Claimed(j, w).maxAttempts = jobs[j].maxAttempts
      /\ Claimed(j, w).seq = jobs[j].seq
  BY <1>1 DEF Claimed, TypeOK, Ticket
<1>10. StartsLeg(j)
  BY <1>2, <1>7, <1>8, <1>9 DEF StartsLeg
<1>11. QED
  BY <1>1, <1>6, <1>7, <1>10

\* The last statement of enqueue_job or requeue_job brings a ticket in, with a
\* budget to spend and behind every live ticket of its session.
LEMMA WriteEnters ==
  ASSUME SqlTypeOK, LockInv, NEW r \in Request, Write(r), NEW j, j = door[r].job
  PROVE  /\ j \in Job /\ TypeOK'
         /\ Enters(j) /\ \A k \in Job \ {j} : jobs'[k] = jobs[k]
<1>1. j \in Job /\ door[r].pc = "writing" /\ TypeOK
  BY DEF Write, LockInv, DoorInv, SqlTypeOK, DoorTx
<1>2. door[r].seq \in Nat /\ door[r].attempt \in Nat
  BY DEF SqlTypeOK, DoorTx
<1>3. PICK t : /\ jobs' = [jobs EXCEPT ![j] = t]
               /\ \/ /\ jobs[j].status = "absent"
                     /\ \E created \in Stamps : t = Inserted(r, created)
                  \/ jobs[j].status # "absent" /\ t = Requeued(r)
  <2>1. PICK created \in Stamps :
          jobs' = [jobs EXCEPT ![j] =
            IF jobs[j].status = "absent" THEN Inserted(r, created) ELSE Requeued(r)]
    BY DEF Write
  <2>2. QED
    BY <2>1
<1>4. /\ IF jobs[j].status = "absent" THEN door[r].attempt = 0
         ELSE /\ jobs[j].status \in {"failed", "cancelled"}
              /\ door[r].attempt = jobs[j].attempt
      /\ \A k \in SameSession(j) :
           jobs[k].status \in Live => jobs[k].seq < door[r].seq
  BY <1>1, NoJobAssumption DEF LockInv, DoorInv
<1> DEFINE Written == /\ t \in Ticket /\ t.lockedBy = Nobody /\ t.status = "queued"
                      /\ t.seq = door[r].seq /\ t.attempt = door[r].attempt
                      /\ t.maxAttempts \in Nat /\ t.attempt < t.maxAttempts
<1>5. Written
  <2>1. ASSUME NEW created \in Stamps, t = Inserted(r, created),
               jobs[j].status = "absent"
        PROVE  Written
    <3>1. created \in Nat /\ MaxAttempts \in Nat /\ 0 < MaxAttempts
      BY NumberAssumption
    <3>2. t = [status |-> "queued", attempt |-> 0, maxAttempts |-> MaxAttempts,
               lockedBy |-> Nobody, stale |-> FALSE, due |-> TRUE,
               seq |-> door[r].seq, created |-> created]
      BY <2>1 DEF Inserted, NoTicket
    <3>3. QED
      BY <1>2, <1>4, <2>1, <3>1, <3>2 DEF Ticket, Status
  <2>2. CASE t = Requeued(r) /\ jobs[j].status # "absent"
    <3>1. jobs[j] \in Ticket /\ door[r].attempt + 1 \in Nat
      BY <1>1, <1>2 DEF TypeOK
    <3>2. t = [jobs[j] EXCEPT !.status = "queued", !.due = TRUE,
                              !.lockedBy = Nobody, !.stale = FALSE,
                              !.maxAttempts = door[r].attempt + 1,
                              !.seq = door[r].seq]
      BY <2>2, <3>1 DEF Requeued, Granted, Ticket
    <3>3. t.attempt = jobs[j].attempt /\ t.maxAttempts = door[r].attempt + 1
      BY <3>1, <3>2 DEF Ticket
    <3>4. t \in Ticket /\ t.lockedBy = Nobody /\ t.status = "queued"
          /\ t.seq = door[r].seq
      BY <1>2, <3>1, <3>2 DEF Ticket, Status
    <3>5. QED
      BY <1>2, <1>4, <2>2, <3>3, <3>4
  <2>3. QED
    BY <1>3, <2>1, <2>2
<1>6. /\ jobs' \in [Job -> Ticket]
      /\ \A k \in Job : jobs'[k].lockedBy # Nobody <=> jobs'[k].status = "running"
  BY <1>1, <1>3, <1>5, OneTicketWritten DEF TypeOK
<1>7. TypeOK'
  BY <1>1, <1>6 DEF Write, TypeOK
<1>8. jobs'[j] = t /\ \A k \in Job \ {j} : jobs'[k] = jobs[k]
  BY <1>1, <1>3 DEF TypeOK
<1>9. Enters(j)
  BY <1>4, <1>5, <1>8 DEF Enters
<1>10. QED
  BY <1>1, <1>7, <1>8, <1>9

\* Every step of the transactions does to the table what JobQueue does.
LEMMA TableStep ==
  ASSUME SqlTypeOK, LockInv, [SqlNext]_sqlVars
  PROVE  TypeOK' /\ OneMove
<1>1. CASE UNCHANGED vars
  BY <1>1, TypeStep, StepMoves DEF SqlTypeOK
<1>2. CASE OfOneRow \/ Time
  BY <1>2, OfOneRowMoves, TypeStep, StepMoves DEF SqlTypeOK
<1>3. ASSUME NEW w \in Worker, Take(w) PROVE TypeOK' /\ OneMove
  BY <1>3, TakeStarts DEF OneMove, Moves, Same, Kept
<1>4. ASSUME NEW r \in Request, Write(r) PROVE TypeOK' /\ OneMove
  BY <1>4, WriteEnters DEF OneMove, Moves, Same, Kept
<1>5. ASSUME NEW w \in Worker,
             Scan(w) \/ LockRow(w) \/ TrySession(w) \/ Recheck(w) \/ ClaimFails(w)
      PROVE  UNCHANGED vars
  BY <1>5 DEF Scan, LockRow, TrySession, Recheck, ClaimFails, GivesUp, Claims
<1>6. ASSUME NEW r \in Request, NEW j \in Job, Submit(r, j) \/ AskAgain(r, j)
      PROVE  UNCHANGED vars
  BY <1>6 DEF Submit, AskAgain, Asks
<1>7. ASSUME NEW r \in Request, TakeSession(r) \/ Sequence(r) \/ DoorFails(r)
      PROVE  UNCHANGED vars
  BY <1>7 DEF TakeSession, Sequence, DoorFails, Asks
<1>8. QED
  BY <1>1, <1>2, <1>3, <1>4, <1>5, <1>6, <1>7 DEF SqlNext, sqlVars

-----------------------------------------------------------------------------
(* The invariant of the locks *)

LEMMA TableAtRest ==
  ASSUME UNCHANGED vars, NEW j
  PROVE  /\ NoneArrives(j) /\ NoneTakes(j)
         /\ Reclaimable(j)' <=> Reclaimable(j)
         /\ SessionBlocked(j)' <=> SessionBlocked(j)
  BY DEF vars, NoneArrives, NoneTakes, Reclaimable, SessionBlocked, SameSession,
         IsSerialized, Before

LEMMA ClaimMoves ==
  ASSUME SqlTypeOK, LockInv, NEW w \in Worker, NEW tx \in ClaimTx, Claims(w, tx),
         tx.job = NoJob \/ tx.job = claim[w].job \/ RowFree(tx.job),
         tx.pc \in {"serialized", "eligible"} =>
           \/ ClaimInSession(w) /\ tx.job = claim[w].job
           \/ tx.job \in Job /\ SessionFree(tx.job),
         tx.job = NoJob <=> tx.pc \in {"idle", "scanning"},
         tx.job # NoJob => jobs[tx.job].status = "queued" \/ Reclaimable(tx.job),
         tx.pc = "eligible" => ~SessionBlocked(tx.job)
  PROVE  claim' \in [Worker -> ClaimTx] /\ door' = door /\ LockInv'
<1>1. /\ claim' = [claim EXCEPT ![w] = tx] /\ door' = door
      /\ UNCHANGED vars /\ UNCHANGED jobs
  BY DEF Claims, vars
<1>2. claim' \in [Worker -> ClaimTx]
  BY <1>1 DEF SqlTypeOK
<1>3. RowsExclusive' /\ SessionsExclusive'
  BY <1>1, ClaimExclusive
<1>4. claim'[w] = tx /\ \A v \in Worker \ {w} : claim'[v] = claim[v]
  BY <1>1 DEF SqlTypeOK
<1>5. ClaimInv(w)'
  BY <1>1, <1>4, TableAtRest DEF ClaimInv
<1>6. ASSUME NEW v \in Worker \ {w} PROVE ClaimInv(v)'
  BY <1>1, <1>4, TableAtRest, ClaimStays DEF LockInv
<1>7. ASSUME NEW r \in Request PROVE DoorInv(r)'
  BY <1>1, TableAtRest, DoorStays DEF LockInv
<1>8. QED
  BY <1>1, <1>2, <1>3, <1>5, <1>6, <1>7 DEF LockInv

LEMMA DoorMoves ==
  ASSUME SqlTypeOK, LockInv, NEW r \in Request, NEW tx \in DoorTx, Asks(r, tx),
         tx.job = NoJob \/ tx.job = door[r].job \/ RowFree(tx.job),
         tx.pc \in {"sequencing", "writing"} =>
           \/ DoorInSession(r) /\ tx.job = door[r].job
           \/ tx.job \in Job /\ SessionFree(tx.job),
         tx.job = NoJob <=> tx.pc = "idle",
         tx.job # NoJob =>
           IF jobs[tx.job].status = "absent" THEN tx.attempt = 0
           ELSE /\ jobs[tx.job].status \in {"failed", "cancelled"}
                /\ tx.attempt = jobs[tx.job].attempt,
         tx.pc = "writing" =>
           \A k \in SameSession(tx.job) :
             jobs[k].status \in Live => jobs[k].seq < tx.seq
  PROVE  door' \in [Request -> DoorTx] /\ claim' = claim /\ LockInv'
<1>1. /\ door' = [door EXCEPT ![r] = tx] /\ claim' = claim
      /\ UNCHANGED vars /\ UNCHANGED jobs
  BY DEF Asks, vars
<1>2. door' \in [Request -> DoorTx]
  BY <1>1 DEF SqlTypeOK
<1>3. RowsExclusive' /\ SessionsExclusive'
  BY <1>1, DoorExclusive
<1>4. door'[r] = tx /\ \A q \in Request \ {r} : door'[q] = door[q]
  BY <1>1 DEF SqlTypeOK
<1>5. DoorInv(r)'
  BY <1>1, <1>4 DEF DoorInv, SameSession, IsSerialized
<1>6. ASSUME NEW q \in Request \ {r} PROVE DoorInv(q)'
  BY <1>1, <1>4, TableAtRest, DoorStays DEF LockInv
<1>7. ASSUME NEW w \in Worker PROVE ClaimInv(w)'
  BY <1>1, TableAtRest, ClaimStays DEF LockInv
<1>8. QED
  BY <1>1, <1>2, <1>3, <1>5, <1>6, <1>7 DEF LockInv

\* Giving the locks back is always safe.
LEMMA NoneIsATransaction == NoClaim \in ClaimTx /\ NoDoor \in DoorTx
  BY DEF NoClaim, NothingSeen, ClaimTx, Glance, Status, NoDoor, DoorTx

LEMMA GivesUpKeeps ==
  ASSUME SqlTypeOK, LockInv, NEW w \in Worker, GivesUp(w)
  PROVE  claim' \in [Worker -> ClaimTx] /\ door' = door /\ LockInv'
<1>1. NoClaim.job = NoJob /\ NoClaim.pc = "idle"
  BY DEF NoClaim
<1>2. QED
  BY <1>1, NoneIsATransaction, ClaimMoves DEF GivesUp

LEMMA ClaimStepKeeps ==
  ASSUME SqlTypeOK, LockInv, NEW w \in Worker,
         Scan(w) \/ LockRow(w) \/ TrySession(w) \/ Recheck(w) \/ ClaimFails(w)
  PROVE  claim' \in [Worker -> ClaimTx] /\ door' = door /\ LockInv'
<1>1. claim[w] \in ClaimTx
  BY DEF SqlTypeOK
<1>2. ClaimInv(w)
  BY DEF LockInv
<1>3. CASE Scan(w)
  <2> DEFINE found == {j \in Job : Candidate(w, j)}
             tx == [NoClaim EXCEPT !.pc = "scanning", !.seen = Seen, !.left = found]
  <2>1. Seen \in [Job -> Glance]
    BY DEF Seen, Glance, SqlTypeOK, TypeOK, Ticket
  <2>2. tx \in ClaimTx /\ tx.job = NoJob /\ tx.pc = "scanning"
    BY <2>1 DEF NoClaim, NothingSeen, ClaimTx
  <2>3. Claims(w, tx)
    BY <1>3 DEF Scan
  <2> HIDE DEF tx
  <2>4. QED
    BY <2>2, <2>3, ClaimMoves
<1>4. CASE LockRow(w)
  <2>1. PICK j \in claim[w].left :
          IF RowFree(j) /\ Passes(w, j)
          THEN Claims(w, [NoClaim EXCEPT
                 !.pc = IF IsSerialized(j) THEN "locked" ELSE "eligible", !.job = j])
          ELSE IF claim[w].left = {j} THEN GivesUp(w)
          ELSE Claims(w, [claim[w] EXCEPT !.left = @ \ {j}])
    BY <1>4 DEF LockRow
  <2>2. j \in Job /\ claim[w].pc = "scanning"
    BY <1>1, <1>4 DEF LockRow, ClaimTx
  <2>3. CASE RowFree(j) /\ Passes(w, j)
    <3> DEFINE tx == [NoClaim EXCEPT
                 !.pc = IF IsSerialized(j) THEN "locked" ELSE "eligible", !.job = j]
    <3>1. /\ tx \in ClaimTx /\ tx.job = j
          /\ tx.pc = IF IsSerialized(j) THEN "locked" ELSE "eligible"
      BY <2>2 DEF NoClaim, NothingSeen, ClaimTx, Glance, Status
    <3>2. Claims(w, tx)
      BY <2>1, <2>3
    <3> HIDE DEF tx
    <3>3. tx.pc = "eligible" => SameSession(j) = {}
      BY <3>1 DEF SameSession
    <3>4. tx.pc = "eligible" => ~SessionBlocked(j) /\ SessionFree(j)
      BY <3>3 DEF SessionBlocked, SessionFree, ClaimHasSession
    <3>5. tx.pc \notin {"serialized", "idle", "scanning"} /\ tx.job # NoJob
      BY <2>2, <3>1, NoJobAssumption
    <3>6. jobs[j].status = "queued" \/ Reclaimable(j)
      BY <2>3 DEF Passes
    <3>7. QED
      BY <2>2, <2>3, <3>1, <3>2, <3>4, <3>5, <3>6, ClaimMoves
  <2>4. CASE ~(RowFree(j) /\ Passes(w, j)) /\ claim[w].left = {j}
    BY <2>1, <2>4, GivesUpKeeps
  <2>5. CASE ~(RowFree(j) /\ Passes(w, j)) /\ claim[w].left # {j}
    <3> DEFINE tx == [claim[w] EXCEPT !.left = @ \ {j}]
    <3>1. tx \in ClaimTx /\ tx.job = claim[w].job /\ tx.pc = "scanning"
      BY <1>1, <2>2 DEF ClaimTx
    <3>2. Claims(w, tx)
      BY <2>1, <2>5
    <3>3. claim[w].job = NoJob
      BY <1>2, <2>2 DEF ClaimInv
    <3> HIDE DEF tx
    <3>4. QED
      BY <3>1, <3>2, <3>3, ClaimMoves
  <2>6. QED
    BY <2>3, <2>4, <2>5
<1>5. CASE TrySession(w)
  <2>1. CASE SessionFree(claim[w].job)
    <3> DEFINE tx == [claim[w] EXCEPT !.pc = "serialized"]
    <3>1. tx \in ClaimTx /\ tx.job = claim[w].job /\ tx.pc = "serialized"
      BY <1>1 DEF ClaimTx
    <3>2. Claims(w, tx) /\ claim[w].pc = "locked"
      BY <1>5, <2>1 DEF TrySession
    <3>3. claim[w].job # NoJob /\ claim[w].job \in Job
      BY <1>1, <1>2, <3>2 DEF ClaimInv, ClaimTx
    <3>4. jobs[claim[w].job].status = "queued" \/ Reclaimable(claim[w].job)
      BY <1>2, <3>3 DEF ClaimInv
    <3> HIDE DEF tx
    <3>5. QED
      BY <2>1, <3>1, <3>2, <3>3, <3>4, ClaimMoves
  <2>2. QED
    BY <1>5, <2>1, GivesUpKeeps DEF TrySession
<1>6. CASE Recheck(w)
  <2>1. CASE StillEligible(claim[w].job)
    <3> DEFINE tx == [claim[w] EXCEPT !.pc = "eligible"]
    <3>1. tx \in ClaimTx /\ tx.job = claim[w].job /\ tx.pc = "eligible"
      BY <1>1 DEF ClaimTx
    <3>2. Claims(w, tx) /\ claim[w].pc = "serialized"
      BY <1>6, <2>1 DEF Recheck
    <3>3. claim[w].job # NoJob /\ ClaimInSession(w)
      BY <1>2, <3>2 DEF ClaimInv, ClaimInSession
    <3>4. /\ jobs[claim[w].job].status = "queued" \/ Reclaimable(claim[w].job)
          /\ ~SessionBlocked(claim[w].job)
      BY <1>2, <2>1, <3>3 DEF ClaimInv, StillEligible
    <3> HIDE DEF tx
    <3>5. QED
      BY <3>1, <3>2, <3>3, <3>4, ClaimMoves
  <2>2. QED
    BY <1>6, <2>1, GivesUpKeeps DEF Recheck
<1>7. CASE ClaimFails(w)
  BY <1>7, GivesUpKeeps DEF ClaimFails
<1>8. QED
  BY <1>3, <1>4, <1>5, <1>6, <1>7

LEMMA DoorStepKeeps ==
  ASSUME SqlTypeOK, LockInv, NEW r \in Request,
         \/ \E j \in Job : Submit(r, j) \/ AskAgain(r, j)
         \/ TakeSession(r) \/ Sequence(r) \/ DoorFails(r)
  PROVE  door' \in [Request -> DoorTx] /\ claim' = claim /\ LockInv'
<1>1. door[r] \in DoorTx /\ DoorInv(r)
  BY DEF SqlTypeOK, LockInv
<1>2. ASSUME NEW j \in Job, NEW attempt \in Nat, Asks(r, Entering(j, attempt)),
             RowFree(j),
             IF jobs[j].status = "absent" THEN attempt = 0
             ELSE jobs[j].status \in {"failed", "cancelled"} /\ attempt = jobs[j].attempt
      PROVE  door' \in [Request -> DoorTx] /\ claim' = claim /\ LockInv'
  <2> DEFINE tx == Entering(j, attempt)
  <2>1. /\ tx \in DoorTx /\ tx.job = j /\ tx.attempt = attempt
        /\ tx.pc = IF IsSerialized(j) THEN "waiting" ELSE "writing"
    BY <1>2 DEF Entering, NoDoor, DoorTx
  <2>2. tx.pc = "writing" => SameSession(j) = {}
    BY <2>1 DEF SameSession
  <2>3. tx.pc = "writing" => SessionFree(j)
    BY <2>2 DEF SessionFree, ClaimHasSession
  <2>4. tx.pc \in {"waiting", "writing"} /\ tx.job # NoJob
    BY <2>1, NoJobAssumption
  <2>5. Asks(r, tx)
    BY <1>2
  <2> HIDE DEF tx
  <2>6. QED
    BY <1>2, <2>1, <2>2, <2>3, <2>4, <2>5, DoorMoves
<1>3. ASSUME NEW j \in Job, Submit(r, j)
      PROVE  door' \in [Request -> DoorTx] /\ claim' = claim /\ LockInv'
  <2>1. ~ClaimHasRow(j)
    BY <1>3, NoJobAssumption DEF Submit, ClaimHasRow, LockInv, ClaimInv, Reclaimable
  <2>2. RowFree(j)
    BY <1>3, <2>1 DEF Submit, RowFree
  <2>3. QED
    BY <1>3, <2>2, <1>2 DEF Submit
<1>4. ASSUME NEW j \in Job, AskAgain(r, j)
      PROVE  door' \in [Request -> DoorTx] /\ claim' = claim /\ LockInv'
  <2>1. jobs[j].attempt \in Nat
    BY DEF SqlTypeOK, TypeOK, Ticket
  <2>2. QED
    BY <1>4, <2>1, <1>2 DEF AskAgain
<1>5. CASE TakeSession(r)
  <2> DEFINE tx == [door[r] EXCEPT !.pc = "sequencing"]
  <2>1. /\ tx \in DoorTx /\ tx.job = door[r].job /\ tx.pc = "sequencing"
        /\ tx.attempt = door[r].attempt
    BY <1>1 DEF DoorTx
  <2>2. Asks(r, tx) /\ door[r].pc = "waiting" /\ SessionFree(door[r].job)
    BY <1>5 DEF TakeSession
  <2>3. door[r].job # NoJob /\ door[r].job \in Job
    BY <1>1, <2>2 DEF DoorInv, DoorTx
  <2> HIDE DEF tx
  <2>4. QED
    BY <1>1, <2>1, <2>2, <2>3, DoorMoves DEF DoorInv
<1>6. CASE Sequence(r)
  <2>1. PICK s \in Seqs :
          /\ NextSessionSeq(door[r].job, s)
          /\ Asks(r, [door[r] EXCEPT !.pc = "writing", !.seq = s])
    BY <1>6 DEF Sequence
  <2>2. s \in Nat
    BY DEF SqlTypeOK, TypeOK, Seqs, Ticket
  <2> DEFINE tx == [door[r] EXCEPT !.pc = "writing", !.seq = s]
  <2>3. /\ tx \in DoorTx /\ tx.job = door[r].job /\ tx.pc = "writing"
        /\ tx.attempt = door[r].attempt /\ tx.seq = s
    BY <1>1, <2>2 DEF DoorTx
  <2>4. door[r].pc = "sequencing" /\ door[r].job # NoJob /\ DoorInSession(r)
    BY <1>1, <1>6 DEF Sequence, DoorInv, DoorInSession
  <2>5. \A k \in SameSession(door[r].job) :
          jobs[k].status \in Live => jobs[k].seq < s
    BY <2>1 DEF NextSessionSeq, SameSession
  <2>6. Asks(r, tx)
    BY <2>1
  <2> HIDE DEF tx
  <2>7. QED
    BY <1>1, <2>3, <2>4, <2>5, <2>6, DoorMoves DEF DoorInv
<1>7. CASE DoorFails(r)
  <2>1. NoDoor.job = NoJob /\ NoDoor.pc = "idle"
    BY DEF NoDoor
  <2>2. QED
    BY <1>7, <2>1, NoneIsATransaction, DoorMoves DEF DoorFails
<1>8. QED
  BY <1>3, <1>4, <1>5, <1>6, <1>7

LEMMA TakeKeeps ==
  ASSUME SqlTypeOK, LockInv, NEW w \in Worker, Take(w)
  PROVE  claim' \in [Worker -> ClaimTx] /\ door' = door /\ LockInv'
<1> DEFINE j == claim[w].job
<1>1. /\ j \in Job /\ claim[w].pc = "eligible" /\ StartsLeg(j)
      /\ \A k \in Job \ {j} : jobs'[k] = jobs[k]
  BY TakeStarts DEF Take
<1>2. claim' = [claim EXCEPT ![w] = NoClaim] /\ door' = door
  BY DEF Take
<1>3. NoClaim.job = NoJob /\ NoClaim.pc = "idle"
  BY DEF NoClaim
<1>4. RowsExclusive' /\ SessionsExclusive'
  BY <1>2, <1>3, NoneIsATransaction, ClaimExclusive
<1>5. claim'[w] = NoClaim /\ \A v \in Worker \ {w} : claim'[v] = claim[v]
  BY <1>2 DEF SqlTypeOK
<1>6. ClaimInv(w)'
  BY <1>3, <1>5 DEF ClaimInv
<1>7. ASSUME NEW v \in Worker \ {w} PROVE ClaimInv(v)'
  <2> DEFINE i == claim[v].job
  <2>1. i # j
    BY <1>1, NoJobAssumption DEF LockInv, RowsExclusive
  <2>2. i \in Job \cup {NoJob}
    BY DEF SqlTypeOK, ClaimTx
  <2>3. i # NoJob => jobs'[i] = jobs[i]
    BY <1>1, <2>1, <2>2
  <2>4. claim[v].pc = "eligible" => j \notin SameSession(i)
    BY <1>1 DEF LockInv, SessionsExclusive, ClaimInSession
  <2>5. claim[v].pc = "eligible" => NoneArrives(i) /\ NoneTakes(i)
    BY <1>1, <2>4 DEF NoneArrives, NoneTakes, SameSession
  <2>6. ClaimInv(v) /\ claim'[v] = claim[v]
    BY <1>5 DEF LockInv
  <2>7. QED
    BY <2>3, <2>5, <2>6, ClaimStays DEF Reclaimable
<1>8. ASSUME NEW r \in Request PROVE DoorInv(r)'
  <2> DEFINE i == door[r].job
  <2>1. i # j
    BY <1>1, NoJobAssumption DEF LockInv, RowsExclusive
  <2>2. i \in Job \cup {NoJob}
    BY DEF SqlTypeOK, DoorTx
  <2>3. i # NoJob => jobs'[i] = jobs[i]
    BY <1>1, <2>1, <2>2
  <2>4. NoneArrives(i)
    BY <1>1 DEF NoneArrives, SameSession, StartsLeg, Reclaimable, Live
  <2>5. QED
    BY <1>2, <2>3, <2>4, DoorStays DEF LockInv
<1>9. claim' \in [Worker -> ClaimTx]
  BY <1>2, NoneIsATransaction DEF SqlTypeOK
<1>10. QED
  BY <1>2, <1>4, <1>6, <1>7, <1>8, <1>9 DEF LockInv

LEMMA WriteKeeps ==
  ASSUME SqlTypeOK, LockInv, NEW r \in Request, Write(r)
  PROVE  door' \in [Request -> DoorTx] /\ claim' = claim /\ LockInv'
<1> DEFINE j == door[r].job
<1>1. /\ j \in Job /\ door[r].pc = "writing"
      /\ \A k \in Job \ {j} : jobs'[k] = jobs[k]
  BY WriteEnters DEF Write
<1>2. door' = [door EXCEPT ![r] = NoDoor] /\ claim' = claim
  BY DEF Write
<1>3. NoDoor.job = NoJob /\ NoDoor.pc = "idle"
  BY DEF NoDoor
<1>4. RowsExclusive' /\ SessionsExclusive'
  BY <1>2, <1>3, NoneIsATransaction, DoorExclusive
<1>5. door'[r] = NoDoor /\ \A q \in Request \ {r} : door'[q] = door[q]
  BY <1>2 DEF SqlTypeOK
<1>6. DoorInv(r)'
  BY <1>3, <1>5 DEF DoorInv
<1>7. ASSUME NEW q \in Request \ {r} PROVE DoorInv(q)'
  <2> DEFINE i == door[q].job
  <2>1. i # j
    BY <1>1, NoJobAssumption DEF LockInv, RowsExclusive
  <2>2. i \in Job \cup {NoJob}
    BY DEF SqlTypeOK, DoorTx
  <2>3. i # NoJob => jobs'[i] = jobs[i]
    BY <1>1, <2>1, <2>2
  <2>4. door[q].pc = "writing" => j \notin SameSession(i)
    BY <1>1 DEF LockInv, SessionsExclusive, DoorInSession
  <2>5. door[q].pc = "writing" => NoneArrives(i)
    BY <1>1, <2>4 DEF NoneArrives, SameSession
  <2>6. DoorInv(q) /\ door'[q] = door[q]
    BY <1>5 DEF LockInv
  <2>7. QED
    BY <2>3, <2>5, <2>6, DoorStays
<1>8. ASSUME NEW w \in Worker PROVE ClaimInv(w)'
  <2> DEFINE i == claim[w].job
  <2>1. i # j
    BY <1>1, NoJobAssumption DEF LockInv, RowsExclusive
  <2>2. i \in Job \cup {NoJob}
    BY DEF SqlTypeOK, ClaimTx
  <2>3. i # NoJob => jobs'[i] = jobs[i]
    BY <1>1, <2>1, <2>2
  <2>4. claim[w].pc = "eligible" => j \notin SameSession(i)
    BY <1>1 DEF LockInv, SessionsExclusive, ClaimInSession, DoorInSession
  <2>5. claim[w].pc = "eligible" => NoneArrives(i) /\ NoneTakes(i)
    BY <1>1, <2>4 DEF NoneArrives, NoneTakes, SameSession
  <2>6. ClaimInv(w) /\ claim'[w] = claim[w]
    BY <1>2 DEF LockInv
  <2>7. QED
    BY <2>3, <2>5, <2>6, ClaimStays DEF Reclaimable
<1>9. door' \in [Request -> DoorTx]
  BY <1>2, NoneIsATransaction DEF SqlTypeOK
<1>10. QED
  BY <1>2, <1>4, <1>6, <1>7, <1>8, <1>9 DEF LockInv

LEMMA OneRowKeeps ==
  ASSUME SqlTypeOK, LockInv, OfOneRow \/ Time
  PROVE  claim' = claim /\ door' = door /\ LockInv'
<1>1. claim' = claim /\ door' = door /\ TypeOK
  BY DEF OfOneRow, Time, SqlTypeOK
<1>2. ASSUME NEW j \in Job,
             ~RowFree(j),
             \/ jobs[j].status = "queued" \/ Reclaimable(j)
             \/ jobs[j].status \in {"absent", "failed", "cancelled"}
      PROVE  /\ jobs'[j].status = jobs[j].status /\ jobs'[j].seq = jobs[j].seq
             /\ jobs'[j].attempt = jobs[j].attempt
             /\ Reclaimable(j) => Reclaimable(j)'
  <2>1. CASE OfOneRow
    <3>1. jobs'[j] = jobs[j]
      BY <1>2, <2>1 DEF OfOneRow
    <3>2. QED
      BY <3>1 DEF Reclaimable
  <2>2. CASE Time
    BY <1>1, <1>2, <2>2
    DEF Time, Lapse, LeaseLapses, Ready, BackoffEnds, Reclaimable, TypeOK, Ticket
  <2>3. QED
    BY <2>1, <2>2
<1>3. ASSUME NEW w \in Worker PROVE ClaimInv(w)'
  <2> PICK j : j = claim[w].job
    OBVIOUS
  <2>1. ClaimInv(w) /\ j \in Job \cup {NoJob}
    BY DEF LockInv, SqlTypeOK, ClaimTx
  <2>2. j # NoJob => ~RowFree(j)
    BY DEF RowFree, ClaimHasRow
  <2>3. ASSUME j # NoJob
        PROVE  /\ jobs'[j].status = jobs[j].status /\ jobs'[j].seq = jobs[j].seq
               /\ Reclaimable(j) => Reclaimable(j)'
    <3>1. j \in Job /\ ~RowFree(j)
      BY <2>1, <2>2, <2>3
    <3>2. jobs[j].status = "queued" \/ Reclaimable(j)
      BY <2>1, <2>3 DEF ClaimInv
    <3>3. QED
      BY <1>2, <3>1, <3>2
  <2>4. claim[w].pc = "eligible" => NoneArrives(j) /\ NoneTakes(j)
    BY <1>1, <2>1, OfOneRowIsQuiet DEF ClaimInv
  <2>5. QED
    BY <1>1, <2>1, <2>3, <2>4, ClaimStays
<1>4. ASSUME NEW r \in Request PROVE DoorInv(r)'
  <2> DEFINE j == door[r].job
  <2>1. DoorInv(r) /\ j \in Job \cup {NoJob}
    BY DEF LockInv, SqlTypeOK, DoorTx
  <2>2. j # NoJob => ~RowFree(j)
    BY DEF RowFree
  <2>3. j # NoJob => jobs[j].status \in {"absent", "failed", "cancelled"}
    BY <2>1 DEF DoorInv
  <2>4. j # NoJob => /\ jobs'[j].status = jobs[j].status
                     /\ jobs'[j].attempt = jobs[j].attempt
    BY <1>2, <2>1, <2>2, <2>3
  <2>5. door[r].pc = "writing" => NoneArrives(j)
    BY <1>1, <2>1, OfOneRowIsQuiet DEF DoorInv
  <2>6. QED
    BY <1>1, <2>1, <2>4, <2>5, DoorStays
<1>5. RowsExclusive' /\ SessionsExclusive'
  BY <1>1
  DEF LockInv, RowsExclusive, SessionsExclusive, ClaimInSession, DoorInSession,
      SameSession, IsSerialized
<1>6. QED
  BY <1>1, <1>3, <1>4, <1>5 DEF LockInv

LEMMA SqlStep == SqlTypeOK /\ LockInv /\ [SqlNext]_sqlVars => SqlTypeOK' /\ LockInv'
<1> SUFFICES ASSUME SqlTypeOK, LockInv, [SqlNext]_sqlVars PROVE SqlTypeOK' /\ LockInv'
  OBVIOUS
<1> DEFINE Goal == /\ claim' \in [Worker -> ClaimTx] /\ door' \in [Request -> DoorTx]
                   /\ LockInv'
<1>1. claim \in [Worker -> ClaimTx] /\ door \in [Request -> DoorTx]
  BY DEF SqlTypeOK
<1>2. ASSUME NEW w \in Worker,
             Scan(w) \/ LockRow(w) \/ TrySession(w) \/ Recheck(w) \/ ClaimFails(w)
      PROVE  Goal
  BY <1>1, <1>2, ClaimStepKeeps
<1>3. ASSUME NEW w \in Worker, Take(w) PROVE Goal
  BY <1>1, <1>3, TakeKeeps
<1>4. ASSUME NEW r \in Request,
             \/ \E j \in Job : Submit(r, j) \/ AskAgain(r, j)
             \/ TakeSession(r) \/ Sequence(r) \/ DoorFails(r)
      PROVE  Goal
  BY <1>1, <1>4, DoorStepKeeps
<1>5. ASSUME NEW r \in Request, Write(r) PROVE Goal
  BY <1>1, <1>5, WriteKeeps
<1>6. ASSUME OfOneRow \/ Time PROVE Goal
  BY <1>1, <1>6, OneRowKeeps
<1>7. ASSUME UNCHANGED sqlVars PROVE Goal
  <2>1. UNCHANGED vars /\ claim' = claim /\ door' = door
    BY <1>7 DEF sqlVars
  <2>2. \A w \in Worker : ClaimInv(w)'
    BY <2>1, TableAtRest, ClaimStays DEF LockInv, vars
  <2>3. \A r \in Request : DoorInv(r)'
    BY <2>1, TableAtRest, DoorStays DEF LockInv, vars
  <2>4. RowsExclusive' /\ SessionsExclusive'
    BY <2>1
    DEF LockInv, RowsExclusive, SessionsExclusive, ClaimInSession, DoorInSession,
        SameSession, IsSerialized
  <2>5. QED
    BY <1>1, <2>1, <2>2, <2>3, <2>4 DEF LockInv
<1>8. Goal
  BY <1>2, <1>3, <1>4, <1>5, <1>6, <1>7 DEF SqlNext
<1>9. QED
  BY <1>8, TableStep DEF SqlTypeOK

-----------------------------------------------------------------------------
(* What the transactions guarantee *)

\* The locks are exclusive, and what a transaction has read of its row and of
\* its session holds until it writes, in whatever order the statements of any
\* number of replicas and requests are executed.
THEOREM LocksHold == SqlSpec => [](SqlTypeOK /\ LockInv)
<1>1. SqlInit => SqlTypeOK /\ LockInv
  <2> SUFFICES ASSUME SqlInit PROVE SqlTypeOK /\ LockInv
    OBVIOUS
  <2>1. TypeOK
    BY DEF SqlInit, Init, StoreInit, NoTicket, TypeOK, Ticket, Status
  <2>2. SqlTypeOK
    BY <2>1, NoneIsATransaction DEF SqlInit, SqlTypeOK
  <2>3. LockInv
    BY DEF SqlInit, NoClaim, NoDoor, LockInv, RowsExclusive, SessionsExclusive,
           ClaimInSession, DoorInSession, ClaimInv, DoorInv
  <2>4. QED
    BY <2>2, <2>3
<1>2. QED
  BY <1>1, SqlStep, PTL DEF SqlSpec

\* No ticket is executed more often than it was granted although a requeue
\* writes the budget it computed from an earlier statement.
THEOREM SqlBudgetHolds == SqlSpec => []WithinBudget
<1>1. SqlInit => BudgetInv
  BY DEF SqlInit, Init, StoreInit, NoTicket, BudgetInv
<1>2. SqlTypeOK /\ LockInv /\ BudgetInv /\ [SqlNext]_sqlVars => BudgetInv'
  BY TableStep, BudgetMove DEF SqlTypeOK
<1>3. BudgetInv => WithinBudget
  BY DEF BudgetInv, WithinBudget
<1>4. QED
  BY <1>1, <1>2, <1>3, LocksHold, PTL DEF SqlSpec

\* At most one live turn per session although the candidate of a claim is found
\* before the lock of its session is held.
THEOREM SqlOneTurn == SqlSpec => []OneTurnPerSession
<1>1. SqlInit => OrderInv
  BY DEF SqlInit, Init, StoreInit, NoTicket, OrderInv, SameSession, Live
<1>2. SqlTypeOK /\ LockInv /\ OrderInv /\ [SqlNext]_sqlVars => OrderInv'
  BY TableStep, OrderMove DEF SqlTypeOK
<1>3. SqlTypeOK /\ OrderInv => OneTurnPerSession
  BY OrderTurns DEF SqlTypeOK
<1>4. QED
  BY <1>1, <1>2, <1>3, LocksHold, PTL DEF SqlSpec

\* Sessions are served in the order of acceptance although a claim finds its
\* candidate, and a door its place in line, some statements before it writes.
THEOREM SqlTurnsInOrder == SqlSpec => AcceptanceOrder
<1>1. SqlInit => OrderInv /\ Turns!Init
  BY NoTurnsAtFirst
  DEF SqlInit, Init, StoreInit, NoTicket, OrderInv, SameSession, Live
<1>2. SqlTypeOK /\ LockInv /\ OrderInv /\ [SqlNext]_sqlVars => OrderInv'
  BY TableStep, OrderMove DEF SqlTypeOK
<1>3. SqlTypeOK /\ SqlTypeOK' /\ LockInv /\ OrderInv /\ [SqlNext]_sqlVars
        => [Turns!Next]_(Turns!vars)
  BY TableStep, TurnsMove DEF SqlTypeOK
<1>4. QED
  BY <1>1, <1>2, <1>3, LocksHold, PTL DEF SqlSpec, AcceptanceOrder, Turns!Spec

\* The legs of the transactions come from claims too, whose row is locked from
\* the read of the attempt to its write.
LEMMA SqlLegsMove ==
  ASSUME SqlTypeOK, LockInv, [SqlNext]_sqlVars
  PROVE  LegsMove
<1>1. CASE UNCHANGED legs
  BY <1>1 DEF LegsMove
<1>2. CASE OfOneRow \/ Time
  BY <1>2, OfOneRowMoves, LegsComeFromClaims DEF SqlTypeOK
<1>3. ASSUME NEW w \in Worker, Take(w) PROVE LegsMove
  <2>1. PICK j \in Job : j = claim[w].job /\ StartsLeg(j)
    BY <1>3, TakeStarts
  <2>2. legs' = legs \cup
          {[worker |-> w, job |-> j, attempt |-> jobs[j].attempt + 1]}
    BY <1>3, <2>1 DEF Take
  <2>3. QED
    BY <2>1, <2>2 DEF LegsMove, StartsLeg, Reclaimable
<1>4. ASSUME NEW w \in Worker,
             Scan(w) \/ LockRow(w) \/ TrySession(w) \/ Recheck(w) \/ ClaimFails(w)
      PROVE  UNCHANGED legs
  BY <1>4 DEF Scan, LockRow, TrySession, Recheck, ClaimFails, GivesUp, Claims, vars
<1>5. ASSUME NEW r \in Request, NEW j \in Job, Submit(r, j) \/ AskAgain(r, j)
      PROVE  UNCHANGED legs
  BY <1>5 DEF Submit, AskAgain, Asks, vars
<1>6. ASSUME NEW r \in Request,
             TakeSession(r) \/ Sequence(r) \/ Write(r) \/ DoorFails(r)
      PROVE  UNCHANGED legs
  BY <1>6 DEF TakeSession, Sequence, Write, DoorFails, Asks, vars
<1>7. QED
  BY <1>1, <1>2, <1>3, <1>4, <1>5, <1>6 DEF SqlNext, sqlVars, vars

\* No two legs of a job carry the same attempt although claims run at once.
THEOREM SqlFenced == SqlSpec => []LegsAreFenced
<1>1. SqlInit => LegInv
  BY DEF SqlInit, Init, LegInv, LegsAreFenced
<1>2. SqlTypeOK /\ LockInv /\ LegInv /\ [SqlNext]_sqlVars => LegInv'
  BY TableStep, SqlLegsMove, LegMove DEF SqlTypeOK
<1>3. LegInv => LegsAreFenced
  BY DEF LegInv
<1>4. QED
  BY <1>1, <1>2, <1>3, LocksHold, PTL DEF SqlSpec
=============================================================================
