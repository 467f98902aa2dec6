--------------------------- MODULE JobQueueProofs ---------------------------
(***************************************************************************)
(* Proofs about JobQueue, for any sets of tickets, workers and sessions,   *)
(* any budget and any bounds.                                              *)
(***************************************************************************)
EXTENDS JobQueueTurns, JobStoreProofs

-----------------------------------------------------------------------------
(* Types *)

\* Every step keeps the types and the lock of running tickets.
LEMMA TypeStep == TypeOK /\ [Next]_vars => TypeOK'
<1> SUFFICES ASSUME TypeOK, [Next]_vars PROVE TypeOK'
  OBVIOUS
<1>a. StoreTypeOK
  BY DEF TypeOK, StoreTypeOK
<1>b. ASSUME StoreTypeOK', UNCHANGED <<legs, sweeping, alive>> PROVE TypeOK'
  BY <1>b DEF TypeOK, StoreTypeOK
<1>1. ASSUME NEW w \in Worker, NEW j \in Job, Claim(w, j) PROVE TypeOK'
  <2>1. [worker |-> w, job |-> j, attempt |-> jobs[j].attempt + 1] \in Leg
    BY DEF TypeOK, Leg, Ticket
  <2>2. StoreTypeOK'
    BY <1>1, <1>a, MethodsKeepTypes DEF Claim
  <2>3. QED
    BY <1>1, <2>1, <2>2 DEF Claim, TypeOK, StoreTypeOK
<1>2. ASSUME NEW w \in Worker, NEW j \in Job, Sweep(w, j) PROVE TypeOK'
  <2>1. StoreTypeOK'
    BY <1>2, <1>a, MethodsKeepTypes DEF Sweep
  <2>2. QED
    BY <1>2, <2>1 DEF Sweep, TypeOK, StoreTypeOK
<1>3. ASSUME NEW w \in Worker, Heartbeat(w) PROVE TypeOK'
  BY <1>3, <1>a, <1>b, MethodsKeepTypes DEF Heartbeat
<1>4. ASSUME NEW w \in Worker, EndSweep(w) PROVE TypeOK'
  <2>1. ASSUME NEW status, SettleSwept(w, status) PROVE TypeOK'
    <3>1. sweeping[w] \in Job
      BY <2>1 DEF SettleSwept, TypeOK
    <3>2. StoreTypeOK'
      BY <2>1, <3>1, <1>a, MethodsKeepTypes DEF SettleSwept
    <3>3. QED
      BY <2>1, <3>2 DEF SettleSwept, TypeOK, StoreTypeOK
  <2>2. QED
    BY <1>4, <2>1 DEF EndSweep, LeaveSwept, TypeOK
<1>5. ASSUME NEW w \in Worker, Crash(w) PROVE TypeOK'
  BY <1>5 DEF Crash, TypeOK
<1>6. ASSUME NEW l \in legs, EndLeg(l) PROVE TypeOK'
  <2>1. l.job \in Job /\ legs \ {l} \in SUBSET Leg
    BY DEF TypeOK, Leg
  <2>2. ASSUME NEW status, Complete(l, status) PROVE TypeOK'
    <3>1. StoreTypeOK'
      BY <2>1, <2>2, <1>a, MethodsKeepTypes DEF Complete
    <3>2. QED
      BY <2>1, <2>2, <3>1 DEF Complete, TypeOK, StoreTypeOK
  <2>3. ASSUME NEW due \in BOOLEAN, RetryOrFail(l, due) PROVE TypeOK'
    <3>1. StoreTypeOK'
      BY <2>1, <2>3, <1>a, MethodsKeepTypes DEF RetryOrFail
    <3>2. QED
      BY <2>1, <2>3, <3>1 DEF RetryOrFail, TypeOK, StoreTypeOK
  <2>4. QED
    BY <1>6, <2>1, <2>2, <2>3 DEF EndLeg, LeaveClaim, TypeOK
<1>7. ASSUME NEW j \in Job,
             \/ Enqueue(j) \/ Cancel(j) \/ SettlePaused(j) \/ Requeue(j)
             \/ Continue(j) \/ Lapse(j) \/ Ready(j)
      PROVE  TypeOK'
  <2>1. StoreTypeOK'
    BY <1>7, <1>a, MethodsKeepTypes
    DEF Enqueue, Cancel, SettlePaused, Requeue, Continue, Lapse, Ready
  <2>2. QED
    BY <1>7, <2>1, <1>b
    DEF Enqueue, Cancel, SettlePaused, Requeue, Continue, Lapse, Ready
<1>8. CASE Cleanup
  BY <1>8, <1>a, <1>b, MethodsKeepTypes DEF Cleanup
<1>9. CASE UNCHANGED vars
  BY <1>9 DEF vars, TypeOK
<1>10. QED
  BY <1>1, <1>2, <1>3, <1>4, <1>5, <1>6, <1>7, <1>8, <1>9 DEF Next

\* The tables are typed and a ticket is locked exactly while it is running.
THEOREM TypeCorrect == Spec => []TypeOK
<1>1. Init => TypeOK
  BY StoreInitTyped DEF Init, TypeOK, StoreTypeOK
<1>2. QED
  BY <1>1, TypeStep, PTL DEF Spec

-----------------------------------------------------------------------------
(* What a step does to one ticket, as far as the invariants below look *)

Kept(j) ==
  /\ jobs'[j].attempt = jobs[j].attempt
  /\ jobs'[j].maxAttempts = jobs[j].maxAttempts
  /\ jobs'[j].seq = jobs[j].seq

Same(j) == jobs'[j].status = jobs[j].status /\ Kept(j)

StartsLeg(j) ==
  /\ ~SessionBlocked(j)
  /\ jobs[j].status = "queued" \/ Reclaimable(j)
  /\ jobs'[j].status = "running"
  /\ jobs'[j].attempt = jobs[j].attempt + 1
  /\ jobs'[j].maxAttempts = jobs[j].maxAttempts
  /\ jobs'[j].seq = jobs[j].seq

GivesBack(j) ==
  /\ jobs[j].status = "running" /\ jobs[j].attempt < jobs[j].maxAttempts
  /\ jobs'[j].status = "queued" /\ Kept(j)

Parks(j) ==
  jobs[j].status = "running" /\ jobs'[j].status = "paused" /\ Kept(j)

Ends(j) == jobs[j].status \in Live /\ jobs'[j].status \in Terminal /\ Kept(j)

Resumes(j) ==
  /\ jobs[j].status = "paused" /\ jobs'[j].status = "queued"
  /\ jobs'[j].attempt = jobs[j].attempt
  /\ jobs'[j].maxAttempts = jobs[j].attempt + 1
  /\ jobs'[j].seq = jobs[j].seq

Enters(j) ==
  /\ jobs[j].status \in {"absent", "failed", "cancelled"}
  /\ jobs'[j].status = "queued"
  /\ jobs'[j].attempt = IF jobs[j].status = "absent" THEN 0 ELSE jobs[j].attempt
  /\ jobs'[j].maxAttempts \in Nat
  /\ jobs'[j].attempt < jobs'[j].maxAttempts
  /\ \A k \in SameSession(j) :
       jobs[k].status \in Live => jobs[k].seq < jobs'[j].seq

Moves(j) ==
  StartsLeg(j) \/ GivesBack(j) \/ Parks(j) \/ Ends(j) \/ Resumes(j) \/ Enters(j)

Disappears(j) ==
  /\ jobs[j].status \in Terminal /\ jobs'[j].status = "deleted"
  /\ jobs'[j].attempt = 0 /\ jobs'[j].maxAttempts = 0

\* A step moves at most one ticket, unless it only removes ended ones.
OneMove ==
  \/ \E j \in Job : Moves(j) /\ \A k \in Job \ {j} : Same(k)
  \/ \A k \in Job : Same(k) \/ Disappears(k)

LEMMA OneMoveByWrite ==
  ASSUME TypeOK, NEW j \in Job, NEW t \in Ticket, jobs' = [jobs EXCEPT ![j] = t]
  PROVE  jobs'[j] = t /\ \A k \in Job \ {j} : Same(k)
  BY DEF TypeOK, Same, Kept

LEMMA SettledFields ==
  ASSUME TypeOK, NEW j \in Job, NEW status \in Status
  PROVE  /\ Settled(j, status) \in Ticket
         /\ Settled(j, status).status = status
         /\ Settled(j, status).attempt = jobs[j].attempt
         /\ Settled(j, status).maxAttempts = jobs[j].maxAttempts
         /\ Settled(j, status).seq = jobs[j].seq
<1>1. Settled(j, status) \in Ticket
  BY WrittenTickets DEF TypeOK
<1>2. QED
  BY <1>1 DEF Settled, TypeOK, Ticket

LEMMA StepMoves == TypeOK /\ [Next]_vars => OneMove
<1> SUFFICES ASSUME TypeOK, [Next]_vars PROVE OneMove
  OBVIOUS
<1>a. jobs \in [Job -> Ticket] /\ \A j \in Job : jobs[j] \in Ticket
  BY DEF TypeOK
<1>b. ASSUME NEW j \in Job, NEW status \in Terminal \cup {"paused"},
             status = "paused" => jobs[j].status = "running",
             jobs[j].status \in Live,
             jobs' = [jobs EXCEPT ![j] = Settled(j, status)]
      PROVE  OneMove
  <2>1. status \in Status
    BY DEF Status, Terminal
  <2>2. jobs'[j] = Settled(j, status) /\ \A k \in Job \ {j} : Same(k)
    BY <1>b, <2>1, SettledFields, OneMoveByWrite
  <2>3. Kept(j) /\ jobs'[j].status = status
    BY <2>1, <2>2, SettledFields DEF Kept
  <2>4. Parks(j) \/ Ends(j)
    BY <1>b, <2>3 DEF Parks, Ends, Terminal
  <2>5. QED
    BY <2>2, <2>4 DEF OneMove, Moves
<1>c. ASSUME UNCHANGED jobs PROVE OneMove
  BY <1>c DEF OneMove, Same, Kept
<1>1. ASSUME NEW w \in Worker, NEW j \in Job, Claim(w, j) PROVE OneMove
  <2>1. jobs' = [jobs EXCEPT ![j] = Claimed(j, w)] /\ Claimed(j, w) \in Ticket
    BY <1>1, <1>a, WrittenTickets DEF Claim, ClaimJob
  <2>2. jobs'[j] = Claimed(j, w) /\ \A k \in Job \ {j} : Same(k)
    BY <2>1, OneMoveByWrite
  <2>3. StartsLeg(j)
    BY <1>1, <1>a, <2>2
    DEF Claim, ClaimJob, Candidate, Claimed, StartsLeg, Ticket
  <2>4. QED
    BY <2>2, <2>3 DEF OneMove, Moves
<1>2. ASSUME NEW w \in Worker, NEW j \in Job, Sweep(w, j) PROVE OneMove
  BY <1>2, <1>a DEF Sweep, AcquireSweep, OneMove, Same, Kept, Ticket
<1>3. ASSUME NEW w \in Worker, Heartbeat(w) PROVE OneMove
  <2>1. PICK held : HeartbeatJobs(w, held)
    BY <1>3 DEF Heartbeat
  <2>2. QED
    BY <2>1, <1>a DEF HeartbeatJobs, OneMove, Same, Kept, Ticket
<1>4. ASSUME NEW w \in Worker, EndSweep(w) PROVE OneMove
  <2>1. ASSUME NEW status \in {"completed", "cancelled", "paused", "failed"},
               SettleSwept(w, status)
        PROVE  OneMove
    BY <2>1, <1>b DEF SettleSwept, SettleSweptJob, TypeOK, Terminal, Live
  <2>2. QED
    BY <1>4, <2>1, <1>c DEF EndSweep, LeaveSwept
<1>5. ASSUME NEW w \in Worker, Crash(w) PROVE OneMove
  BY <1>5, <1>c DEF Crash
<1>6. ASSUME NEW l \in legs, EndLeg(l) PROVE OneMove
  <2>1. l.job \in Job
    BY DEF TypeOK, Leg
  <2>2. ASSUME NEW status \in {"completed", "cancelled", "failed", "paused"},
               Complete(l, status)
        PROVE  OneMove
    BY <2>1, <2>2, <1>b
    DEF Complete, CompleteJob, OwnsLease, Terminal, Live
  <2>3. ASSUME NEW due \in BOOLEAN, RetryOrFail(l, due) PROVE OneMove
    <3> DEFINE j == l.job
               t == [Settled(j, "queued") EXCEPT !.due = due]
    <3>1. CASE jobs[j].attempt < jobs[j].maxAttempts
      <4>1. "queued" \in Status
        BY DEF Status
      <4>2. t \in Ticket
        BY <2>1, <4>1, SettledFields, TicketEdits
      <4>3. jobs' = [jobs EXCEPT ![j] = t]
        BY <2>3, <3>1 DEF RetryOrFail, RetryOrFailJob
      <4>4. jobs'[j] = t /\ \A k \in Job \ {j} : Same(k)
        BY <2>1, <4>2, <4>3, OneMoveByWrite
      <4>5. /\ t.status = "queued"
            /\ t.attempt = jobs[j].attempt
            /\ t.maxAttempts = jobs[j].maxAttempts
            /\ t.seq = jobs[j].seq
        BY <2>1, <4>1, SettledFields DEF Ticket
      <4>6. GivesBack(j)
        BY <2>3, <3>1, <4>4, <4>5
        DEF GivesBack, Kept, RetryOrFail, RetryOrFailJob, OwnsLease
      <4>7. QED
        BY <2>1, <4>4, <4>6 DEF OneMove, Moves
    <3>2. CASE ~(jobs[j].attempt < jobs[j].maxAttempts)
      BY <2>1, <2>3, <3>2, <1>b
      DEF RetryOrFail, RetryOrFailJob, OwnsLease, Terminal, Live
    <3>3. QED
      BY <3>1, <3>2
  <2>4. QED
    BY <1>6, <2>2, <2>3, <1>c DEF EndLeg, LeaveClaim
<1>7. ASSUME NEW j \in Job, Enqueue(j) PROVE OneMove
  <2>1. PICK created \in Stamps, s \in Seqs :
          /\ jobs[j].status = "absent"
          /\ NextSessionSeq(j, s)
          /\ jobs' = [jobs EXCEPT ![j] =
               [NoTicket("queued") EXCEPT !.maxAttempts = MaxAttempts,
                                          !.seq = s, !.created = created]]
    BY <1>7 DEF Enqueue, EnqueueJob
  <2> DEFINE t == [NoTicket("queued") EXCEPT !.maxAttempts = MaxAttempts,
                                             !.seq = s, !.created = created]
  <2>2. s \in Nat /\ created \in Nat
    BY <1>a, NumberAssumption DEF Seqs, Ticket
  <2>3. /\ t \in Ticket /\ t.status = "queued" /\ t.seq = s
        /\ t.attempt = 0 /\ t.maxAttempts = MaxAttempts
    BY <2>2, NumberAssumption DEF NoTicket, Ticket, Status
  <2>4. jobs'[j] = t /\ \A k \in Job \ {j} : Same(k)
    BY <2>1, <2>3, OneMoveByWrite
  <2> HIDE DEF t
  <2>5. Enters(j)
    <3>1. jobs'[j].seq = s
      BY <2>3, <2>4
    <3>2. \A k \in SameSession(j) :
            jobs[k].status \in Live => jobs[k].seq < jobs'[j].seq
      BY <2>1, <3>1 DEF NextSessionSeq, SameSession
    <3>3. /\ jobs[j].status \in {"absent", "failed", "cancelled"}
          /\ jobs'[j].status = "queued"
          /\ jobs'[j].attempt =
               IF jobs[j].status = "absent" THEN 0 ELSE jobs[j].attempt
          /\ jobs'[j].maxAttempts \in Nat
          /\ jobs'[j].attempt < jobs'[j].maxAttempts
      <4>1. /\ jobs'[j].status = "queued" /\ jobs'[j].attempt = 0
            /\ jobs'[j].maxAttempts = MaxAttempts
        BY <2>3, <2>4
      <4>2. MaxAttempts \in Nat /\ 0 < MaxAttempts
        BY NumberAssumption
      <4>3. QED
        BY <2>1, <4>1, <4>2
    <3>4. QED
      BY <3>2, <3>3 DEF Enters
  <2>6. QED
    BY <2>4, <2>5 DEF OneMove, Moves
<1>8. ASSUME NEW j \in Job, Cancel(j) PROVE OneMove
  <2> DEFINE t == [jobs[j] EXCEPT !.status = "cancelled"]
  <2>1. "cancelled" \in Status
    BY DEF Status
  <2>2. t \in Ticket
    BY <1>a, <2>1, TicketEdits
  <2>3. jobs'[j] = t /\ \A k \in Job \ {j} : Same(k)
    BY <1>8, <2>2, OneMoveByWrite DEF Cancel, CancelJob
  <2>4. Ends(j)
    BY <1>8, <1>a, <2>3
    DEF Cancel, CancelJob, Ends, Kept, Ticket, Live, Terminal
  <2>5. QED
    BY <2>3, <2>4 DEF OneMove, Moves
<1>9. ASSUME NEW j \in Job, SettlePaused(j) PROVE OneMove
  BY <1>9, <1>b DEF SettlePaused, SettlePausedJob, Terminal, Live
<1>10. ASSUME NEW j \in Job, Requeue(j) PROVE OneMove
  <2>1. PICK s \in Seqs :
          /\ jobs[j].status \in {"failed", "cancelled"}
          /\ NextSessionSeq(j, s)
          /\ jobs' = [jobs EXCEPT ![j] = [Granted(j) EXCEPT !.seq = s]]
    BY <1>10 DEF Requeue, RequeueJob
  <2> DEFINE t == [Granted(j) EXCEPT !.seq = s]
  <2>2. s \in Nat
    BY <1>a DEF Seqs, Ticket
  <2>3. t \in Ticket
    BY <1>a, <2>2, WrittenTickets, TicketEdits
  <2>4. /\ t.status = "queued" /\ t.seq = s
        /\ t.attempt = jobs[j].attempt /\ t.maxAttempts = jobs[j].attempt + 1
    BY <1>a, <2>2 DEF Granted, Ticket
  <2>5. jobs'[j] = t /\ \A k \in Job \ {j} : Same(k)
    BY <2>1, <2>3, OneMoveByWrite
  <2>6. jobs[j].attempt \in Nat
    BY <1>a DEF Ticket
  <2> HIDE DEF t
  <2>7. Enters(j)
    <3>1. jobs'[j].seq = s
      BY <2>4, <2>5
    <3>2. \A k \in SameSession(j) :
            jobs[k].status \in Live => jobs[k].seq < jobs'[j].seq
      BY <2>1, <3>1 DEF NextSessionSeq, SameSession
    <3>3. /\ jobs[j].status \in {"absent", "failed", "cancelled"}
          /\ jobs'[j].status = "queued"
          /\ jobs'[j].attempt =
               IF jobs[j].status = "absent" THEN 0 ELSE jobs[j].attempt
          /\ jobs'[j].maxAttempts \in Nat
          /\ jobs'[j].attempt < jobs'[j].maxAttempts
      <4>1. /\ jobs'[j].status = "queued"
            /\ jobs'[j].attempt = jobs[j].attempt
            /\ jobs'[j].maxAttempts = jobs[j].attempt + 1
        BY <2>4, <2>5
      <4>2. jobs[j].attempt + 1 \in Nat /\ jobs[j].attempt < jobs[j].attempt + 1
        BY <2>6
      <4>3. jobs[j].status # "absent"
        BY <2>1
      <4>4. QED
        BY <2>1, <4>1, <4>2, <4>3
    <3>4. QED
      BY <3>2, <3>3 DEF Enters
  <2>8. QED
    BY <2>5, <2>7 DEF OneMove, Moves
<1>11. ASSUME NEW j \in Job, Continue(j) PROVE OneMove
  <2>1. jobs'[j] = Granted(j) /\ \A k \in Job \ {j} : Same(k)
    BY <1>11, <1>a, WrittenTickets, OneMoveByWrite DEF Continue, ContinueJob
  <2>2. Resumes(j)
    BY <1>11, <1>a, <2>1 DEF Continue, ContinueJob, Resumes, Granted, Ticket
  <2>3. QED
    BY <2>1, <2>2 DEF OneMove, Moves
<1>12. ASSUME NEW j \in Job, Lapse(j) \/ Ready(j) PROVE OneMove
  BY <1>12, <1>a
  DEF Lapse, LeaseLapses, Ready, BackoffEnds, OneMove, Same, Kept, Ticket
<1>13. CASE Cleanup
  BY <1>13, <1>a
  DEF Cleanup, CleanupJobs, NoTicket, OneMove, Same, Kept, Disappears
<1>14. CASE UNCHANGED vars
  BY <1>14, <1>c DEF vars
<1>15. QED
  BY <1>1, <1>2, <1>3, <1>4, <1>5, <1>6, <1>7, <1>8, <1>9, <1>10, <1>11,
     <1>12, <1>13, <1>14 DEF Next

-----------------------------------------------------------------------------
(* The invariants *)

LEMMA BudgetMove == TypeOK /\ BudgetInv /\ OneMove => BudgetInv'
<1> SUFFICES ASSUME TypeOK, BudgetInv, OneMove PROVE BudgetInv'
  OBVIOUS
<1>1. \A j \in Job : jobs[j].attempt \in Nat /\ jobs[j].maxAttempts \in Nat
  BY DEF TypeOK, Ticket
<1> DEFINE Funded(j) == /\ jobs'[j].attempt <= jobs'[j].maxAttempts
                        /\ jobs'[j].status = "queued" =>
                             jobs'[j].attempt < jobs'[j].maxAttempts
<1>2. ASSUME NEW j \in Job, Same(j) \/ Disappears(j) PROVE Funded(j)
  BY <1>1, <1>2 DEF BudgetInv, Same, Kept, Disappears
<1>3. ASSUME NEW j \in Job, Moves(j) PROVE Funded(j)
  <2>1. CASE StartsLeg(j) \/ GivesBack(j) \/ Parks(j) \/ Ends(j)
    BY <1>1, <2>1
    DEF BudgetInv, StartsLeg, Reclaimable, GivesBack, Parks, Ends, Kept, Terminal
  <2>2. CASE Resumes(j) \/ Enters(j)
    <3>1. jobs'[j].attempt \in Nat /\ jobs'[j].maxAttempts \in Nat
      BY <1>1, <2>2 DEF Resumes, Enters
    <3>2. jobs'[j].attempt < jobs'[j].maxAttempts
      BY <1>1, <2>2 DEF Resumes, Enters
    <3>3. QED
      BY <3>1, <3>2
  <2>3. QED
    BY <1>3, <2>1, <2>2 DEF Moves
<1>4. \A j \in Job : Funded(j)
  BY <1>2, <1>3 DEF OneMove
<1>5. QED
  BY <1>4 DEF BudgetInv

\* No ticket is executed more often than it was granted, whatever the budget,
\* and a queued ticket always has an execution to spend.
THEOREM BudgetHolds == Spec => [](WithinBudget /\ BudgetInv)
<1>1. Init => BudgetInv
  BY DEF Init, StoreInit, NoTicket, BudgetInv
<1>2. BudgetInv => WithinBudget
  BY DEF BudgetInv, WithinBudget
<1>3. QED
  BY <1>1, <1>2, BudgetMove, StepMoves, TypeCorrect, PTL DEF Spec

LEMMA OrderMove == TypeOK /\ OrderInv /\ OneMove => OrderInv'
<1> SUFFICES ASSUME TypeOK, OrderInv, OneMove PROVE OrderInv'
  OBVIOUS
<1>1. \A j \in Job : jobs[j].seq \in Nat
  BY DEF TypeOK, Ticket
<1>2. \A j \in Job : \A k \in SameSession(j) :
        k \in Job /\ k # j /\ j \in SameSession(k)
  BY DEF SameSession, IsSerialized
<1> DEFINE Ordered(j, k) ==
      jobs'[j].status \in Live /\ jobs'[k].status \in Live =>
        /\ jobs'[j].seq # jobs'[k].seq
        /\ jobs'[j].status \in Holding => jobs'[j].seq < jobs'[k].seq
<1>3. ASSUME NEW j \in Job, Same(j) \/ Disappears(j),
             NEW k \in SameSession(j), Same(k) \/ Disappears(k)
      PROVE  Ordered(j, k)
  BY <1>2, <1>3 DEF OrderInv, Same, Kept, Disappears, Live
<1>4. ASSUME NEW j \in Job, Moves(j), NEW k \in SameSession(j), Same(k)
      PROVE  Ordered(j, k) /\ Ordered(k, j)
  <2>1. k \in Job /\ k # j /\ j \in SameSession(k)
    BY <1>2
  <2>2. CASE jobs[j].status \in Live /\ jobs'[j].seq = jobs[j].seq
             /\ (jobs'[j].status \in Holding => jobs[j].status \in Holding)
    BY <1>4, <2>1, <2>2 DEF OrderInv, Same, Kept
  <2>3. CASE StartsLeg(j) /\ jobs[j].status = "queued"
    <3>1. jobs[k].status \notin Holding
      BY <2>3 DEF StartsLeg, SessionBlocked
    <3>2. jobs[k].status = "queued" => jobs[j].seq < jobs[k].seq
      <4>1. jobs[k].status = "queued" => ~(jobs[k].seq < jobs[j].seq)
        BY <2>3 DEF StartsLeg, SessionBlocked, Before
      <4>2. jobs[k].status = "queued" => jobs[j].seq # jobs[k].seq
        BY <2>3 DEF OrderInv, Live
      <4>3. QED
        BY <1>1, <2>1, <4>1, <4>2
    <3>3. QED
      BY <1>1, <1>4, <2>1, <2>3, <3>1, <3>2
      DEF StartsLeg, Same, Kept, Live, Holding
  <2>4. CASE Enters(j)
    <3>1. jobs[k].status \in Live => jobs[k].seq < jobs'[j].seq
      BY <2>4 DEF Enters
    <3>2. \/ jobs'[j].status = "queued" /\ jobs'[j].seq # jobs[k].seq
          \/ jobs[k].status \notin Live
      BY <1>1, <2>1, <2>4, <3>1 DEF Enters
    <3>3. jobs'[j].status \notin Holding
      BY <2>4 DEF Enters, Holding
    <3>4. QED
      BY <1>4, <3>1, <3>2, <3>3 DEF Same, Kept
  <2>5. CASE Ends(j)
    BY <2>5 DEF Ends, Live, Terminal
  <2>6. QED
    BY <1>4, <2>2, <2>3, <2>4, <2>5
    DEF Moves, StartsLeg, Reclaimable, GivesBack, Parks, Resumes, Kept,
        Live, Holding
<1>5. ASSUME NEW j \in Job, NEW k \in SameSession(j) PROVE Ordered(j, k)
  <2>1. CASE \E i \in Job : Moves(i) /\ \A m \in Job \ {i} : Same(m)
    BY <1>2, <1>3, <1>4, <2>1
  <2>2. CASE \A m \in Job : Same(m) \/ Disappears(m)
    BY <1>2, <1>3, <2>2
  <2>3. QED
    BY <2>1, <2>2 DEF OneMove
<1>6. QED
  BY <1>5 DEF OrderInv, SameSession, IsSerialized

LEMMA OrderTurns == TypeOK /\ OrderInv => OneTurnPerSession
<1> SUFFICES ASSUME TypeOK, OrderInv,
                    NEW j \in Job, NEW k \in Job, j # k, IsSerialized(j),
                    SessionOf[j] = SessionOf[k],
                    jobs[j].status \in Holding, jobs[k].status \in Holding
             PROVE  FALSE
  BY DEF OneTurnPerSession
<1>1. k \in SameSession(j) /\ j \in SameSession(k)
  BY DEF SameSession, IsSerialized
<1>2. jobs[j].seq < jobs[k].seq /\ jobs[k].seq < jobs[j].seq
  BY <1>1 DEF OrderInv, Holding, Live
<1>3. jobs[j].seq \in Nat /\ jobs[k].seq \in Nat
  BY DEF TypeOK, Ticket
<1>4. QED
  BY <1>2, <1>3

\* At most one live turn per session, for any number of tickets, replicas
\* and sessions, and it is the turn with the smallest sequence number.
THEOREM OneTurn == Spec => [](OneTurnPerSession /\ OrderInv)
<1>1. Init => OrderInv
  BY DEF Init, StoreInit, NoTicket, OrderInv, SameSession, Live
<1>2. QED
  BY <1>1, OrderTurns, OrderMove, StepMoves, TypeCorrect, PTL DEF Spec

-----------------------------------------------------------------------------
(* The order of the turns *)

\* A ticket keeps its place in line, and its hold.
KeepsPlace(k) ==
  IsSerialized(k) =>
    /\ jobs'[k].status \in Live <=> jobs[k].status \in Live
    /\ jobs[k].status \in Live => jobs'[k].seq = jobs[k].seq

KeepsHold(k) ==
  IsSerialized(k) => (jobs'[k].status \in Holding <=> jobs[k].status \in Holding)

LEMMA PlacesKept ==
  ASSUME NEW k \in Job, Same(k) \/ Disappears(k)
  PROVE  KeepsPlace(k) /\ KeepsHold(k)
  BY DEF Same, Kept, Disappears, KeepsPlace, KeepsHold, Live, Holding, Terminal

\* The line does not move where every ticket keeps its place, and nobody comes to
\* hold a session or gives it back where all keep their hold.
LEMMA LineKept ==
  ASSUME \A k \in Job : KeepsPlace(k)
  PROVE  UNCHANGED <<Serialized(Live), SessionLine>>
<1>1. Serialized(Live)' = Serialized(Live)
  BY DEF Serialized, KeepsPlace, IsSerialized
<1>2. \A k, m \in Serialized(Live) : Before(k, m)' <=> Before(k, m)
  BY DEF Serialized, KeepsPlace, Before
<1>3. SessionLine' = SessionLine
  BY <1>1, <1>2 DEF SessionLine
<1>4. QED
  BY <1>1, <1>3

LEMMA HoldersKept ==
  ASSUME \A k \in Job : KeepsHold(k)
  PROVE  UNCHANGED SessionHolders
  BY DEF SessionHolders, Serialized, KeepsHold, IsSerialized

\* A ticket that starts is at the head of the line of an idle session.
LEMMA StartBegins ==
  ASSUME TypeOK, OrderInv, NEW j \in Job, IsSerialized(j), StartsLeg(j),
         jobs[j].status = "queued", \A k \in Job \ {j} : Same(k)
  PROVE  Turns!Begin(j)
<1>1. \A k \in Job : KeepsPlace(k)
  BY PlacesKept DEF StartsLeg, KeepsPlace, Live
<1>2. UNCHANGED <<Serialized(Live), SessionLine>>
  BY <1>1, LineKept
<1>3. \A k \in Job \ {j} : KeepsHold(k)
  BY PlacesKept
<1>4. SessionHolders' = SessionHolders \cup {j}
  BY <1>3 DEF SessionHolders, Serialized, KeepsHold, StartsLeg, Holding, IsSerialized
<1>5. j \in Serialized(Live)
  BY DEF Serialized, Live
<1>6. Turns!Fellows(j, SessionHolders) = {}
  <2>1. ASSUME NEW k \in SessionHolders, SessionOf[k] = SessionOf[j]
        PROVE  FALSE
    <3>1. k \in Job /\ jobs[k].status \in Holding /\ k # j
      BY <2>1 DEF SessionHolders, Serialized, Holding
    <3>2. k \in SameSession(j)
      BY <2>1, <3>1 DEF SameSession
    <3>3. QED
      BY <3>1, <3>2 DEF StartsLeg, SessionBlocked
  <2>2. QED
    BY <2>1 DEF Turns!Fellows
<1>7. ASSUME NEW k \in Serialized(Live)
      PROVE  <<k, j>> \notin SessionLine
  <2> SUFFICES ASSUME SessionOf[k] = SessionOf[j], Before(k, j) PROVE FALSE
    BY DEF SessionLine
  <2>1. k \in Job /\ jobs[k].status \in Live
    BY <1>7 DEF Serialized
  <2>2. k # j
    BY <2>1, JobAssumption DEF Before, TypeOK, Ticket
  <2>3. k \in SameSession(j)
    BY <2>1, <2>2 DEF SameSession
  <2>4. jobs[k].status \in {"queued"} \cup Holding
    BY <2>1 DEF Live, Holding
  <2>5. QED
    BY <2>3, <2>4 DEF StartsLeg, SessionBlocked
<1>8. QED
  BY <1>2, <1>4, <1>5, <1>6, <1>7 DEF Turns!Begin

\* One that is given back keeps its place.
LEMMA GiveBackYields ==
  ASSUME NEW j \in Job, IsSerialized(j), GivesBack(j) \/ Resumes(j),
         \A k \in Job \ {j} : Same(k)
  PROVE  Turns!Yield(j)
<1>1. \A k \in Job : KeepsPlace(k)
  BY PlacesKept DEF GivesBack, Resumes, Kept, KeepsPlace, Live
<1>2. \A k \in Job \ {j} : KeepsHold(k)
  BY PlacesKept
<1>3. SessionHolders' = SessionHolders \ {j}
  BY <1>2 DEF SessionHolders, Serialized, KeepsHold, GivesBack, Resumes, Holding,
              IsSerialized
<1>4. j \in SessionHolders
  BY DEF SessionHolders, Serialized, GivesBack, Resumes, Holding
<1>5. QED
  BY <1>1, <1>3, <1>4, LineKept DEF Turns!Yield

\* One that ends leaves the line.
LEMMA EndLeaves ==
  ASSUME NEW j \in Job, IsSerialized(j), Ends(j), \A k \in Job \ {j} : Same(k)
  PROVE  Turns!Leave(j)
<1>1. \A k \in Job \ {j} : KeepsPlace(k) /\ KeepsHold(k)
  BY PlacesKept
<1>2. /\ jobs[j].status \in Live /\ jobs'[j].status \notin Live
      /\ jobs'[j].status \notin Holding
  BY DEF Ends, Live, Terminal, Holding
<1>3. Serialized(Live)' = Serialized(Live) \ {j}
  BY <1>1, <1>2 DEF Serialized, KeepsPlace, IsSerialized
<1>4. SessionHolders' = SessionHolders \ {j}
  BY <1>1, <1>2 DEF SessionHolders, Serialized, KeepsHold, IsSerialized
<1>5. \A k, m \in Serialized(Live) \ {j} : Before(k, m)' <=> Before(k, m)
  BY <1>1 DEF Serialized, KeepsPlace, Before
<1>6. SessionLine' = {p \in SessionLine : p[1] # j /\ p[2] # j}
  BY <1>3, <1>5 DEF SessionLine
<1>7. QED
  BY <1>2, <1>3, <1>4, <1>6 DEF Turns!Leave, Serialized

\* One that is accepted, again or for the first time, goes to the end of the line.
LEMMA EntryAccepts ==
  ASSUME TypeOK, TypeOK', NEW j \in Job, IsSerialized(j), Enters(j),
         \A k \in Job \ {j} : Same(k)
  PROVE  Turns!Accept(j)
<1>1. \A k \in Job \ {j} : KeepsPlace(k) /\ KeepsHold(k)
  BY PlacesKept
<1>2. /\ jobs[j].status \notin Live /\ jobs'[j].status \in Live
      /\ jobs[j].status \notin Holding /\ jobs'[j].status \notin Holding
  BY DEF Enters, Live, Holding
<1>3. \A k \in Job : KeepsHold(k)
  BY <1>1, <1>2 DEF KeepsHold
<1>4. Serialized(Live)' = Serialized(Live) \cup {j}
  BY <1>1, <1>2 DEF Serialized, KeepsPlace, IsSerialized
<1>5. j \notin Serialized(Live)
  BY <1>2 DEF Serialized
<1>6. \A k \in Job : k \in Nat /\ jobs[k].seq \in Nat /\ jobs'[k].seq \in Nat
  BY JobAssumption DEF TypeOK, Ticket
<1>7. \A k, m \in Serialized(Live) : Before(k, m)' <=> Before(k, m)
  BY <1>1, <1>5 DEF Serialized, KeepsPlace, Before
<1>8. ~Before(j, j)'
  BY <1>6 DEF Before
<1>9. ASSUME NEW k \in Serialized(Live), SessionOf[k] = SessionOf[j]
      PROVE  Before(k, j)' /\ ~Before(j, k)'
  <2>1. k \in Job /\ k # j /\ jobs[k].status \in Live
    BY <1>5, <1>9 DEF Serialized
  <2>2. k \in SameSession(j)
    BY <1>9, <2>1 DEF SameSession
  <2>3. jobs[k].seq < jobs'[j].seq /\ jobs'[k].seq = jobs[k].seq
    BY <1>1, <1>9, <2>1, <2>2 DEF Enters, KeepsPlace, Serialized
  <2>4. QED
    BY <1>6, <2>1, <2>3 DEF Before
<1>10. SessionLine' = SessionLine \cup (Turns!Fellows(j, Serialized(Live)) \X {j})
  <2>1. ASSUME NEW k \in Serialized(Live)', NEW m \in Serialized(Live)'
        PROVE  <<k, m>> \in SessionLine' <=>
                 \/ <<k, m>> \in SessionLine
                 \/ k \in Turns!Fellows(j, Serialized(Live)) /\ m = j
    <3>1. <<k, m>> \in SessionLine' <=> SessionOf[k] = SessionOf[m] /\ Before(k, m)'
      BY <2>1 DEF SessionLine
    <3>2. CASE k \in Serialized(Live) /\ m \in Serialized(Live)
      BY <1>5, <1>7, <3>1, <3>2 DEF SessionLine
    <3>3. CASE k \in Serialized(Live) /\ m = j
      BY <1>5, <1>9, <3>1, <3>3 DEF SessionLine, Turns!Fellows
    <3>4. CASE k = j
      <4>1. <<k, m>> \notin SessionLine /\ k \notin Turns!Fellows(j, Serialized(Live))
        BY <1>5, <3>4 DEF SessionLine, Turns!Fellows
      <4>2. m = j \/ m \in Serialized(Live)
        BY <1>4, <2>1
      <4>3. SessionOf[k] = SessionOf[m] => ~Before(k, m)'
        BY <1>8, <1>9, <3>4, <4>2
      <4>4. QED
        BY <3>1, <4>1, <4>3
    <3>5. QED
      BY <1>4, <2>1, <3>2, <3>3, <3>4
  <2>2. SessionLine' \subseteq Serialized(Live)' \X Serialized(Live)'
    BY DEF SessionLine
  <2>3. SessionLine \cup (Turns!Fellows(j, Serialized(Live)) \X {j})
          \subseteq Serialized(Live)' \X Serialized(Live)'
    BY <1>4 DEF SessionLine, Turns!Fellows
  <2>4. QED
    BY <2>1, <2>2, <2>3
<1>11. QED
  BY <1>3, <1>4, <1>5, <1>10, HoldersKept DEF Turns!Accept

\* What a step does to a ticket, one turn does to its session's line.
LEMMA TurnsMove ==
  ASSUME TypeOK, TypeOK', OrderInv, OneMove
  PROVE  [Turns!Next]_(Turns!vars)
<1>1. ASSUME \A k \in Job : KeepsPlace(k) /\ KeepsHold(k)
      PROVE  UNCHANGED Turns!vars
  BY <1>1, LineKept, HoldersKept DEF Turns!vars
<1>2. CASE \A k \in Job : Same(k) \/ Disappears(k)
  BY <1>1, <1>2, PlacesKept
<1>3. ASSUME NEW j \in Job, Moves(j), \A k \in Job \ {j} : Same(k)
      PROVE  [Turns!Next]_(Turns!vars)
  <2>1. \A k \in Job \ {j} : KeepsPlace(k) /\ KeepsHold(k)
    BY <1>3, PlacesKept
  <2>2. CASE \/ ~IsSerialized(j) \/ Parks(j)
             \/ StartsLeg(j) /\ jobs[j].status # "queued"
    <3>1. KeepsPlace(j) /\ KeepsHold(j)
      BY <2>2 DEF KeepsPlace, KeepsHold, Parks, Kept, StartsLeg, Reclaimable, Live, Holding
    <3>2. QED
      BY <1>1, <2>1, <3>1
  <2>3. CASE IsSerialized(j) /\ ~Parks(j) /\ ~(StartsLeg(j) /\ jobs[j].status # "queued")
    <3>1. j \in {k \in Job : IsSerialized(k)}
      BY <2>3
    <3>2. Turns!Begin(j) \/ Turns!Yield(j) \/ Turns!Leave(j) \/ Turns!Accept(j)
      BY <1>3, <2>3, StartBegins, GiveBackYields, EndLeaves, EntryAccepts DEF Moves
    <3>3. QED
      BY <3>1, <3>2 DEF Turns!Next
  <2>4. QED
    BY <2>2, <2>3
<1>4. QED
  BY <1>2, <1>3 DEF OneMove

LEMMA NoTurnsAtFirst ==
  ASSUME StoreInit
  PROVE  Turns!Init
<1>1. \A k \in Job : jobs[k].status = "absent"
  BY DEF StoreInit, NoTicket
<1>2. Serialized(Live) = {} /\ Serialized(Holding) = {}
  BY <1>1 DEF Serialized, Live, Holding
<1>3. SessionLine = {}
  BY <1>2 DEF SessionLine
<1>4. QED
  BY <1>2, <1>3 DEF Turns!Init, SessionHolders

\* Every session is served in the order of acceptance, for any number of sessions,
\* tickets and replicas: only the head of its line holds it, a retry or a
\* continuation keeps its place, and a requeue goes to the end.
THEOREM TurnsInOrder == Spec => AcceptanceOrder
<1>1. Init => Turns!Init
  BY NoTurnsAtFirst DEF Init
<1>2. TypeOK /\ TypeOK' /\ OrderInv /\ [Next]_vars => [Turns!Next]_(Turns!vars)
  BY TurnsMove, StepMoves
<1>3. QED
  BY <1>1, <1>2, TypeCorrect, OneTurn, PTL DEF Spec, AcceptanceOrder, Turns!Spec

-----------------------------------------------------------------------------
(* Fencing *)

\* The ticket of a leg never goes back to an earlier attempt, unless it is
\* deleted, and is never absent.
LEMMA AttemptsGrow ==
  ASSUME TypeOK, OneMove, NEW j \in Job, jobs[j].status # "absent"
  PROVE  /\ jobs'[j].status # "absent"
         /\ jobs'[j].status = "deleted" \/ jobs[j].attempt <= jobs'[j].attempt
         /\ jobs[j].status = "deleted" => jobs'[j].status = "deleted"
<1>1. Same(j) \/ Moves(j) \/ Disappears(j)
  BY DEF OneMove
<1>2. jobs[j].attempt \in Nat
  BY DEF TypeOK, Ticket
<1>3. QED
  BY <1>1, <1>2
  DEF Same, Moves, Disappears, StartsLeg, Reclaimable, GivesBack, Parks, Ends,
      Resumes, Enters, Kept, Live, Terminal

\* Legs come from claims only, each with the attempt its claim has just set.
LegsMove ==
  \/ legs' \subseteq legs
  \/ \E w \in Worker, j \in Job :
       /\ legs' = legs \cup
            {[worker |-> w, job |-> j, attempt |-> jobs[j].attempt + 1]}
       /\ jobs[j].status \in {"queued", "running"}
       /\ jobs'[j].attempt = jobs[j].attempt + 1

LEMMA LegsComeFromClaims == TypeOK /\ [Next]_vars => LegsMove
<1> SUFFICES ASSUME TypeOK, [Next]_vars PROVE LegsMove
  OBVIOUS
<1>1. ASSUME NEW w \in Worker, NEW j \in Job, Claim(w, j)
      PROVE  /\ jobs[j].status \in {"queued", "running"}
             /\ jobs'[j].attempt = jobs[j].attempt + 1
  BY <1>1 DEF Claim, ClaimJob, Candidate, Reclaimable, Claimed, TypeOK, Ticket
<1>2. ASSUME NEW l \in legs, EndLeg(l) PROVE legs' \subseteq legs
  BY <1>2 DEF EndLeg, Complete, RetryOrFail, LeaveClaim
<1>3. QED
  BY <1>1, <1>2
  DEF Next, vars, Claim, Sweep, Heartbeat, EndSweep, SettleSwept, LeaveSwept,
      Crash, Enqueue, Cancel, SettlePaused, Requeue, Continue, Lapse, Ready,
      Cleanup, LegsMove

LEMMA LegMove == TypeOK /\ TypeOK' /\ LegInv /\ OneMove /\ LegsMove => LegInv'
<1> SUFFICES ASSUME TypeOK, TypeOK', LegInv, OneMove, LegsMove PROVE LegInv'
  OBVIOUS
<1>1. \A l \in legs : l \in Leg /\ l.job \in Job
  BY DEF TypeOK, Leg
<1>2. \A j \in Job : jobs[j].attempt \in Nat
  BY DEF TypeOK, Ticket
<1>3. \A j \in Job : jobs'[j].attempt \in Nat
  BY DEF TypeOK, Ticket
<1>4. ASSUME NEW l \in legs
      PROVE  /\ jobs'[l.job].status # "absent"
             /\ \/ l.attempt <= jobs'[l.job].attempt
                \/ jobs'[l.job].status = "deleted"
  <2>1. jobs[l.job].status # "absent"
    BY DEF LegInv
  <2>2. l.attempt \in Nat /\ l.job \in Job
    BY <1>1 DEF Leg
  <2>3. l.attempt <= jobs[l.job].attempt \/ jobs[l.job].status = "deleted"
    BY DEF LegInv, LegsAreFenced
  <2>4. /\ jobs'[l.job].status # "absent"
        /\ \/ jobs'[l.job].status = "deleted"
           \/ jobs[l.job].attempt <= jobs'[l.job].attempt
        /\ jobs[l.job].status = "deleted" => jobs'[l.job].status = "deleted"
    BY <2>1, <2>2, AttemptsGrow
  <2>5. jobs[l.job].attempt \in Nat /\ jobs'[l.job].attempt \in Nat
    BY <1>2, <1>3, <2>2
  <2>6. QED
    BY <2>2, <2>3, <2>4, <2>5
<1>5. CASE legs' \subseteq legs
  BY <1>4, <1>5 DEF LegInv, LegsAreFenced
<1>6. ASSUME NEW w \in Worker, NEW j \in Job,
             legs' = legs \cup
               {[worker |-> w, job |-> j, attempt |-> jobs[j].attempt + 1]},
             jobs[j].status \in {"queued", "running"},
             jobs'[j].attempt = jobs[j].attempt + 1
      PROVE  LegInv'
  <2> DEFINE new == [worker |-> w, job |-> j, attempt |-> jobs[j].attempt + 1]
  <2>1. new.job = j /\ new.attempt = jobs[j].attempt + 1
    OBVIOUS
  <2>2. \A l \in legs : l.job = j => l.attempt # new.attempt
    <3> SUFFICES ASSUME NEW l \in legs, l.job = j PROVE l.attempt # new.attempt
      OBVIOUS
    <3>1. l.attempt <= jobs[j].attempt
      BY <1>6 DEF LegInv, LegsAreFenced
    <3>2. l.attempt \in Nat /\ jobs[j].attempt \in Nat
      BY <1>1, <1>2 DEF Leg
    <3>3. QED
      BY <2>1, <3>1, <3>2
  <2>3. jobs'[j].status # "absent"
    BY <1>6, AttemptsGrow
  <2>4. jobs'[j].attempt <= jobs'[j].attempt
    BY <1>3
  <2>5. legs' = legs \cup {new}
    BY <1>6
  <2> HIDE DEF new
  <2>6. \A l \in legs' :
          /\ jobs'[l.job].status # "absent"
          /\ \/ l.attempt <= jobs'[l.job].attempt
             \/ jobs'[l.job].status = "deleted"
    BY <1>4, <1>6, <2>1, <2>3, <2>4, <2>5
  <2>7. \A l, m \in legs' : l.job = m.job /\ l.attempt = m.attempt => l = m
    BY <2>1, <2>2, <2>5 DEF LegInv, LegsAreFenced
  <2>8. QED
    BY <2>6, <2>7 DEF LegInv, LegsAreFenced
<1>7. QED
  BY <1>5, <1>6 DEF LegsMove

LEMMA LegStep == TypeOK /\ LegInv /\ [Next]_vars => LegInv'
  BY TypeStep, StepMoves, LegsComeFromClaims, LegMove

\* No two legs of a job ever carry the same attempt: the attempt on the ticket
\* names one execution, through any number of reclaims, requeues and crashes.
THEOREM Fenced == Spec => [](LegsAreFenced /\ LegInv)
<1>1. Init => LegInv
  BY DEF Init, LegInv, LegsAreFenced
<1>2. LegInv => LegsAreFenced
  BY DEF LegInv
<1>3. QED
  BY <1>1, <1>2, LegStep, TypeCorrect, PTL DEF Spec
=============================================================================
