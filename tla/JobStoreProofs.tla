--------------------------- MODULE JobStoreProofs ---------------------------
(***************************************************************************)
(* Proofs about the methods of JobStore, for any sets of tickets and       *)
(* workers: what the modules that use the store cite instead of looking    *)
(* into its records.                                                       *)
(***************************************************************************)
EXTENDS JobStore, TLAPS

\* The edits the store makes to a ticket leave a ticket.
LEMMA TicketEdits ==
  ASSUME NEW t \in Ticket
  PROVE  /\ \A s \in Status, w \in Worker \cup {Nobody}, b \in BOOLEAN :
              [t EXCEPT !.status = s, !.lockedBy = w, !.stale = b] \in Ticket
         /\ \A s \in Status : [t EXCEPT !.status = s] \in Ticket
         /\ \A w \in Worker :
              [t EXCEPT !.lockedBy = w, !.stale = FALSE] \in Ticket
         /\ \A b \in BOOLEAN : [t EXCEPT !.due = b] \in Ticket
         /\ \A b \in BOOLEAN : [t EXCEPT !.stale = b] \in Ticket
         /\ \A n \in Nat : [t EXCEPT !.seq = n] \in Ticket
         /\ \A s \in Status, w \in Worker \cup {Nobody}, n \in Nat :
              [t EXCEPT !.status = s, !.lockedBy = w, !.stale = FALSE,
                        !.attempt = n] \in Ticket
         /\ \A s \in Status, n \in Nat :
              [t EXCEPT !.status = s, !.maxAttempts = n, !.due = TRUE,
                        !.lockedBy = Nobody, !.stale = FALSE] \in Ticket
<1>1. \A s \in Status, w \in Worker \cup {Nobody}, b \in BOOLEAN :
              [t EXCEPT !.status = s, !.lockedBy = w, !.stale = b] \in Ticket
  BY DEF Ticket
<1>2. \A s \in Status : [t EXCEPT !.status = s] \in Ticket
  BY DEF Ticket
<1>9. \A w \in Worker : [t EXCEPT !.lockedBy = w, !.stale = FALSE] \in Ticket
  BY DEF Ticket
<1>3. \A b \in BOOLEAN : [t EXCEPT !.due = b] \in Ticket
  BY DEF Ticket
<1>4. \A b \in BOOLEAN : [t EXCEPT !.stale = b] \in Ticket
  BY DEF Ticket
<1>5. \A n \in Nat : [t EXCEPT !.seq = n] \in Ticket
  BY DEF Ticket
<1>6. \A s \in Status, w \in Worker \cup {Nobody}, n \in Nat :
              [t EXCEPT !.status = s, !.lockedBy = w, !.stale = FALSE,
                        !.attempt = n] \in Ticket
  BY DEF Ticket
<1>7. \A s \in Status, n \in Nat :
              [t EXCEPT !.status = s, !.maxAttempts = n, !.due = TRUE,
                        !.lockedBy = Nobody, !.stale = FALSE] \in Ticket
  BY DEF Ticket
<1>8. QED
  BY <1>1, <1>2, <1>3, <1>4, <1>5, <1>6, <1>7, <1>9

\* A store method that rewrites one ticket keeps the table typed and locked.
LEMMA OneTicketWritten ==
  ASSUME jobs \in [Job -> Ticket], NEW j \in Job, NEW t \in Ticket,
         jobs' = [jobs EXCEPT ![j] = t],
         \A k \in Job : jobs[k].lockedBy # Nobody <=> jobs[k].status = "running",
         t.lockedBy # Nobody <=> t.status = "running"
  PROVE  /\ jobs' \in [Job -> Ticket]
         /\ \A k \in Job :
              jobs'[k].lockedBy # Nobody <=> jobs'[k].status = "running"
<1>1. jobs' \in [Job -> Ticket]
  OBVIOUS
<1>2. ASSUME NEW k \in Job
      PROVE  jobs'[k].lockedBy # Nobody <=> jobs'[k].status = "running"
  BY DEF Ticket
<1>3. QED
  BY <1>1, <1>2

\* What a settle, a grant or a claim writes is a ticket.
LEMMA WrittenTickets ==
  ASSUME jobs \in [Job -> Ticket], NEW j \in Job
  PROVE  /\ \A status \in Status : Settled(j, status) \in Ticket
         /\ Granted(j) \in Ticket
         /\ \A w \in Worker : Claimed(j, w) \in Ticket
         /\ \A status \in Status : NoTicket(status) \in Ticket
<1>1. jobs[j] \in Ticket /\ jobs[j].attempt + 1 \in Nat
  BY DEF Ticket
<1>2. {"queued", "running"} \subseteq Status
  BY DEF Status
<1>3. \A status \in Status : Settled(j, status) \in Ticket
  BY <1>1, TicketEdits DEF Settled
<1>4. Granted(j) \in Ticket
  BY <1>1, <1>2, TicketEdits DEF Granted
<1>5. \A w \in Worker : Claimed(j, w) \in Ticket
  BY <1>1, <1>2, TicketEdits DEF Claimed
<1>6. \A status \in Status : NoTicket(status) \in Ticket
  BY DEF NoTicket, Ticket
<1>7. QED
  BY <1>3, <1>4, <1>5, <1>6

\* What they write is locked exactly when it is running.
LEMMA WrittenLocks ==
  ASSUME jobs \in [Job -> Ticket], NEW j \in Job
  PROVE  /\ \A status \in Status : /\ Settled(j, status).lockedBy = Nobody
                                   /\ Settled(j, status).status = status
         /\ Granted(j).lockedBy = Nobody /\ Granted(j).status = "queued"
         /\ \A w \in Worker : /\ Claimed(j, w).lockedBy = w
                              /\ Claimed(j, w).status = "running"
  BY DEF Settled, Granted, Claimed, Ticket

\* The table of tickets is typed, and a ticket is locked exactly while it runs.
StoreTypeOK ==
  /\ jobs \in [Job -> Ticket]
  /\ \A j \in Job : jobs[j].lockedBy # Nobody <=> jobs[j].status = "running"

\* Every method of the store keeps it so.
LEMMA MethodsKeepTypes ==
  ASSUME StoreTypeOK
  PROVE  /\ \A j \in Job, created \in Stamps : EnqueueJob(j, created) => StoreTypeOK'
         /\ \A w \in Worker, j \in Job : ClaimJob(w, j) => StoreTypeOK'
         /\ \A w, held : HeartbeatJobs(w, held) => StoreTypeOK'
         /\ \A w, attempt, status : \A j \in Job :
              CompleteJob(w, j, attempt, status) => StoreTypeOK'
         /\ \A w, attempt : \A j \in Job, due \in BOOLEAN :
              RetryOrFailJob(w, j, attempt, due) => StoreTypeOK'
         /\ \A w \in Worker, j \in Job : AcquireSweep(w, j) => StoreTypeOK'
         /\ \A w, status : \A j \in Job :
              SettleSweptJob(w, j, status) => StoreTypeOK'
         /\ \A status : \A j \in Job : SettlePausedJob(j, status) => StoreTypeOK'
         /\ \A j \in Job : CancelJob(j) => StoreTypeOK'
         /\ \A j \in Job : RequeueJob(j) => StoreTypeOK'
         /\ \A j \in Job : ContinueJob(j) => StoreTypeOK'
         /\ \A j \in Job : LeaseLapses(j) => StoreTypeOK'
         /\ \A j \in Job : BackoffEnds(j) => StoreTypeOK'
         /\ \A old \in SUBSET Job : CleanupJobs(old) => StoreTypeOK'
<1> DEFINE Locked(t) == t.lockedBy # Nobody <=> t.status = "running"
<1>a. ASSUME NEW j \in Job, NEW t \in Ticket, Locked(t),
             jobs' = [jobs EXCEPT ![j] = t]
      PROVE  StoreTypeOK'
  BY <1>a, OneTicketWritten DEF StoreTypeOK
<1>b. ASSUME NEW j \in Job
      PROVE  /\ \A status \in Status \ {"running"} :
                  Settled(j, status) \in Ticket /\ Locked(Settled(j, status))
             /\ Granted(j) \in Ticket /\ Locked(Granted(j))
             /\ \A w \in Worker : Claimed(j, w) \in Ticket /\ Locked(Claimed(j, w))
  BY <1>b, WrittenTickets, WrittenLocks, WorkerAssumption DEF StoreTypeOK
<1>c. \A j \in Job : jobs[j] \in Ticket /\ Locked(jobs[j])
  BY DEF StoreTypeOK
<1>d. \A t \in Ticket, b \in BOOLEAN :
        Locked(t) => /\ [t EXCEPT !.stale = b] \in Ticket
                     /\ Locked([t EXCEPT !.stale = b])
                     /\ [t EXCEPT !.due = b] \in Ticket
                     /\ Locked([t EXCEPT !.due = b])
  <2> SUFFICES ASSUME NEW t \in Ticket, NEW b \in BOOLEAN, Locked(t)
               PROVE  /\ [t EXCEPT !.stale = b] \in Ticket
                      /\ Locked([t EXCEPT !.stale = b])
                      /\ [t EXCEPT !.due = b] \in Ticket
                      /\ Locked([t EXCEPT !.due = b])
    OBVIOUS
  <2>1. /\ Locked([t EXCEPT !.stale = b]) /\ Locked([t EXCEPT !.due = b])
    BY DEF Ticket
  <2>2. QED
    BY <2>1, TicketEdits
<1>e. {"absent", "queued", "paused", "completed", "cancelled", "failed",
       "deleted"} = Status \ {"running"}
  BY DEF Status
<1>f. ASSUME NEW s \in Seqs PROVE s \in Nat
  BY <1>c, <1>f DEF Seqs, Ticket
<1>1. ASSUME NEW j \in Job, NEW created \in Stamps, EnqueueJob(j, created)
      PROVE  StoreTypeOK'
  <2>1. PICK s \in Seqs :
          jobs' = [jobs EXCEPT ![j] =
            [NoTicket("queued") EXCEPT !.maxAttempts = MaxAttempts,
                                       !.seq = s, !.created = created]]
    BY <1>1 DEF EnqueueJob
  <2>2. s \in Nat /\ created \in Nat /\ MaxAttempts \in Nat
    BY <1>f, NumberAssumption
  <2> DEFINE t == [NoTicket("queued") EXCEPT !.maxAttempts = MaxAttempts,
                                             !.seq = s, !.created = created]
  <2>3. t \in Ticket /\ Locked(t)
    BY <2>2 DEF NoTicket, Ticket, Status
  <2>4. QED
    BY <2>1, <2>3, <1>a
<1>2. ASSUME NEW w \in Worker, NEW j \in Job, ClaimJob(w, j) PROVE StoreTypeOK'
  BY <1>2, <1>a, <1>b DEF ClaimJob
<1>3. ASSUME NEW w, NEW held, HeartbeatJobs(w, held) PROVE StoreTypeOK'
  BY <1>3, <1>c, <1>d DEF HeartbeatJobs, StoreTypeOK
<1>4. ASSUME NEW w, NEW attempt, NEW status, NEW j \in Job,
             CompleteJob(w, j, attempt, status)
      PROVE  StoreTypeOK'
  BY <1>4, <1>a, <1>b, <1>e DEF CompleteJob
<1>5. ASSUME NEW w, NEW attempt, NEW j \in Job, NEW due \in BOOLEAN,
             RetryOrFailJob(w, j, attempt, due)
      PROVE  StoreTypeOK'
  <2>1. /\ Settled(j, "queued") \in Ticket /\ Locked(Settled(j, "queued"))
        /\ Settled(j, "failed") \in Ticket /\ Locked(Settled(j, "failed"))
    BY <1>b, <1>e
  <2>2. /\ [Settled(j, "queued") EXCEPT !.due = due] \in Ticket
        /\ Locked([Settled(j, "queued") EXCEPT !.due = due])
    BY <2>1, <1>d
  <2>3. CASE jobs[j].attempt < jobs[j].maxAttempts
    BY <1>5, <2>2, <2>3, <1>a DEF RetryOrFailJob
  <2>4. CASE ~(jobs[j].attempt < jobs[j].maxAttempts)
    BY <1>5, <2>1, <2>4, <1>a DEF RetryOrFailJob
  <2>5. QED
    BY <2>3, <2>4
<1>6. ASSUME NEW w \in Worker, NEW j \in Job, AcquireSweep(w, j) PROVE StoreTypeOK'
  <2> DEFINE t == [jobs[j] EXCEPT !.lockedBy = w, !.stale = FALSE]
  <2>1. t \in Ticket
    BY <1>c, TicketEdits
  <2>2. Locked(t)
    BY <1>6, <1>c, WorkerAssumption DEF AcquireSweep, Sweepable, Ticket
  <2>3. QED
    BY <1>6, <2>1, <2>2, <1>a DEF AcquireSweep
<1>7. ASSUME NEW w, NEW status, NEW j \in Job, SettleSweptJob(w, j, status)
      PROVE  StoreTypeOK'
  BY <1>7, <1>a, <1>b, <1>e DEF SettleSweptJob
<1>8. ASSUME NEW status, NEW j \in Job, SettlePausedJob(j, status) PROVE StoreTypeOK'
  BY <1>8, <1>a, <1>b, <1>e DEF SettlePausedJob
<1>9. ASSUME NEW j \in Job, CancelJob(j) PROVE StoreTypeOK'
  <2> DEFINE t == [jobs[j] EXCEPT !.status = "cancelled"]
  <2>1. t \in Ticket
    BY <1>c, <1>e, TicketEdits
  <2>2. Locked(t)
    BY <1>9, <1>c DEF CancelJob, Ticket
  <2>3. QED
    BY <1>9, <2>1, <2>2, <1>a DEF CancelJob
<1>10. ASSUME NEW j \in Job, RequeueJob(j) PROVE StoreTypeOK'
  <2>1. PICK s \in Seqs : jobs' = [jobs EXCEPT ![j] = [Granted(j) EXCEPT !.seq = s]]
    BY <1>10 DEF RequeueJob
  <2>2. s \in Nat
    BY <1>f
  <2> DEFINE t == [Granted(j) EXCEPT !.seq = s]
  <2>3. t \in Ticket
    BY <2>2, <1>b, TicketEdits
  <2>4. Locked(t)
    BY <1>b, <2>2 DEF Ticket
  <2>5. QED
    BY <2>1, <2>3, <2>4, <1>a
<1>11. ASSUME NEW j \in Job, ContinueJob(j) PROVE StoreTypeOK'
  BY <1>11, <1>a, <1>b DEF ContinueJob
<1>12. ASSUME NEW j \in Job, LeaseLapses(j) \/ BackoffEnds(j) PROVE StoreTypeOK'
  BY <1>12, <1>a, <1>c, <1>d DEF LeaseLapses, BackoffEnds
<1>13. ASSUME NEW old \in SUBSET Job, CleanupJobs(old) PROVE StoreTypeOK'
  <2>1. NoTicket("deleted") \in Ticket /\ Locked(NoTicket("deleted"))
    BY DEF NoTicket, Ticket, Status
  <2>2. QED
    BY <1>13, <1>c, <2>1 DEF CleanupJobs, StoreTypeOK
<1>14. QED
  BY <1>1, <1>2, <1>3, <1>4, <1>5, <1>6, <1>7, <1>8, <1>9, <1>10, <1>11, <1>12,
     <1>13

LEMMA StoreInitTyped == StoreInit => StoreTypeOK
  BY DEF StoreInit, NoTicket, StoreTypeOK, Ticket, Status

\* A ticket once there stays, with the attempts it has had.
Onward(k) ==
  jobs[k].status # "absent" =>
    jobs'[k].status # "absent" /\ jobs[k].attempt <= jobs'[k].attempt

StaysCancelled(k) ==
  jobs[k].status = "cancelled" => jobs'[k].status = "cancelled"

\* Every method but the cleanup lets a ticket go onward, and only a requeue of
\* its own takes it from cancelled.
LEMMA MethodsGoOnward ==
  ASSUME StoreTypeOK, NEW k \in Job
  PROVE  /\ \A j \in Job, created \in Stamps :
              EnqueueJob(j, created) => Onward(k) /\ StaysCancelled(k)
         /\ \A w \in Worker, j \in Job :
              ClaimJob(w, j) => Onward(k) /\ StaysCancelled(k)
         /\ \A w, held : HeartbeatJobs(w, held) => Onward(k) /\ StaysCancelled(k)
         /\ \A w, attempt, status : \A j \in Job :
              CompleteJob(w, j, attempt, status) => Onward(k) /\ StaysCancelled(k)
         /\ \A w, attempt : \A j \in Job, due \in BOOLEAN :
              RetryOrFailJob(w, j, attempt, due) => Onward(k) /\ StaysCancelled(k)
         /\ \A w \in Worker, j \in Job :
              AcquireSweep(w, j) => Onward(k) /\ StaysCancelled(k)
         /\ \A w, status : \A j \in Job :
              SettleSweptJob(w, j, status) => Onward(k) /\ StaysCancelled(k)
         /\ \A status : \A j \in Job :
              SettlePausedJob(j, status) => Onward(k) /\ StaysCancelled(k)
         /\ \A j \in Job : CancelJob(j) => Onward(k) /\ StaysCancelled(k)
         /\ \A j \in Job :
              RequeueJob(j) => Onward(k) /\ (j # k => StaysCancelled(k))
         /\ \A j \in Job : ContinueJob(j) => Onward(k) /\ StaysCancelled(k)
         /\ \A j \in Job : LeaseLapses(j) => Onward(k) /\ StaysCancelled(k)
         /\ \A j \in Job : BackoffEnds(j) => Onward(k) /\ StaysCancelled(k)
         /\ jobs' = jobs => Onward(k) /\ StaysCancelled(k)
<1>a. \A j \in Job : jobs[j] \in Ticket /\ jobs[j].attempt \in Nat
  BY DEF StoreTypeOK, Ticket
<1>b. ASSUME NEW j \in Job, NEW t, jobs' = [jobs EXCEPT ![j] = t],
             t.status # "absent",
             jobs[j].status = "absent" \/ jobs[j].attempt <= t.attempt
      PROVE  Onward(k) /\ (j # k \/ jobs[j].status # "cancelled" => StaysCancelled(k))
  BY <1>a, <1>b DEF StoreTypeOK, Onward, StaysCancelled
<1>c. ASSUME NEW j \in Job
      PROVE  /\ \A status : /\ Settled(j, status).status = status
                            /\ Settled(j, status).attempt = jobs[j].attempt
             /\ Granted(j).status = "queued" /\ Granted(j).attempt = jobs[j].attempt
             /\ \A w : /\ Claimed(j, w).status = "running"
                       /\ Claimed(j, w).attempt = jobs[j].attempt + 1
  BY <1>a DEF Settled, Granted, Claimed, Ticket
<1>d. \A j \in Job : /\ jobs[j].attempt <= jobs[j].attempt
                     /\ jobs[j].attempt <= jobs[j].attempt + 1
  BY <1>a
<1>e. jobs' = jobs => Onward(k) /\ StaysCancelled(k)
  BY <1>d DEF Onward, StaysCancelled
<1>f. ASSUME NEW j \in Job, NEW status, status # "absent",
             jobs[j].status # "cancelled", jobs' = [jobs EXCEPT ![j] = Settled(j, status)]
      PROVE  Onward(k) /\ StaysCancelled(k)
  <2>1. /\ Settled(j, status).status # "absent"
        /\ jobs[j].attempt <= Settled(j, status).attempt
    BY <1>c, <1>d, <1>f
  <2>2. QED
    BY <1>b, <1>f, <2>1
<1>1. ASSUME NEW j \in Job, NEW created \in Stamps, EnqueueJob(j, created)
      PROVE  Onward(k) /\ StaysCancelled(k)
  <2>1. PICK s \in Seqs :
          jobs' = [jobs EXCEPT ![j] =
            [NoTicket("queued") EXCEPT !.maxAttempts = MaxAttempts,
                                       !.seq = s, !.created = created]]
    BY <1>1 DEF EnqueueJob
  <2>2. [NoTicket("queued") EXCEPT !.maxAttempts = MaxAttempts,
                                   !.seq = s, !.created = created].status = "queued"
    BY DEF NoTicket
  <2>3. jobs[j].status = "absent"
    BY <1>1 DEF EnqueueJob
  <2>4. QED
    BY <1>b, <2>1, <2>2, <2>3
<1>2. ASSUME NEW w \in Worker, NEW j \in Job, ClaimJob(w, j)
      PROVE  Onward(k) /\ StaysCancelled(k)
  BY <1>2, <1>b, <1>c, <1>d DEF ClaimJob, Candidate, Reclaimable
<1>3. ASSUME NEW w, NEW held, HeartbeatJobs(w, held)
      PROVE  Onward(k) /\ StaysCancelled(k)
  BY <1>3, <1>a DEF HeartbeatJobs, Onward, StaysCancelled, Ticket
<1>4. ASSUME NEW w, NEW attempt, NEW status, NEW j \in Job,
             CompleteJob(w, j, attempt, status)
      PROVE  Onward(k) /\ StaysCancelled(k)
  <2>1. status # "absent"
    BY <1>4 DEF CompleteJob
  <2>2. QED
    BY <1>4, <1>f, <2>1 DEF CompleteJob, OwnsLease
<1>5. ASSUME NEW w, NEW attempt, NEW j \in Job, NEW due \in BOOLEAN,
             RetryOrFailJob(w, j, attempt, due)
      PROVE  Onward(k) /\ StaysCancelled(k)
  <2> DEFINE t == IF jobs[j].attempt < jobs[j].maxAttempts
                  THEN [Settled(j, "queued") EXCEPT !.due = due]
                  ELSE Settled(j, "failed")
  <2>1. t.status # "absent" /\ t.attempt = jobs[j].attempt
    BY <1>a DEF Settled, Ticket
  <2>2. jobs' = [jobs EXCEPT ![j] = t] /\ jobs[j].status = "running"
    BY <1>5 DEF RetryOrFailJob, OwnsLease
  <2> HIDE DEF t
  <2>3. QED
    BY <1>b, <1>d, <2>1, <2>2
<1>6. ASSUME NEW w \in Worker, NEW j \in Job, AcquireSweep(w, j)
      PROVE  Onward(k) /\ StaysCancelled(k)
  BY <1>6, <1>a DEF AcquireSweep, Onward, StaysCancelled, Ticket, StoreTypeOK
<1>7. ASSUME NEW w, NEW status, NEW j \in Job, SettleSweptJob(w, j, status)
      PROVE  Onward(k) /\ StaysCancelled(k)
  <2>1. status # "absent"
    BY <1>7 DEF SettleSweptJob
  <2>2. QED
    BY <1>7, <1>f, <2>1 DEF SettleSweptJob
<1>8. ASSUME NEW status, NEW j \in Job, SettlePausedJob(j, status)
      PROVE  Onward(k) /\ StaysCancelled(k)
  <2>1. status # "absent"
    BY <1>8 DEF SettlePausedJob
  <2>2. QED
    BY <1>8, <1>f, <2>1 DEF SettlePausedJob
<1>9. ASSUME NEW j \in Job, CancelJob(j) PROVE Onward(k) /\ StaysCancelled(k)
  BY <1>9, <1>a DEF CancelJob, Onward, StaysCancelled, Ticket, StoreTypeOK
<1>10. ASSUME NEW j \in Job, RequeueJob(j)
       PROVE  Onward(k) /\ (j # k => StaysCancelled(k))
  <2>1. PICK s \in Seqs : jobs' = [jobs EXCEPT ![j] = [Granted(j) EXCEPT !.seq = s]]
    BY <1>10 DEF RequeueJob
  <2>2. /\ [Granted(j) EXCEPT !.seq = s].status = "queued"
        /\ [Granted(j) EXCEPT !.seq = s].attempt = jobs[j].attempt
    BY <1>a DEF Granted, Ticket
  <2>3. QED
    BY <1>b, <1>d, <2>1, <2>2
<1>11. ASSUME NEW j \in Job, ContinueJob(j) PROVE Onward(k) /\ StaysCancelled(k)
  BY <1>11, <1>b, <1>c, <1>d DEF ContinueJob
<1>12. ASSUME NEW j \in Job, LeaseLapses(j) \/ BackoffEnds(j)
       PROVE  Onward(k) /\ StaysCancelled(k)
  BY <1>12, <1>a
  DEF LeaseLapses, BackoffEnds, Onward, StaysCancelled, Ticket, StoreTypeOK
<1>13. QED
  BY <1>e, <1>1, <1>2, <1>3, <1>4, <1>5, <1>6, <1>7, <1>8, <1>9, <1>10, <1>11,
     <1>12

\* A ticket once there keeps its attempt, and is not deleted.
AttemptStays(k) ==
  jobs[k].status # "absent" =>
    /\ jobs'[k].status # "absent"
    /\ jobs'[k].status = "deleted" <=> jobs[k].status = "deleted"
    /\ jobs'[k].attempt = jobs[k].attempt

\* Only a claim gives out an attempt, and only the cleanup deletes a ticket.
LEMMA MethodsKeepAttempts ==
  ASSUME StoreTypeOK, NEW k \in Job
  PROVE  /\ \A j \in Job, created \in Stamps : EnqueueJob(j, created) => AttemptStays(k)
         /\ \A w, attempt, status : \A j \in Job :
              CompleteJob(w, j, attempt, status) => AttemptStays(k)
         /\ \A w, attempt : \A j \in Job, due \in BOOLEAN :
              RetryOrFailJob(w, j, attempt, due) => AttemptStays(k)
         /\ \A w : \A j \in Job : AcquireSweep(w, j) => AttemptStays(k)
         /\ \A w, status : \A j \in Job :
              SettleSweptJob(w, j, status) => AttemptStays(k)
         /\ \A status : \A j \in Job : SettlePausedJob(j, status) => AttemptStays(k)
         /\ \A j \in Job : CancelJob(j) => AttemptStays(k)
         /\ \A j \in Job : RequeueJob(j) => AttemptStays(k)
         /\ \A j \in Job : ContinueJob(j) => AttemptStays(k)
         /\ \A j \in Job : LeaseLapses(j) => AttemptStays(k)
         /\ \A j \in Job : BackoffEnds(j) => AttemptStays(k)
         /\ jobs' = jobs => AttemptStays(k)
<1>a. \A j \in Job : jobs[j] \in Ticket
  BY DEF StoreTypeOK
<1>b. ASSUME NEW j \in Job, NEW t, jobs' = [jobs EXCEPT ![j] = t],
             t.status \notin {"absent", "deleted"}, jobs[j].status # "deleted",
             jobs[j].status = "absent" \/ t.attempt = jobs[j].attempt
      PROVE  AttemptStays(k)
  BY <1>b DEF StoreTypeOK, AttemptStays
<1>c. ASSUME NEW j \in Job
      PROVE  /\ \A status : /\ Settled(j, status).status = status
                            /\ Settled(j, status).attempt = jobs[j].attempt
             /\ Granted(j).status = "queued" /\ Granted(j).attempt = jobs[j].attempt
  BY <1>a DEF Settled, Granted, Ticket
<1>d. ASSUME NEW j \in Job, NEW status, status \notin {"absent", "deleted"},
             jobs[j].status # "deleted", jobs' = [jobs EXCEPT ![j] = Settled(j, status)]
      PROVE  AttemptStays(k)
  BY <1>b, <1>c, <1>d
<1>1. ASSUME NEW j \in Job, NEW created \in Stamps, EnqueueJob(j, created)
      PROVE  AttemptStays(k)
  <2>1. PICK s \in Seqs :
          jobs' = [jobs EXCEPT ![j] =
            [NoTicket("queued") EXCEPT !.maxAttempts = MaxAttempts,
                                       !.seq = s, !.created = created]]
    BY <1>1 DEF EnqueueJob
  <2>2. [NoTicket("queued") EXCEPT !.maxAttempts = MaxAttempts,
                                   !.seq = s, !.created = created].status = "queued"
    BY DEF NoTicket
  <2>3. jobs[j].status = "absent"
    BY <1>1 DEF EnqueueJob
  <2>4. QED
    BY <1>b, <2>1, <2>2, <2>3
<1>2. ASSUME NEW w, NEW attempt, NEW status, NEW j \in Job,
             CompleteJob(w, j, attempt, status)
      PROVE  AttemptStays(k)
  BY <1>2, <1>d DEF CompleteJob, OwnsLease
<1>3. ASSUME NEW w, NEW attempt, NEW j \in Job, NEW due \in BOOLEAN,
             RetryOrFailJob(w, j, attempt, due)
      PROVE  AttemptStays(k)
  <2> DEFINE t == IF jobs[j].attempt < jobs[j].maxAttempts
                  THEN [Settled(j, "queued") EXCEPT !.due = due]
                  ELSE Settled(j, "failed")
  <2>1. t.status \in {"queued", "failed"} /\ t.attempt = jobs[j].attempt
    BY <1>a DEF Settled, Ticket
  <2>2. jobs' = [jobs EXCEPT ![j] = t] /\ jobs[j].status = "running"
    BY <1>3 DEF RetryOrFailJob, OwnsLease
  <2> HIDE DEF t
  <2>3. QED
    BY <1>b, <2>1, <2>2
<1>4. ASSUME NEW w, NEW j \in Job, AcquireSweep(w, j) PROVE AttemptStays(k)
  <2> DEFINE t == [jobs[j] EXCEPT !.lockedBy = w, !.stale = FALSE]
  <2>1. t.status = "running" /\ t.attempt = jobs[j].attempt
    BY <1>4, <1>a DEF AcquireSweep, Sweepable, Ticket
  <2>2. jobs' = [jobs EXCEPT ![j] = t] /\ jobs[j].status = "running"
    BY <1>4 DEF AcquireSweep, Sweepable
  <2> HIDE DEF t
  <2>3. QED
    BY <1>b, <2>1, <2>2
<1>5. ASSUME NEW w, NEW status, NEW j \in Job, SettleSweptJob(w, j, status)
      PROVE  AttemptStays(k)
  BY <1>5, <1>d DEF SettleSweptJob
<1>6. ASSUME NEW status, NEW j \in Job, SettlePausedJob(j, status)
      PROVE  AttemptStays(k)
  BY <1>6, <1>d DEF SettlePausedJob
<1>7. ASSUME NEW j \in Job, CancelJob(j) PROVE AttemptStays(k)
  <2> DEFINE t == [jobs[j] EXCEPT !.status = "cancelled"]
  <2>1. t.status = "cancelled" /\ t.attempt = jobs[j].attempt
    BY <1>a DEF Ticket
  <2>2. jobs' = [jobs EXCEPT ![j] = t] /\ jobs[j].status # "deleted"
    BY <1>7 DEF CancelJob
  <2> HIDE DEF t
  <2>3. QED
    BY <1>b, <2>1, <2>2
<1>8. ASSUME NEW j \in Job, RequeueJob(j) PROVE AttemptStays(k)
  <2>1. /\ jobs[j].status # "deleted"
        /\ \E s \in Seqs : jobs' = [jobs EXCEPT ![j] = [Granted(j) EXCEPT !.seq = s]]
    BY <1>8 DEF RequeueJob
  <2>3. PICK s \in Seqs : jobs' = [jobs EXCEPT ![j] = [Granted(j) EXCEPT !.seq = s]]
    BY <2>1
  <2>2. /\ [Granted(j) EXCEPT !.seq = s].status = "queued"
        /\ [Granted(j) EXCEPT !.seq = s].attempt = jobs[j].attempt
    BY <1>a DEF Granted, Ticket
  <2>4. QED
    BY <1>b, <2>1, <2>2, <2>3
<1>9. ASSUME NEW j \in Job, ContinueJob(j) PROVE AttemptStays(k)
  BY <1>9, <1>b, <1>c DEF ContinueJob
<1>10. ASSUME NEW j \in Job, LeaseLapses(j) \/ BackoffEnds(j) PROVE AttemptStays(k)
  BY <1>10, <1>a DEF LeaseLapses, BackoffEnds, AttemptStays, Ticket, StoreTypeOK
<1>11. jobs' = jobs => AttemptStays(k)
  BY DEF AttemptStays
<1>12. QED
  BY <1>1, <1>2, <1>3, <1>4, <1>5, <1>6, <1>7, <1>8, <1>9, <1>10, <1>11
=============================================================================
