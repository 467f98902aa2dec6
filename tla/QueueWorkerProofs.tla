------------------------- MODULE QueueWorkerProofs -------------------------
(***************************************************************************)
(* Proofs about QueueWorker, for any sets of runs and workers, any budget  *)
(* and any bounds.                                                         *)
(***************************************************************************)
EXTENDS QueueWorker, JobStoreProofs

-----------------------------------------------------------------------------
(* Types *)

\* What TypeOK says, in the parts a step changes.
LegsTypeOK == legs \in SUBSET Leg /\ owned \in [Worker -> [Job -> Nat]]

RowsTypeOK == rows \in [Job -> Row]

SweepsTypeOK ==
  /\ sweeps \in [Worker -> Sweep]
  /\ \A w \in Worker : sweeps[w].pc = "idle" <=> sweeps[w] = NoSweep

CancelsTypeOK ==
  /\ cancels \in [Job -> Cancel]
  /\ \A j \in Job : cancels[j].pc = "idle" <=> cancels[j] = NoCancel

\* The lock of a ticket stands exactly while it is running.
TypeInv == TypeOK /\ StoreTypeOK

LEMMA TypeParts ==
  TypeInv <=> /\ StoreTypeOK /\ RowsTypeOK /\ LegsTypeOK /\ SweepsTypeOK
              /\ CancelsTypeOK
              /\ intents \in SUBSET Job /\ continuing \in SUBSET Job
              /\ preparing \in SUBSET Job /\ alive \in SUBSET Worker
  BY DEF TypeInv, TypeOK, StoreTypeOK, RowsTypeOK, LegsTypeOK, SweepsTypeOK,
         CancelsTypeOK

\* A leg that goes on is a leg of the same claim.
LEMMA GotoTyped ==
  ASSUME legs \in SUBSET Leg, NEW l \in legs, NEW pc \in LegPc,
         NEW result \in Result, Goto(l, pc, result)
  PROVE  /\ [l EXCEPT !.pc = pc, !.result = result] \in Leg
         /\ legs' \in SUBSET Leg
<1>1. l \in Leg
  OBVIOUS
<1>2. [l EXCEPT !.pc = pc, !.result = result] \in Leg
  BY <1>1 DEF Leg
<1>3. QED
  BY <1>2 DEF Goto

LEMMA EndOfTyped ==
  ASSUME LegsTypeOK, NEW l \in legs, EndOf(l)
  PROVE  LegsTypeOK'
<1>1. l.worker \in Worker /\ l.job \in Job
  BY DEF LegsTypeOK, Leg
<1>2. owned[l.worker] \in [Job -> Nat]
  BY <1>1 DEF LegsTypeOK
<1>3. [owned[l.worker] EXCEPT ![l.job] = 0] \in [Job -> Nat]
  BY <1>1, <1>2
<1>4. owned' \in [Worker -> [Job -> Nat]]
  BY <1>1, <1>3 DEF EndOf, LegsTypeOK
<1>5. QED
  BY <1>4 DEF EndOf, LegsTypeOK

\* The fenced primitive and the others that write a row.
LEMMA RowWritesTyped ==
  ASSUME RowsTypeOK, NEW j \in Job
  PROVE  /\ \A status \in RowStatus, attempt \in Nat :
              Persist(j, attempt, status) => RowsTypeOK'
         /\ AppendIfAbsent(j) => RowsTypeOK'
         /\ \A attempt \in Nat :
              rows' = [rows EXCEPT ![j].attempt = attempt] => RowsTypeOK'
         /\ \A status \in RowStatus, attempt \in Nat :
              rows' = [rows EXCEPT ![j] = [status |-> status, attempt |-> attempt]]
                => RowsTypeOK'
<1>1. rows[j] \in Row
  BY DEF RowsTypeOK
<1>2. ASSUME NEW r \in Row, rows' = [rows EXCEPT ![j] = r] PROVE RowsTypeOK'
  BY <1>2 DEF RowsTypeOK
<1>3. ASSUME NEW status \in RowStatus, NEW attempt \in Nat
      PROVE  /\ [status |-> status, attempt |-> attempt] \in Row
             /\ [rows[j] EXCEPT !.status = status] \in Row
             /\ [rows[j] EXCEPT !.attempt = attempt] \in Row
  BY <1>1 DEF Row
<1>4. rows' = rows => RowsTypeOK'
  BY DEF RowsTypeOK
<1>5. ASSUME NEW status \in RowStatus, NEW attempt \in Nat,
             Persist(j, attempt, status)
      PROVE  RowsTypeOK'
  BY <1>2, <1>3, <1>4, <1>5 DEF Persist
<1>6. ASSUME AppendIfAbsent(j) PROVE RowsTypeOK'
  <2>1. "pending" \in RowStatus /\ 0 \in Nat
    BY DEF RowStatus
  <2>2. rows' = [rows EXCEPT ![j] = [rows[j] EXCEPT !.status = "pending"]]
          \/ rows' = rows
    BY <1>6 DEF AppendIfAbsent
  <2>3. QED
    BY <1>2, <1>3, <1>4, <2>1, <2>2
<1>7. ASSUME NEW attempt \in Nat, rows' = [rows EXCEPT ![j].attempt = attempt]
      PROVE  RowsTypeOK'
  <2>1. "none" \in RowStatus
    BY DEF RowStatus
  <2>2. rows' = [rows EXCEPT ![j] = [rows[j] EXCEPT !.attempt = attempt]]
    BY <1>7
  <2>3. QED
    BY <1>2, <1>3, <2>1, <2>2
<1>8. QED
  BY <1>2, <1>3, <1>5, <1>6, <1>7

\* What the steps of a leg leave alone keeps its types.
LEMMA QuietTyped ==
  ASSUME TypeInv, Quiet, StoreTypeOK', RowsTypeOK', LegsTypeOK',
         intents' \in SUBSET Job
  PROVE  TypeInv'
  BY TypeParts DEF Quiet, doors, TypeInv, TypeOK, StoreTypeOK, RowsTypeOK, LegsTypeOK

\* The last step of a leg.
LEMMA SettleTyped ==
  ASSUME TypeInv, NEW l \in legs,
         (\E status : Settle(l, status)) \/ RetryOrFail(l),
         intents' \in SUBSET Job
  PROVE  TypeInv'
<1>1. l.job \in Job
  BY DEF TypeInv, TypeOK, Leg
<1>2. EndOf(l) /\ UNCHANGED rows /\ Quiet
  BY DEF Settle, RetryOrFail, Settling
<1>3. StoreTypeOK /\ RowsTypeOK /\ LegsTypeOK
  BY TypeParts
<1>4. StoreTypeOK'
  <2>1. CASE \E status : CompleteJob(l.worker, l.job, l.attempt, status)
    BY <1>1, <1>3, <2>1, MethodsKeepTypes
  <2>2. CASE RetryOrFailJob(l.worker, l.job, l.attempt, TRUE)
    BY <1>1, <1>3, <2>2, MethodsKeepTypes
  <2>3. CASE UNCHANGED jobs
    BY <1>3, <2>3 DEF StoreTypeOK
  <2>4. QED
    BY <2>1, <2>2, <2>3 DEF Settle, RetryOrFail, Settling
<1>5. RowsTypeOK'
  BY <1>2, <1>3 DEF RowsTypeOK
<1>6. LegsTypeOK'
  BY <1>2, <1>3, EndOfTyped
<1>7. QED
  BY <1>2, <1>4, <1>5, <1>6, QuietTyped

LEMMA ExecuteTyped ==
  ASSUME TypeInv, NEW l \in legs, Execute(l) \/ Checkpoint(l)
  PROVE  TypeInv'
<1>a. /\ l \in Leg /\ l.job \in Job /\ l.worker \in Worker /\ l.attempt \in Nat
      /\ l.result \in Result
  BY DEF TypeInv, TypeOK, Leg
<1>b. /\ StoreTypeOK /\ RowsTypeOK /\ LegsTypeOK /\ intents \in SUBSET Job
  BY TypeParts
<1>c. ASSUME NEW pc \in LegPc, NEW result \in Result, Goto(l, pc, result),
             UNCHANGED <<jobs, owned>>, RowsTypeOK', Quiet,
             intents' \in SUBSET Job
      PROVE  TypeInv'
  <2>1. LegsTypeOK'
    BY <1>b, <1>c, GotoTyped DEF LegsTypeOK
  <2>2. StoreTypeOK'
    BY <1>b, <1>c DEF StoreTypeOK
  <2>3. QED
    BY <1>c, <2>1, <2>2, QuietTyped
<1>d. ASSUME Leave(l) PROVE TypeInv'
  <2>1. LegsTypeOK'
    BY <1>b, <1>d, EndOfTyped DEF Leave
  <2>2. StoreTypeOK' /\ RowsTypeOK'
    BY <1>b, <1>d DEF Leave, store, StoreTypeOK, RowsTypeOK
  <2>3. QED
    BY <1>b, <1>d, <2>1, <2>2, QuietTyped DEF Leave
<1>e. rows' = rows => RowsTypeOK'
  BY <1>b DEF RowsTypeOK
<1>f. /\ LegPc = {"check", "ensure", "stamp", "slot", "running", "honor", "enter",
                  "exec", "saved", "fail", "settle", "cancelTicket", "cancelRow"}
      /\ Result = {"none", "completed", "cancelled", "paused", "error", "fatal",
                   "unseen", "permanent", "transient", "fork"}
      /\ {"completed", "cancelled", "paused", "error", "fatal", "unseen", "running"}
            \subseteq RowStatus
  BY DEF LegPc, Result, RowStatus, Finished
<1>g. ASSUME NEW status \in RowStatus, OwnSave(l, status) PROVE RowsTypeOK'
  <2>1. owned[l.worker][l.job] \in Nat
    BY <1>a, <1>b DEF LegsTypeOK
  <2>2. 0 \in Nat
    OBVIOUS
  <2>3. \/ Persist(l.job, owned[l.worker][l.job], status)
        \/ rows' = [rows EXCEPT ![l.job] = [status |-> status, attempt |-> 0]]
        \/ rows' = rows
    BY <1>g DEF OwnSave
  <2>4. QED
    BY <1>a, <1>b, <1>e, <1>g, <2>1, <2>2, <2>3, RowWritesTyped
<1>1. CASE Check(l)
  <2>1. \/ Leave(l)
        \/ /\ Goto(l, "settle", "permanent") \/ Goto(l, "ensure", "none")
           /\ UNCHANGED <<store, intents, owned>> /\ Quiet
    BY <1>1 DEF Check
  <2>2. QED
    BY <1>b, <1>c, <1>d, <1>e, <1>f, <2>1 DEF store
<1>2. CASE Ensure(l)
  <2>1. \/ Leave(l)
        \/ /\ AppendIfAbsent(l.job) /\ Goto(l, "stamp", "none")
           /\ UNCHANGED <<jobs, intents, owned>> /\ Quiet
    BY <1>2 DEF Ensure
  <2>2. QED
    BY <1>a, <1>b, <1>c, <1>d, <1>f, <2>1, RowWritesTyped
<1>3. CASE Stamp(l)
  <2>1. /\ Goto(l, "slot", "none") /\ UNCHANGED <<jobs, intents, owned>> /\ Quiet
        /\ rows' = rows \/ rows' = [rows EXCEPT ![l.job].attempt = l.attempt]
    BY <1>3 DEF Stamp
  <2>2. RowsTypeOK'
    BY <1>a, <1>b, <1>e, <2>1, RowWritesTyped
  <2>3. QED
    BY <1>b, <1>c, <1>f, <2>1, <2>2
<1>4. CASE NotExecutable(l)
  <2>1. ASSUME NEW result \in {"permanent", "transient"},
               Goto(l, IF result = "permanent" \/ l.last
                       THEN "fail" ELSE "settle", result),
               UNCHANGED <<store, intents, owned>>, Quiet
        PROVE  TypeInv'
    BY <1>b, <1>c, <1>e, <1>f, <2>1 DEF store
  <2>2. QED
    BY <1>4, <1>d, <2>1 DEF NotExecutable
<1>5. CASE Slot(l)
  <2>1. \/ Goto(l, "cancelTicket", "none") \/ Goto(l, "running", "none")
        \/ Goto(l, "enter", "none")
    BY <1>5 DEF Slot
  <2>2. UNCHANGED <<store, intents, owned>> /\ Quiet
    BY <1>5 DEF Slot
  <2>3. QED
    BY <1>b, <1>c, <1>e, <1>f, <2>1, <2>2 DEF store
<1>6. CASE Running(l)
  <2>1. Goto(l, "honor", "none") \/ Goto(l, "exec", "none")
    BY <1>6 DEF Running, AfterStamp
  <2>2. /\ UNCHANGED <<jobs, intents, owned>> /\ Quiet
        /\ Persist(l.job, l.attempt, "running") \/ rows' = rows
    BY <1>6 DEF Running
  <2>3. RowsTypeOK'
    BY <1>a, <1>b, <1>e, <1>f, <2>2, RowWritesTyped
  <2>4. QED
    BY <1>b, <1>c, <1>f, <2>1, <2>2, <2>3
<1>7. CASE Honor(l)
  <2>1. CASE Settle(l, rows[l.job].status) /\ UNCHANGED intents
    BY <1>b, <2>1, SettleTyped
  <2>2. QED
    BY <1>7, <1>d, <2>1 DEF Honor
<1>8. CASE Enter(l)
  <2>1. \/ Goto(l, "fail", "permanent") \/ Goto(l, "exec", "fork")
        \/ Goto(l, "exec", "none")
    BY <1>8 DEF Enter
  <2>2. UNCHANGED <<store, intents, owned>> /\ Quiet
    BY <1>8 DEF Enter
  <2>3. QED
    BY <1>b, <1>c, <1>e, <1>f, <2>1, <2>2 DEF store
<1>9. CASE Checkpoint(l)
  <2>1. RowsTypeOK'
    BY <1>9, <1>f, <1>g DEF Checkpoint
  <2>2. QED
    BY <1>9, <1>b, <2>1, QuietTyped DEF Checkpoint, StoreTypeOK, LegsTypeOK
<1>10. ASSUME NEW result \in Result, Finish(l, result) PROVE TypeInv'
  <2>1. result \in {"completed", "paused", "error", "fatal", "unseen", "cancelled"}
    BY <1>10 DEF Finish
  <2>2. RowsTypeOK'
    BY <1>10, <1>e, <1>f, <1>g, <2>1 DEF Finish
  <2>3. QED
    BY <1>10, <1>b, <1>c, <1>f, <2>2 DEF Finish
<1>11. CASE Return(l)
  <2>1. (\E status : Settle(l, status)) \/ RetryOrFail(l)
    BY <1>11 DEF Return
  <2>2. intents' \in SUBSET Job
    BY <1>11, <1>b DEF Return
  <2>3. QED
    BY <2>1, <2>2, SettleTyped
<1>12. ASSUME NEW result \in Result, Interrupt(l, result) PROVE TypeInv'
  <2>1. Goto(l, "fail", result) \/ Goto(l, "settle", result)
    BY <1>12 DEF Interrupt
  <2>2. UNCHANGED <<store, owned>> /\ Quiet /\ intents' \in SUBSET Job
    BY <1>12, <1>b DEF Interrupt
  <2>3. QED
    BY <1>c, <1>e, <1>f, <2>1, <2>2 DEF store
<1>13. CASE Fail(l)
  <2>1. \/ Leave(l)
        \/ /\ Persist(l.job, l.attempt, "error") /\ Goto(l, "settle", l.result)
           /\ UNCHANGED <<jobs, intents, owned>> /\ Quiet
    BY <1>13 DEF Fail
  <2>2. QED
    BY <1>a, <1>b, <1>c, <1>d, <1>f, <2>1, RowWritesTyped
<1>14. CASE SettleFailed(l)
  <2>1. (\E status : Settle(l, status)) \/ RetryOrFail(l)
    BY <1>14 DEF SettleFailed
  <2>2. QED
    BY <1>14, <1>b, <2>1, SettleTyped DEF SettleFailed
<1>15. CASE CancelTicket(l)
  <2>1. Goto(l, "cancelRow", "cancelled") \/ Goto(l, "cancelRow", "none")
    BY <1>15 DEF CancelTicket
  <2>2. UNCHANGED <<rows, intents, owned>> /\ Quiet
    BY <1>15 DEF CancelTicket
  <2>3. StoreTypeOK'
    <3>1. CASE CompleteJob(l.worker, l.job, l.attempt, "cancelled")
      BY <1>a, <1>b, <3>1, MethodsKeepTypes
    <3>2. CASE UNCHANGED jobs
      BY <1>b, <3>2 DEF StoreTypeOK
    <3>3. QED
      BY <1>15, <3>1, <3>2 DEF CancelTicket
  <2>4. LegsTypeOK'
    BY <1>b, <1>f, <2>1, <2>2, GotoTyped DEF LegsTypeOK
  <2>5. QED
    BY <1>b, <1>e, <2>2, <2>3, <2>4, QuietTyped
<1>16. CASE CancelRow(l)
  <2>1. /\ EndOf(l) /\ UNCHANGED <<jobs, intents>> /\ Quiet
        /\ Persist(l.job, l.attempt, "cancelled") \/ rows' = rows
    BY <1>16 DEF CancelRow
  <2>2. RowsTypeOK'
    BY <1>a, <1>b, <1>e, <1>f, <2>1, RowWritesTyped
  <2>3. LegsTypeOK'
    BY <1>b, <2>1, EndOfTyped
  <2>4. StoreTypeOK'
    BY <1>b, <2>1 DEF StoreTypeOK
  <2>5. QED
    BY <1>b, <2>1, <2>2, <2>3, <2>4, QuietTyped
<1>17. QED
  BY <1>1, <1>2, <1>3, <1>4, <1>5, <1>6, <1>7, <1>8, <1>9, <1>10, <1>11, <1>12,
     <1>13, <1>14, <1>15, <1>16 DEF Execute

\* A sweep that goes on, and one that ends.
LEMMA SweepMovesTyped ==
  ASSUME SweepsTypeOK, NEW w \in Worker
  PROVE  /\ SweepEnds(w) => SweepsTypeOK'
         /\ \A pc \in SweepPc \ {"idle"},
               result \in {"none", "failed", "paused"} \cup Finished :
              SweepGoto(w, pc, result) => SweepsTypeOK'
         /\ \A s \in Sweep : sweeps' = [sweeps EXCEPT ![w] = s] /\ s.pc # "idle"
              => SweepsTypeOK'
<1>1. NoSweep \in Sweep /\ NoSweep.pc = "idle" /\ sweeps[w] \in Sweep
  BY DEF NoSweep, Sweep, SweepPc, SweepsTypeOK
<1>2. ASSUME NEW s \in Sweep, sweeps' = [sweeps EXCEPT ![w] = s],
             s.pc = "idle" <=> s = NoSweep
      PROVE  SweepsTypeOK'
  BY <1>2 DEF SweepsTypeOK
<1>3. ASSUME NEW pc \in SweepPc \ {"idle"},
             NEW result \in {"none", "failed", "paused"} \cup Finished,
             SweepGoto(w, pc, result)
      PROVE  SweepsTypeOK'
  <2> DEFINE s == [sweeps[w] EXCEPT !.pc = pc, !.result = result]
  <2>1. s \in Sweep /\ s.pc = pc
    BY <1>1 DEF Sweep
  <2>2. sweeps' = [sweeps EXCEPT ![w] = s]
    BY <1>1, <1>3 DEF SweepGoto, SweepsTypeOK
  <2>3. QED
    BY <1>1, <1>2, <2>1, <2>2
<1>4. QED
  BY <1>1, <1>2, <1>3 DEF SweepEnds

\* What the steps of a sweep leave alone keeps its types.
LEMMA SweepQuietTyped ==
  ASSUME TypeInv, SweepQuiet, StoreTypeOK', RowsTypeOK', SweepsTypeOK'
  PROVE  TypeInv'
  BY TypeParts
  DEF SweepQuiet, doors, TypeInv, TypeOK, StoreTypeOK, RowsTypeOK, SweepsTypeOK

LEMMA SweepTyped ==
  ASSUME TypeInv, NEW w \in Worker,
         SweepOn(w) \/ \E j \in Job : List(w, j)
  PROVE  TypeInv'
<1>a. /\ StoreTypeOK /\ RowsTypeOK /\ SweepsTypeOK
      /\ sweeps[w] \in Sweep /\ sweeps[w].job \in Job \cup {NoJob}
      /\ sweeps[w].attempt \in Nat
  BY TypeParts DEF SweepsTypeOK, Sweep
<1>b. UNCHANGED store => StoreTypeOK' /\ RowsTypeOK'
  BY <1>a DEF store, StoreTypeOK, RowsTypeOK
<1>c. rows' = rows => RowsTypeOK'
  BY <1>a DEF RowsTypeOK
<1>d. jobs' = jobs => StoreTypeOK'
  BY <1>a DEF StoreTypeOK
<1>e. /\ {"listed", "reconcile", "deface", "settle"} \subseteq SweepPc \ {"idle"}
      /\ "error" \in RowStatus
  BY DEF SweepPc, RowStatus
<1>f. Unreconciled(w) => SweepsTypeOK'
  BY <1>a, <1>e, SweepMovesTyped DEF Unreconciled
<1>1. ASSUME NEW j \in Job, List(w, j) PROVE TypeInv'
  <2> DEFINE s == [NoSweep EXCEPT !.pc = "listed", !.job = j,
                                  !.attempt = jobs[j].attempt]
  <2>1. s \in Sweep /\ s.pc = "listed"
    BY <1>a DEF NoSweep, Sweep, SweepPc, StoreTypeOK, Ticket
  <2>2. SweepsTypeOK'
    BY <1>1, <1>a, <2>1, SweepMovesTyped DEF List
  <2>3. QED
    BY <1>1, <1>b, <2>2, SweepQuietTyped DEF List
<1>2. CASE Acquire(w)
  <2>1. StoreTypeOK'
    <3>1. CASE AcquireSweep(w, sweeps[w].job) /\ sweeps[w].job \in Job
      BY <1>a, <3>1, MethodsKeepTypes
    <3>2. CASE UNCHANGED jobs
      BY <1>d, <3>2
    <3>3. CASE AcquireSweep(w, NoJob)
      <4>1. jobs' = jobs
        BY <1>a, <3>3, NoJobAssumption DEF AcquireSweep, StoreTypeOK
      <4>2. QED
        BY <1>d, <4>1
    <3>4. QED
      BY <1>2, <1>a, <3>1, <3>2, <3>3 DEF Acquire
  <2>2. SweepsTypeOK'
    BY <1>2, <1>a, <1>e, SweepMovesTyped DEF Acquire
  <2>3. QED
    BY <1>2, <1>c, <2>1, <2>2, SweepQuietTyped DEF Acquire
<1>3. CASE Reconcile(w)
  <2>1. SweepsTypeOK'
    BY <1>3, <1>a, <1>e, <1>f, SweepMovesTyped DEF Reconcile
  <2>2. QED
    BY <1>3, <1>b, <2>1, SweepQuietTyped DEF Reconcile
<1>4. CASE Deface(w)
  <2>1. RowsTypeOK'
    <3>1. CASE Persist(sweeps[w].job, sweeps[w].attempt, "error")
               /\ sweeps[w].job \in Job
      BY <1>a, <1>e, <3>1, RowWritesTyped
    <3>2. CASE Persist(NoJob, sweeps[w].attempt, "error")
      <4>1. rows' = rows
        BY <1>a, <3>2, NoJobAssumption DEF Persist, RowsTypeOK
      <4>2. QED
        BY <1>c, <4>1
    <3>3. QED
      BY <1>4, <1>a, <1>c, <3>1, <3>2 DEF Deface
  <2>2. SweepsTypeOK'
    <3> DEFINE s == [sweeps[w] EXCEPT !.pc = "reconcile", !.refused = TRUE]
    <3>1. s \in Sweep /\ s.pc = "reconcile"
      BY <1>a DEF Sweep, SweepPc
    <3>2. sweeps' = [sweeps EXCEPT ![w].pc = "reconcile", ![w].refused = TRUE]
            => sweeps' = [sweeps EXCEPT ![w] = s]
      BY <1>a DEF SweepsTypeOK
    <3>3. QED
      BY <1>4, <1>a, <1>e, <3>1, <3>2, SweepMovesTyped DEF Deface
  <2>3. QED
    BY <1>4, <1>d, <2>1, <2>2, SweepQuietTyped DEF Deface
<1>5. CASE SettleSwept(w)
  <2>1. StoreTypeOK'
    <3>1. CASE sweeps[w].job \in Job
               /\ SettleSweptJob(w, sweeps[w].job, sweeps[w].result)
      BY <1>a, <3>1, MethodsKeepTypes
    <3>2. CASE SettleSweptJob(w, NoJob, sweeps[w].result)
      <4>1. jobs' = jobs
        BY <1>a, <3>2, NoJobAssumption DEF SettleSweptJob, StoreTypeOK
      <4>2. QED
        BY <1>d, <4>1
    <3>3. QED
      BY <1>5, <1>a, <1>d, <3>1, <3>2 DEF SettleSwept
  <2>2. SweepsTypeOK'
    BY <1>5, <1>a, <1>f, SweepMovesTyped DEF SettleSwept
  <2>3. QED
    BY <1>5, <1>c, <2>1, <2>2, SweepQuietTyped DEF SettleSwept
<1>6. QED
  BY <1>1, <1>2, <1>3, <1>4, <1>5 DEF SweepOn

\* The cancel route moves on.
LEMMA CancelMovesTyped ==
  ASSUME CancelsTypeOK, NEW j \in Job
  PROVE  /\ cancels' = [cancels EXCEPT ![j] = NoCancel] => CancelsTypeOK'
         /\ \A pc \in CancelPc \ {"idle"} : CancelGoto(j, pc) => CancelsTypeOK'
         /\ \A c \in Cancel : c.pc # "idle" /\ cancels' = [cancels EXCEPT ![j] = c]
              => CancelsTypeOK'
<1>1. NoCancel \in Cancel /\ NoCancel.pc = "idle" /\ cancels[j] \in Cancel
  BY DEF NoCancel, Cancel, CancelPc, CancelsTypeOK
<1>2. ASSUME NEW c \in Cancel, cancels' = [cancels EXCEPT ![j] = c],
             c.pc = "idle" <=> c = NoCancel
      PROVE  CancelsTypeOK'
  BY <1>2 DEF CancelsTypeOK
<1>3. ASSUME NEW pc \in CancelPc \ {"idle"}, CancelGoto(j, pc)
      PROVE  CancelsTypeOK'
  <2> DEFINE c == [cancels[j] EXCEPT !.pc = pc]
  <2>1. c \in Cancel /\ c.pc = pc
    BY <1>1 DEF Cancel
  <2>2. cancels' = [cancels EXCEPT ![j] = c]
    BY <1>1, <1>3 DEF CancelGoto, CancelsTypeOK
  <2>3. QED
    BY <1>1, <1>2, <2>1, <2>2
<1>4. QED
  BY <1>1, <1>2, <1>3

LEMMA DoorTyped ==
  ASSUME TypeInv, NEW j \in Job,
         \/ Enqueue(j) \/ Prepare(j) \/ Continue(j) \/ Requeue(j) \/ CancelRead(j)
         \/ CancelRunRow(j) \/ CancelTombstone(j) \/ CancelIntent(j)
  PROVE  TypeInv'
<1>a. /\ StoreTypeOK /\ RowsTypeOK /\ CancelsTypeOK
      /\ cancels[j] \in Cancel /\ cancels[j].attempt \in Nat
      /\ intents \in SUBSET Job /\ continuing \in SUBSET Job
      /\ preparing \in SUBSET Job
  BY TypeParts DEF CancelsTypeOK, Cancel
<1>b. ASSUME DoorQuiet, StoreTypeOK', RowsTypeOK', CancelsTypeOK',
             intents' \in SUBSET Job, continuing' \in SUBSET Job,
             preparing' \in SUBSET Job
      PROVE  TypeInv'
  BY <1>b, TypeParts
  DEF DoorQuiet, TypeInv, TypeOK, StoreTypeOK, RowsTypeOK, CancelsTypeOK
<1>c. rows' = rows => RowsTypeOK'
  BY <1>a DEF RowsTypeOK
<1>d. jobs' = jobs => StoreTypeOK'
  BY <1>a DEF StoreTypeOK
<1>e. cancels' = cancels => CancelsTypeOK'
  BY <1>a DEF CancelsTypeOK
<1>f. /\ CancelPc = {"idle", "row", "ticket", "intent"}
      /\ "cancelled" \in RowStatus
  BY DEF CancelPc, RowStatus, Finished
<1>1. CASE Enqueue(j)
  <2>1. StoreTypeOK'
    BY <1>1, <1>a, MethodsKeepTypes DEF Enqueue
  <2>2. QED
    BY <1>1, <1>a, <1>b, <1>c, <1>e, <2>1 DEF Enqueue
<1>2. CASE Prepare(j)
  <2>1. StoreTypeOK'
    BY <1>2, <1>a, <1>d, MethodsKeepTypes DEF Prepare, store
  <2>2. RowsTypeOK'
    BY <1>2, <1>a, <1>c, RowWritesTyped DEF Prepare, store
  <2>3. QED
    BY <1>2, <1>a, <1>b, <1>e, <2>1, <2>2 DEF Prepare
<1>3. CASE Continue(j)
  <2>1. StoreTypeOK'
    BY <1>3, <1>a, MethodsKeepTypes DEF Continue
  <2>2. QED
    BY <1>3, <1>a, <1>b, <1>c, <1>e, <2>1 DEF Continue, doors
<1>4. CASE Requeue(j)
  <2>1. StoreTypeOK'
    BY <1>4, <1>a, MethodsKeepTypes DEF Requeue
  <2>2. QED
    BY <1>4, <1>a, <1>b, <1>c, <1>e, <2>1 DEF Requeue, doors
<1>5. CASE CancelRead(j)
  <2>1. CancelsTypeOK'
    <3>1. jobs[j].attempt \in Nat
      BY <1>a DEF StoreTypeOK, Ticket
    <3>2. /\ [pc |-> "row", attempt |-> jobs[j].attempt] \in Cancel
          /\ [pc |-> "intent", attempt |-> 0] \in Cancel
      BY <1>f, <3>1 DEF Cancel
    <3>3. QED
      BY <1>5, <1>a, <3>2, CancelMovesTyped DEF CancelRead
  <2>2. QED
    BY <1>5, <1>a, <1>b, <1>c, <1>d, <2>1 DEF CancelRead, store
<1>6. CASE CancelRunRow(j)
  <2>1. CancelsTypeOK'
    BY <1>6, <1>a, <1>f, CancelMovesTyped DEF CancelRunRow
  <2>2. RowsTypeOK'
    BY <1>6, <1>a, <1>c, <1>f, RowWritesTyped DEF CancelRunRow
  <2>3. QED
    BY <1>6, <1>a, <1>b, <1>d, <2>1, <2>2 DEF CancelRunRow
<1>7. CASE CancelTombstone(j)
  <2>1. CancelsTypeOK'
    BY <1>7, <1>a, <1>f, CancelMovesTyped DEF CancelTombstone
  <2>2. StoreTypeOK'
    BY <1>7, <1>a, <1>d, MethodsKeepTypes DEF CancelTombstone
  <2>3. QED
    BY <1>7, <1>a, <1>b, <1>c, <2>1, <2>2 DEF CancelTombstone
<1>8. CASE CancelIntent(j)
  <2>1. CancelsTypeOK'
    BY <1>8, <1>a, CancelMovesTyped DEF CancelIntent
  <2>2. QED
    BY <1>8, <1>a, <1>b, <1>c, <1>d, <2>1 DEF CancelIntent, store
<1>9. QED
  BY <1>1, <1>2, <1>3, <1>4, <1>5, <1>6, <1>7, <1>8

LEMMA TypeStep == TypeInv /\ [Next]_vars => TypeInv'
<1> SUFFICES ASSUME TypeInv, [Next]_vars PROVE TypeInv'
  OBVIOUS
<1>a. /\ StoreTypeOK /\ LegsTypeOK /\ SweepsTypeOK
  BY TypeParts
<1>b. ASSUME UNCHANGED <<rows, continuing, cancels, preparing>>,
             StoreTypeOK', LegsTypeOK', SweepsTypeOK',
             intents' \in SUBSET Job, alive' \in SUBSET Worker
      PROVE  TypeInv'
  BY <1>b, TypeParts
  DEF TypeInv, TypeOK, StoreTypeOK, LegsTypeOK, SweepsTypeOK
<1>c. intents \in SUBSET Job /\ alive \in SUBSET Worker
  BY TypeParts
<1>d. /\ UNCHANGED <<legs, owned>> => LegsTypeOK'
      /\ UNCHANGED sweeps => SweepsTypeOK'
      /\ UNCHANGED jobs => StoreTypeOK'
  BY <1>a DEF LegsTypeOK, SweepsTypeOK, StoreTypeOK
<1>1. ASSUME NEW w \in Worker, NEW j \in Job, Claim(w, j) PROVE TypeInv'
  <2> DEFINE attempt == jobs[j].attempt + 1
             new == [worker |-> w, job |-> j, attempt |-> attempt,
                     fresh |-> j \notin continuing,
                     last |-> attempt >= jobs[j].maxAttempts,
                     pc |-> IF ~(j \notin continuing) THEN "stamp"
                            ELSE IF attempt > 1 THEN "check" ELSE "ensure",
                     result |-> "none"]
  <2>1. attempt \in Nat
    BY <1>a DEF StoreTypeOK, Ticket
  <2>2. new \in Leg
    <3>1. /\ (j \notin continuing) \in BOOLEAN
          /\ (attempt >= jobs[j].maxAttempts) \in BOOLEAN
      OBVIOUS
    <3>2. new.pc \in LegPc /\ "none" \in Result
      BY DEF LegPc, Result
    <3>3. QED
      BY <2>1, <3>1, <3>2 DEF Leg
  <2>3. /\ legs' = legs \cup {new} /\ owned' = [owned EXCEPT ![w][j] = attempt]
        /\ ClaimJob(w, j) /\ UNCHANGED <<rows, intents>> /\ Quiet
    BY <1>1 DEF Claim
  <2>4. LegsTypeOK'
    <3>1. [owned[w] EXCEPT ![j] = attempt] \in [Job -> Nat]
      BY <1>a, <2>1 DEF LegsTypeOK
    <3>2. owned' = [owned EXCEPT ![w] = [owned[w] EXCEPT ![j] = attempt]]
      BY <2>3
    <3> HIDE DEF attempt, new
    <3>3. owned' \in [Worker -> [Job -> Nat]]
      BY <1>a, <3>1, <3>2 DEF LegsTypeOK
    <3>4. legs' \in SUBSET Leg
      BY <1>a, <2>2, <2>3 DEF LegsTypeOK
    <3>5. QED
      BY <3>3, <3>4 DEF LegsTypeOK
  <2>5. StoreTypeOK' /\ RowsTypeOK'
    BY <1>a, <2>3, MethodsKeepTypes, TypeParts DEF RowsTypeOK
  <2>6. QED
    BY <1>c, <2>3, <2>4, <2>5, QuietTyped
<1>2. ASSUME NEW w \in Worker,
             SweepOn(w) \/ \E j \in Job : List(w, j)
      PROVE  TypeInv'
  BY <1>2, SweepTyped
<1>3. ASSUME NEW w \in Worker, Heartbeat(w) PROVE TypeInv'
  <2>1. StoreTypeOK'
    BY <1>3, <1>a, MethodsKeepTypes DEF Heartbeat
  <2>2. QED
    BY <1>3, <1>b, <1>c, <1>d, <2>1 DEF Heartbeat, Quiet, doors
<1>4. ASSUME NEW w \in Worker, Crash(w) PROVE TypeInv'
  <2>1. LegsTypeOK'
    BY <1>4, <1>a DEF Crash, LegsTypeOK
  <2>2. SweepsTypeOK'
    BY <1>4, <1>a, SweepMovesTyped DEF Crash, SweepEnds
  <2>3. UNCHANGED <<jobs, rows, continuing, cancels, preparing, intents>>
        /\ alive' \in SUBSET Worker
    BY <1>4, <1>c DEF Crash, store, doors
  <2>4. QED
    BY <1>b, <1>c, <1>d, <2>1, <2>2, <2>3
<1>5. ASSUME NEW l \in legs, Execute(l) \/ Checkpoint(l) PROVE TypeInv'
  BY <1>5, ExecuteTyped
<1>6. ASSUME NEW j \in Job,
             \/ Enqueue(j) \/ Prepare(j) \/ Continue(j) \/ Requeue(j)
             \/ CancelRead(j) \/ CancelRunRow(j) \/ CancelTombstone(j)
             \/ CancelIntent(j)
      PROVE  TypeInv'
  BY <1>6, DoorTyped
<1>7. ASSUME NEW j \in Job, IntentExpires(j) PROVE TypeInv'
  BY <1>7, <1>b, <1>c, <1>d DEF IntentExpires, store, doors
<1>8. ASSUME NEW j \in Job, Lapse(j) PROVE TypeInv'
  <2>1. StoreTypeOK'
    BY <1>8, <1>a, MethodsKeepTypes DEF Lapse
  <2>2. QED
    BY <1>8, <1>b, <1>c, <1>d, <2>1 DEF Lapse, doors
<1>9. CASE UNCHANGED vars
  BY <1>9, <1>b, <1>c, <1>d DEF vars
<1>10. QED
  BY <1>1, <1>2, <1>3, <1>4, <1>5, <1>6, <1>7, <1>8, <1>9 DEF Next

LEMMA TypeInit == Init => TypeInv
<1> SUFFICES ASSUME Init PROVE TypeInv
  OBVIOUS
<1>1. StoreTypeOK
  BY StoreInitTyped DEF Init
<1>2. rows \in [Job -> Row]
  BY DEF Init, Row, RowStatus
<1>3. sweeps \in [Worker -> Sweep] /\ cancels \in [Job -> Cancel]
  BY DEF Init, NoSweep, Sweep, SweepPc, NoCancel, Cancel, CancelPc
<1>4. owned \in [Worker -> [Job -> Nat]] /\ legs \in SUBSET Leg
  BY DEF Init
<1>5. /\ \A w \in Worker : sweeps[w].pc = "idle" <=> sweeps[w] = NoSweep
      /\ \A j \in Job : cancels[j].pc = "idle" <=> cancels[j] = NoCancel
  BY DEF Init, NoSweep, NoCancel
<1>6. QED
  BY <1>1, <1>2, <1>3, <1>4, <1>5 DEF Init, TypeInv, TypeOK, StoreTypeOK

\* Every type, with the records of sweepers and of cancels at rest exactly when
\* idle, and the lock of a ticket standing exactly while it is running.
THEOREM TypeCorrect == Spec => [](TypeOK /\ StoreTypeOK)
  BY TypeInit, TypeStep, PTL DEF Spec, TypeInv

-----------------------------------------------------------------------------
(* The tickets *)

\* The leg's ticket write has landed and only its row is left to write.
Over(l) == l.pc = "cancelRow" /\ l.result = "cancelled"

SameClaim(l, m) == m.worker = l.worker /\ m.job = l.job /\ m.attempt = l.attempt

\* An attempt of a ticket names one leg and is never ahead of the ticket; a leg
\* whose ticket write has landed left the ticket cancelled, where it stays until
\* an operator who is not quick requeues it; an entry among the managed runs
\* has a leg; and who sweeps is alive.
LegsInv ==
  /\ \A l \in legs : /\ jobs[l.job].status # "absent"
                     /\ l.attempt <= jobs[l.job].attempt
  /\ \A l, m \in legs : l.job = m.job /\ l.attempt = m.attempt => l = m
  /\ \A l \in legs : Over(l) => jobs[l.job].status = "cancelled"

OwnedInv ==
  \A w \in Worker, j \in Job :
    owned[w][j] > 0 => \E l \in legs : l.worker = w /\ l.job = j

SweepsInv ==
  \A w \in Worker :
    sweeps[w].pc # "idle" => w \in alive /\ sweeps[w].job \in Job

TicketInv == LegsInv /\ OwnedInv /\ SweepsInv

\* What a leg does to its ticket.
TicketWrite(l) ==
  \/ \E status \in {"completed", "cancelled", "failed", "paused"} :
       CompleteJob(l.worker, l.job, l.attempt, status)
  \/ RetryOrFailJob(l.worker, l.job, l.attempt, TRUE)

\* And to itself: it goes on or cancels its ticket, both as the same leg, or it
\* ends, with a ticket write or without one.
GoesOn(l) ==
  /\ ~Over(l)
  /\ \E m \in Leg : /\ SameClaim(l, m) /\ ~Over(m)
                    /\ legs' = (legs \ {l}) \cup {m}
  /\ UNCHANGED <<jobs, owned>>

Cancels(l) ==
  /\ ~Over(l)
  /\ CompleteJob(l.worker, l.job, l.attempt, "cancelled")
  /\ \E m \in Leg : /\ SameClaim(l, m) /\ Over(m)
                    /\ legs' = (legs \ {l}) \cup {m}
  /\ UNCHANGED owned

EndsWithWrite(l) == ~Over(l) /\ EndOf(l) /\ TicketWrite(l)

EndsWithout(l) == EndOf(l) /\ UNCHANGED jobs

Rests == UNCHANGED <<jobs, legs, owned>>

LEMMA ExecuteMoves ==
  ASSUME TypeInv, NEW l \in legs, Execute(l) \/ Checkpoint(l)
  PROVE  /\ \/ GoesOn(l) \/ Cancels(l) \/ EndsWithWrite(l) \/ EndsWithout(l)
            \/ Rests
         /\ UNCHANGED <<sweeps, cancels, preparing, continuing, alive>>
<1> DEFINE On(pc, result) == [l EXCEPT !.pc = pc, !.result = result]
<1>a. l \in Leg
  BY DEF TypeInv, TypeOK
<1>b. ASSUME NEW pc \in LegPc, NEW result, Goto(l, pc, result), l.pc # "cancelRow"
      PROVE  /\ ~Over(l) /\ SameClaim(l, On(pc, result))
             /\ On(pc, result).pc = pc /\ On(pc, result).result = result
             /\ legs' = (legs \ {l}) \cup {On(pc, result)}
  BY <1>a, <1>b DEF Over, SameClaim, Goto, Leg
<1>c. ASSUME NEW pc \in LegPc \ {"cancelRow"}, NEW result \in Result,
             Goto(l, pc, result), l.pc # "cancelRow", UNCHANGED <<jobs, owned>>
      PROVE  GoesOn(l)
  <2>1. On(pc, result) \in Leg
    BY <1>a DEF Leg
  <2>2. /\ ~Over(l) /\ SameClaim(l, On(pc, result)) /\ On(pc, result).pc = pc
        /\ legs' = (legs \ {l}) \cup {On(pc, result)}
    BY <1>b, <1>c
  <2> HIDE DEF On
  <2>3. QED
    BY <1>c, <2>1, <2>2 DEF GoesOn, Over
<1>d. Leave(l) => EndsWithout(l)
  BY DEF Leave, store, EndsWithout
<1>e. ASSUME (\E status : Settle(l, status)) \/ RetryOrFail(l), l.pc # "cancelRow"
      PROVE  EndsWithWrite(l) \/ EndsWithout(l)
  BY <1>e
  DEF Settle, RetryOrFail, Settling, EndsWithWrite, EndsWithout, TicketWrite,
      CompleteJob, Over
<1>f. /\ LegPc = {"check", "ensure", "stamp", "slot", "running", "honor", "enter",
                  "exec", "saved", "fail", "settle", "cancelTicket", "cancelRow"}
      /\ Result = {"none", "completed", "cancelled", "paused", "error", "fatal",
                   "unseen", "permanent", "transient", "fork"}
  BY DEF LegPc, Result
<1>g. UNCHANGED <<sweeps, cancels, preparing, continuing, alive>>
  <2>1. Quiet
    BY DEF Execute, Check, Ensure, Stamp, NotExecutable, Slot, Running, Honor, Enter,
           Checkpoint, Finish, Return, Interrupt, Fail, SettleFailed, CancelTicket,
           CancelRow, Leave, Settle, RetryOrFail, Settling
  <2>2. QED
    BY <2>1 DEF Quiet, doors
<1>1. CASE Check(l)
  <2>1. \/ Leave(l)
        \/ /\ Goto(l, "settle", "permanent") \/ Goto(l, "ensure", "none")
           /\ UNCHANGED <<jobs, owned>>
    BY <1>1 DEF Check, store
  <2>2. QED
    BY <1>1, <1>c, <1>d, <1>f, <1>g, <2>1 DEF Check, LegStep
<1>2. CASE Ensure(l)
  BY <1>2, <1>c, <1>d, <1>f, <1>g DEF Ensure, LegStep
<1>3. CASE Stamp(l)
  BY <1>3, <1>c, <1>f, <1>g DEF Stamp, LegStep
<1>4. CASE NotExecutable(l)
  <2>1. ASSUME NEW result \in {"permanent", "transient"},
               Goto(l, IF result = "permanent" \/ l.last
                       THEN "fail" ELSE "settle", result),
               UNCHANGED <<store, intents, owned>>
        PROVE  GoesOn(l)
    BY <1>4, <1>c, <1>f, <2>1 DEF NotExecutable, LegStep, store
  <2>2. QED
    BY <1>4, <1>d, <1>g, <2>1 DEF NotExecutable
<1>5. CASE Slot(l)
  <2>1. \/ Goto(l, "cancelTicket", "none") \/ Goto(l, "running", "none")
        \/ Goto(l, "enter", "none")
    BY <1>5 DEF Slot
  <2>2. QED
    BY <1>5, <1>c, <1>f, <1>g, <2>1 DEF Slot, LegStep, store
<1>6. CASE Running(l)
  <2>1. Goto(l, "honor", "none") \/ Goto(l, "exec", "none")
    BY <1>6 DEF Running, AfterStamp
  <2>2. QED
    BY <1>6, <1>c, <1>f, <1>g, <2>1 DEF Running, LegStep
<1>7. CASE Honor(l)
  BY <1>7, <1>d, <1>e, <1>g DEF Honor, LegStep
<1>8. CASE Enter(l)
  <2>1. \/ Goto(l, "fail", "permanent") \/ Goto(l, "exec", "fork")
        \/ Goto(l, "exec", "none")
    BY <1>8 DEF Enter
  <2>2. QED
    BY <1>8, <1>c, <1>f, <1>g, <2>1 DEF Enter, LegStep, store
<1>9. CASE Checkpoint(l)
  BY <1>9, <1>g DEF Checkpoint, Rests
<1>10. ASSUME NEW result \in Result, Finish(l, result)
       PROVE  GoesOn(l)
  BY <1>10, <1>c, <1>f DEF Finish, LegStep
<1>11. CASE Return(l)
  <2>1. (\E status : Settle(l, status)) \/ RetryOrFail(l)
    BY <1>11 DEF Return
  <2>2. QED
    BY <1>11, <1>e, <1>g, <2>1 DEF Return, LegStep
<1>12. ASSUME NEW result \in Result, Interrupt(l, result)
       PROVE  GoesOn(l)
  <2>1. Goto(l, "fail", result) \/ Goto(l, "settle", result)
    BY <1>12 DEF Interrupt
  <2>2. QED
    BY <1>12, <1>c, <1>f, <2>1 DEF Interrupt, store
<1>13. CASE Fail(l)
  <2>1. l.result \in Result
    BY <1>a DEF Leg
  <2>2. QED
    BY <1>13, <1>c, <1>d, <1>f, <1>g, <2>1 DEF Fail, LegStep
<1>14. CASE SettleFailed(l)
  <2>1. (\E status : Settle(l, status)) \/ RetryOrFail(l)
    BY <1>14 DEF SettleFailed
  <2>2. QED
    BY <1>14, <1>e, <1>g, <2>1 DEF SettleFailed, LegStep
<1>15. CASE CancelTicket(l)
  <2>1. UNCHANGED owned /\ l.pc # "cancelRow"
    BY <1>15 DEF CancelTicket, LegStep
  <2>2. /\ On("cancelRow", "cancelled") \in Leg
        /\ On("cancelRow", "none") \in Leg
    BY <1>a, <1>f DEF Leg
  <2>3. CASE /\ CompleteJob(l.worker, l.job, l.attempt, "cancelled")
             /\ Goto(l, "cancelRow", "cancelled")
    <3>1. /\ ~Over(l) /\ SameClaim(l, On("cancelRow", "cancelled"))
          /\ On("cancelRow", "cancelled").pc = "cancelRow"
          /\ On("cancelRow", "cancelled").result = "cancelled"
          /\ legs' = (legs \ {l}) \cup {On("cancelRow", "cancelled")}
      BY <1>b, <1>f, <2>1, <2>3
    <3> HIDE DEF On
    <3>2. Cancels(l)
      BY <2>1, <2>2, <2>3, <3>1 DEF Cancels, Over
    <3>3. QED
      BY <1>g, <3>2
  <2>4. CASE UNCHANGED jobs /\ Goto(l, "cancelRow", "none")
    <3>1. /\ ~Over(l) /\ SameClaim(l, On("cancelRow", "none"))
          /\ On("cancelRow", "none").result = "none"
          /\ legs' = (legs \ {l}) \cup {On("cancelRow", "none")}
      BY <1>b, <1>f, <2>1, <2>4
    <3> HIDE DEF On
    <3>2. GoesOn(l)
      BY <2>1, <2>2, <2>4, <3>1 DEF GoesOn, Over
    <3>3. QED
      BY <1>g, <3>2
  <2>5. QED
    BY <1>15, <2>3, <2>4 DEF CancelTicket
<1>16. CASE CancelRow(l)
  BY <1>16, <1>g DEF CancelRow, EndsWithout
<1>17. QED
  BY <1>1, <1>2, <1>3, <1>4, <1>5, <1>6, <1>7, <1>8, <1>9, <1>10, <1>11, <1>12,
     <1>13, <1>14, <1>15, <1>16, <1>g DEF Execute

\* The tickets a step leaves where they are, or moves onward.
LEMMA LegTicketOnward ==
  ASSUME TypeInv, NEW l \in legs, NEW k \in Job,
         TicketWrite(l) \/ UNCHANGED jobs
  PROVE  Onward(k) /\ StaysCancelled(k)
<1>1. StoreTypeOK /\ l.job \in Job
  BY DEF TypeInv, TypeOK, Leg
<1>2. QED
  BY <1>1, MethodsGoOnward DEF TicketWrite

\* A step of one leg keeps the legs' invariant.
LEMMA LegsInvByLeg ==
  ASSUME TypeInv, LegsInv, OwnedInv, NEW l \in legs,
         \/ GoesOn(l) \/ Cancels(l) \/ EndsWithWrite(l) \/ EndsWithout(l) \/ Rests
  PROVE  (LegsInv /\ OwnedInv)'
<1>a. \A m \in legs : m \in Leg /\ m.job \in Job /\ m.worker \in Worker
                        /\ m.attempt \in Nat
  BY DEF TypeInv, TypeOK, Leg
<1>b. \A k \in Job : Onward(k) /\ StaysCancelled(k)
  <2>1. TicketWrite(l) \/ UNCHANGED jobs
    BY DEF GoesOn, Cancels, EndsWithWrite, EndsWithout, Rests, TicketWrite
  <2>2. QED
    BY <2>1, LegTicketOnward
<1>c. /\ \A k \in Job : jobs[k].attempt \in Nat
      /\ owned \in [Worker -> [Job -> Nat]] /\ StoreTypeOK
  BY DEF TypeInv, TypeOK, Ticket
<1>d. ASSUME NEW m \in legs
      PROVE  /\ jobs'[m.job].status # "absent" /\ m.attempt <= jobs'[m.job].attempt
             /\ Over(m) => jobs'[m.job].status = "cancelled"
  <2>1. /\ jobs[m.job].status # "absent" /\ m.attempt <= jobs[m.job].attempt
        /\ Over(m) => jobs[m.job].status = "cancelled"
    BY DEF LegsInv
  <2>2. jobs'[m.job].attempt \in Nat
    <3>1. CASE UNCHANGED jobs
      BY <1>a, <1>c, <3>1
    <3>2. CASE TicketWrite(l)
      <4>1. StoreTypeOK'
        BY <1>a, <1>c, <3>2, MethodsKeepTypes DEF TicketWrite
      <4>2. QED
        BY <1>a, <4>1 DEF StoreTypeOK, Ticket
    <3>3. QED
      BY <3>1, <3>2
      DEF GoesOn, Cancels, EndsWithWrite, EndsWithout, Rests, TicketWrite
  <2>3. QED
    BY <1>a, <1>b, <1>c, <2>1, <2>2 DEF Onward, StaysCancelled
<1>1. ASSUME NEW m \in Leg, SameClaim(l, m), legs' = (legs \ {l}) \cup {m},
             owned' = owned, Over(m) => jobs'[l.job].status = "cancelled"
      PROVE  (LegsInv /\ OwnedInv)'
  <2>1. /\ m.worker = l.worker /\ m.job = l.job /\ m.attempt = l.attempt
    BY <1>1 DEF SameClaim
  <2>2. \A n \in legs' : /\ jobs'[n.job].status # "absent"
                         /\ n.attempt <= jobs'[n.job].attempt
                         /\ Over(n) => jobs'[n.job].status = "cancelled"
    BY <1>1, <1>d, <2>1
  <2>3. ASSUME NEW n \in legs', NEW o \in legs', n.job = o.job,
               n.attempt = o.attempt
        PROVE  n = o
    BY <1>1, <2>1, <2>3 DEF LegsInv
  <2>4. OwnedInv'
    <3> SUFFICES ASSUME NEW w \in Worker, NEW j \in Job, owned'[w][j] > 0
                 PROVE  \E n \in legs' : n.worker = w /\ n.job = j
      BY DEF OwnedInv
    <3>1. PICK n \in legs : n.worker = w /\ n.job = j
      BY <1>1 DEF OwnedInv
    <3>2. QED
      BY <1>1, <2>1, <3>1
  <2>5. QED
    BY <2>2, <2>3, <2>4 DEF LegsInv
<1>2. CASE EndOf(l)
  <2>1. LegsInv'
    BY <1>2, <1>d DEF LegsInv, EndOf
  <2>2. ASSUME NEW w \in Worker, NEW j \in Job, owned'[w][j] > 0
        PROVE  \E n \in legs' : n.worker = w /\ n.job = j
    <3>1. ~(w = l.worker /\ j = l.job) /\ owned'[w][j] = owned[w][j]
      BY <1>2, <1>a, <1>c, <2>2 DEF EndOf
    <3>2. PICK n \in legs : n.worker = w /\ n.job = j
      BY <2>2, <3>1 DEF OwnedInv
    <3>3. QED
      BY <1>2, <3>1, <3>2 DEF EndOf
  <2>3. QED
    BY <2>1, <2>2 DEF OwnedInv
<1>3. CASE Rests
  BY <1>3 DEF Rests, LegsInv, OwnedInv
<1>4. CASE GoesOn(l)
  BY <1>1, <1>4 DEF GoesOn
<1>5. CASE Cancels(l)
  <2>1. jobs'[l.job].status = "cancelled"
    BY <1>5, <1>a, <1>c DEF Cancels, CompleteJob, Settled, StoreTypeOK, Ticket
  <2>2. QED
    BY <1>1, <1>5, <2>1 DEF Cancels
<1>6. QED
  BY <1>2, <1>3, <1>4, <1>5 DEF EndsWithWrite, EndsWithout

\* So does a step that leaves the legs alone and moves tickets onward.
LEMMA LegsInvByTicket ==
  ASSUME TypeInv, TypeInv', LegsInv, OwnedInv, UNCHANGED <<legs, owned>>,
         \A k \in Job : Onward(k),
         \A k \in Job : \/ StaysCancelled(k)
                        \/ \A l \in legs : l.job = k => l.pc # "cancelRow"
  PROVE  (LegsInv /\ OwnedInv)'
<1>1. \A l \in legs : l.job \in Job /\ l.attempt \in Nat
  BY DEF TypeInv, TypeOK, Leg
<1>2. \A k \in Job : jobs[k].attempt \in Nat /\ jobs'[k].attempt \in Nat
  BY DEF TypeInv, TypeOK, Ticket
<1>3. ASSUME NEW l \in legs
      PROVE  /\ jobs'[l.job].status # "absent" /\ l.attempt <= jobs'[l.job].attempt
             /\ Over(l) => jobs'[l.job].status = "cancelled"
  BY <1>1, <1>2 DEF LegsInv, Onward, StaysCancelled, Over
<1>4. QED
  BY <1>3 DEF LegsInv, OwnedInv

LEMMA SweepMoves ==
  ASSUME TypeInv, SweepsInv, NEW w \in Worker,
         SweepOn(w) \/ \E j \in Job : List(w, j)
  PROVE  /\ UNCHANGED <<legs, owned>>
         /\ \A k \in Job : Onward(k) /\ StaysCancelled(k)
         /\ SweepsInv'
<1>1. UNCHANGED <<legs, owned, alive>>
  BY DEF SweepOn, List, Acquire, Reconcile, Deface, SettleSwept, SweepQuiet
<1>2. StoreTypeOK
  BY DEF TypeInv
<1>3. sweeps[w].pc # "idle" => sweeps[w].job \in Job
  BY DEF SweepsInv
<1>4. \/ UNCHANGED jobs
      \/ AcquireSweep(w, sweeps[w].job) /\ sweeps[w].pc = "listed"
      \/ SettleSweptJob(w, sweeps[w].job, sweeps[w].result) /\ sweeps[w].pc = "settle"
  BY DEF SweepOn, List, Acquire, Reconcile, Deface, SettleSwept, SweepStep, store
<1>5. \A k \in Job : Onward(k) /\ StaysCancelled(k)
  BY <1>2, <1>3, <1>4, MethodsGoOnward
<1>6. SweepsInv'
  <2> SUFFICES ASSUME NEW v \in Worker, sweeps'[v].pc # "idle"
               PROVE  v \in alive /\ sweeps'[v].job \in Job
    BY <1>1 DEF SweepsInv
  <2>1. sweeps \in [Worker -> Sweep]
    BY DEF TypeInv, TypeOK
  <2>2. CASE v # w
    <3>1. sweeps'[v] = sweeps[v]
      BY <2>1, <2>2
      DEF SweepOn, List, Acquire, Reconcile, Deface, SettleSwept, Unreconciled,
          SweepGoto, SweepEnds
    <3>2. QED
      BY <3>1 DEF SweepsInv
  <2>3. CASE v = w /\ \E j \in Job : List(w, j)
    BY <2>1, <2>3 DEF List, NoSweep, Sweep
  <2>4. CASE v = w /\ SweepOn(w)
    <3>1. w \in alive /\ sweeps[w].job \in Job
      BY <2>4 DEF SweepsInv, SweepOn, Acquire, Reconcile, Deface, SettleSwept, SweepStep
    <3>2. sweeps'[w].job = sweeps[w].job \/ sweeps'[w] = NoSweep
      BY <2>1, <2>4
      DEF SweepOn, Acquire, Reconcile, Deface, SettleSwept, Unreconciled,
          SweepGoto, SweepEnds, Sweep
    <3>3. NoSweep.pc = "idle"
      BY DEF NoSweep
    <3>4. QED
      BY <2>4, <3>1, <3>2, <3>3
  <2>5. QED
    BY <2>2, <2>3, <2>4
<1>7. QED
  BY <1>1, <1>5, <1>6

\* What TicketInv says holds of every step's result, if no operator requeues a
\* ticket while the leg it was cancelled under still writes its row.
LEMMA TicketStep ==
  ASSUME "quickRequeue" \notin Env
  PROVE  TypeInv /\ TicketInv /\ [Next]_vars => TicketInv'
<1> SUFFICES ASSUME TypeInv, TicketInv, [Next]_vars PROVE TicketInv'
  OBVIOUS
<1>a. TypeInv' /\ LegsInv /\ OwnedInv /\ SweepsInv
  BY TypeStep DEF TicketInv
<1>b. ASSUME UNCHANGED <<sweeps, alive>> PROVE SweepsInv'
  BY <1>a, <1>b DEF SweepsInv
<1>c. StoreTypeOK /\ \A k \in Job : jobs' = jobs => Onward(k) /\ StaysCancelled(k)
  <2>1. StoreTypeOK
    BY DEF TypeInv
  <2>2. QED
    BY <2>1, MethodsGoOnward
<1>1. ASSUME NEW w \in Worker, NEW j \in Job, Claim(w, j) PROVE TicketInv'
  <2> DEFINE attempt == jobs[j].attempt + 1
             new == [worker |-> w, job |-> j, attempt |-> attempt,
                     fresh |-> j \notin continuing,
                     last |-> attempt >= jobs[j].maxAttempts,
                     pc |-> IF ~(j \notin continuing) THEN "stamp"
                            ELSE IF attempt > 1 THEN "check" ELSE "ensure",
                     result |-> "none"]
  <2>1. /\ legs' = legs \cup {new} /\ owned' = [owned EXCEPT ![w][j] = attempt]
        /\ ClaimJob(w, j) /\ UNCHANGED <<sweeps, alive>>
    BY <1>1 DEF Claim, Quiet
  <2>2. new.worker = w /\ new.job = j /\ new.attempt = attempt /\ ~Over(new)
    BY DEF Over
  <2>3. /\ jobs'[j].status = "running" /\ jobs'[j].attempt = attempt
        /\ jobs[j].attempt \in Nat
        /\ jobs[j].status # "absent"
    BY <1>c, <2>1
    DEF ClaimJob, Claimed, Candidate, Reclaimable, StoreTypeOK, Ticket
  <2> HIDE DEF new
  <2>4. \A k \in Job : /\ Onward(k) /\ StaysCancelled(k)
                       /\ jobs[k].attempt \in Nat /\ jobs'[k].attempt \in Nat
    BY <1>a, <1>c, <2>1, MethodsGoOnward DEF TypeInv, StoreTypeOK, Ticket
  <2>5. \A l \in legs : l.job \in Job /\ l.attempt \in Nat
    BY DEF TypeInv, TypeOK, Leg
  <2>6. LegsInv'
    <3>1. ASSUME NEW l \in legs
          PROVE  /\ jobs'[l.job].status # "absent"
                 /\ l.attempt <= jobs'[l.job].attempt
                 /\ Over(l) => jobs'[l.job].status = "cancelled"
      BY <1>a, <2>4, <2>5 DEF LegsInv, Onward, StaysCancelled
    <3>2. \A l \in legs : l.job = j => l.attempt # attempt
      BY <1>a, <2>3, <2>5 DEF LegsInv
    <3>3. attempt <= jobs'[j].attempt
      BY <2>3
    <3> HIDE DEF attempt
    <3>4. \A l, m \in legs' : l.job = m.job /\ l.attempt = m.attempt => l = m
      BY <1>a, <2>1, <2>2, <3>2 DEF LegsInv
    <3>5. QED
      BY <2>1, <2>2, <2>3, <3>1, <3>3, <3>4 DEF LegsInv
  <2>7. OwnedInv'
    <3> SUFFICES ASSUME NEW v \in Worker, NEW k \in Job, owned'[v][k] > 0
                 PROVE  \E l \in legs' : l.worker = v /\ l.job = k
      BY DEF OwnedInv
    <3>1. CASE v = w /\ k = j
      BY <2>1, <2>2, <3>1
    <3>2. CASE ~(v = w /\ k = j)
      <4>1. owned'[v][k] = owned[v][k]
        BY <2>1, <3>2 DEF TypeInv, TypeOK
      <4>2. QED
        BY <1>a, <2>1, <4>1 DEF OwnedInv
    <3>3. QED
      BY <3>1, <3>2
  <2>8. QED
    BY <1>b, <2>1, <2>6, <2>7 DEF TicketInv
<1>2. ASSUME NEW w \in Worker, SweepOn(w) \/ \E j \in Job : List(w, j)
      PROVE  TicketInv'
  BY <1>2, <1>a, SweepMoves, LegsInvByTicket DEF TicketInv
<1>3. ASSUME NEW w \in Worker, Heartbeat(w) PROVE TicketInv'
  <2>1. UNCHANGED <<legs, owned, sweeps, alive>>
        /\ \A k \in Job : Onward(k) /\ StaysCancelled(k)
    BY <1>3, <1>c, MethodsGoOnward DEF Heartbeat, Quiet
  <2>2. QED
    BY <1>a, <1>b, <2>1, LegsInvByTicket DEF TicketInv
<1>4. ASSUME NEW w \in Worker, Crash(w) PROVE TicketInv'
  <2>1. LegsInv'
    BY <1>4, <1>a DEF Crash, store, LegsInv
  <2>2. OwnedInv'
    <3> SUFFICES ASSUME NEW v \in Worker, NEW j \in Job, owned'[v][j] > 0
                 PROVE  \E l \in legs' : l.worker = v /\ l.job = j
      BY DEF OwnedInv
    <3>1. v # w /\ owned'[v] = owned[v]
      BY <1>4 DEF Crash, TypeInv, TypeOK
    <3>2. QED
      BY <1>4, <1>a, <3>1 DEF Crash, OwnedInv
  <2>3. SweepsInv'
    BY <1>4, <1>a DEF Crash, SweepsInv, NoSweep, TypeInv, TypeOK
  <2>4. QED
    BY <2>1, <2>2, <2>3 DEF TicketInv
<1>5. ASSUME NEW l \in legs, Execute(l) \/ Checkpoint(l) PROVE TicketInv'
  BY <1>5, <1>a, <1>b, ExecuteMoves, LegsInvByLeg DEF TicketInv
<1>6. ASSUME NEW j \in Job,
             \/ Enqueue(j) \/ Prepare(j) \/ Continue(j)
             \/ CancelRead(j) \/ CancelRunRow(j) \/ CancelTombstone(j)
             \/ CancelIntent(j)
      PROVE  TicketInv'
  <2>1. UNCHANGED <<legs, owned, sweeps, alive>>
    BY <1>6
    DEF Enqueue, Prepare, Continue, CancelRead, CancelRunRow, CancelTombstone,
        CancelIntent, DoorQuiet
  <2>2. \/ \E created \in Stamps : EnqueueJob(j, created)
        \/ CancelJob(j) \/ ContinueJob(j) \/ UNCHANGED jobs
    BY <1>6
    DEF Enqueue, Prepare, Continue, CancelRead, CancelRunRow, CancelTombstone,
        CancelIntent, store
  <2>3. \A k \in Job : Onward(k) /\ StaysCancelled(k)
    BY <1>c, <2>2, MethodsGoOnward
  <2>4. QED
    BY <1>a, <1>b, <2>1, <2>3, LegsInvByTicket DEF TicketInv
<1>7. ASSUME NEW j \in Job, Requeue(j) PROVE TicketInv'
  <2>1. UNCHANGED <<legs, owned, sweeps, alive>> /\ RequeueJob(j)
    BY <1>7 DEF Requeue, DoorQuiet
  <2>2. \A l \in legs : l.job = j => l.pc # "cancelRow"
    BY <1>7 DEF Requeue
  <2>3. \A k \in Job : Onward(k) /\ (j # k => StaysCancelled(k))
    BY <1>c, <2>1, MethodsGoOnward
  <2>4. QED
    BY <1>a, <1>b, <2>1, <2>2, <2>3, LegsInvByTicket DEF TicketInv
<1>8. ASSUME NEW j \in Job, IntentExpires(j) \/ Lapse(j) PROVE TicketInv'
  <2>1. /\ UNCHANGED <<legs, owned, sweeps, alive>>
        /\ LeaseLapses(j) \/ UNCHANGED jobs
    BY <1>8 DEF IntentExpires, Lapse, store
  <2>2. \A k \in Job : Onward(k) /\ StaysCancelled(k)
    BY <1>c, <2>1, MethodsGoOnward
  <2>3. QED
    BY <1>a, <1>b, <2>1, <2>2, LegsInvByTicket DEF TicketInv
<1>9. CASE UNCHANGED vars
  BY <1>9 DEF vars, TicketInv, LegsInv, OwnedInv, SweepsInv
<1>10. QED
  BY <1>1, <1>2, <1>3, <1>4, <1>5, <1>6, <1>7, <1>8, <1>9 DEF Next

-----------------------------------------------------------------------------
(* The refinement *)

\* The methods of the store are the same under the mapping.
LEMMA QueueStore ==
  /\ Queue!StoreInit <=> StoreInit
  /\ \A j, created : Queue!EnqueueJob(j, created) <=> EnqueueJob(j, created)
  /\ \A w, j : Queue!ClaimJob(w, j) <=> ClaimJob(w, j)
  /\ \A w, held : Queue!HeartbeatJobs(w, held) <=> HeartbeatJobs(w, held)
  /\ \A w, j, attempt, status :
       Queue!CompleteJob(w, j, attempt, status) <=> CompleteJob(w, j, attempt, status)
  /\ \A w, j, attempt, due :
       Queue!RetryOrFailJob(w, j, attempt, due) <=> RetryOrFailJob(w, j, attempt, due)
  /\ \A w, j : Queue!AcquireSweep(w, j) <=> AcquireSweep(w, j)
  /\ \A w, j, status :
       Queue!SettleSweptJob(w, j, status) <=> SettleSweptJob(w, j, status)
  /\ \A j : /\ Queue!CancelJob(j) <=> CancelJob(j)
            /\ Queue!RequeueJob(j) <=> RequeueJob(j)
            /\ Queue!ContinueJob(j) <=> ContinueJob(j)
            /\ Queue!LeaseLapses(j) <=> LeaseLapses(j)
<1>1. /\ \A status : Queue!NoTicket(status) = NoTicket(status)
      /\ \A j : /\ Queue!IsSerialized(j) <=> IsSerialized(j)
                /\ Queue!Reclaimable(j) <=> Reclaimable(j)
                /\ Queue!Sweepable(j) <=> Sweepable(j)
                /\ Queue!Granted(j) = Granted(j)
      /\ \A j, k : /\ Queue!Before(k, j) <=> Before(k, j)
                   /\ Queue!Older(j, k) <=> Older(j, k)
      /\ \A j, w : Queue!Claimed(j, w) = Claimed(j, w)
      /\ \A j, status : Queue!Settled(j, status) = Settled(j, status)
      /\ \A w, j, attempt : Queue!OwnsLease(w, j, attempt) <=> OwnsLease(w, j, attempt)
      /\ Queue!Live = Live /\ Queue!Holding = Holding
      /\ Queue!QueuedJobs = QueuedJobs /\ Queue!Seqs = Seqs
  BY DEF Queue!NoTicket, NoTicket, Queue!IsSerialized, IsSerialized,
         Queue!Reclaimable, Reclaimable, Queue!Sweepable, Sweepable,
         Queue!Granted, Granted, Queue!Before, Before, Queue!Older, Older,
         Queue!Claimed, Claimed, Queue!Settled, Settled, Queue!OwnsLease,
         OwnsLease, Queue!Live, Live, Queue!Holding, Holding,
         Queue!QueuedJobs, QueuedJobs, Queue!Seqs, Seqs
<1>2. \A j : Queue!SameSession(j) = SameSession(j)
  BY <1>1 DEF Queue!SameSession, SameSession
<1>3. \A j : Queue!SessionBlocked(j) <=> SessionBlocked(j)
  BY <1>1, <1>2 DEF Queue!SessionBlocked, SessionBlocked
<1>4. \A w, j : Queue!Candidate(w, j) <=> Candidate(w, j)
  BY <1>1, <1>3 DEF Queue!Candidate, Candidate
<1>5. \A j, s : Queue!NextSessionSeq(j, s) <=> NextSessionSeq(j, s)
  BY <1>1, <1>2 DEF Queue!NextSessionSeq, NextSessionSeq
<1>6. Queue!BelowDepth <=> BelowDepth
  <2>1. Queue!Cardinality(QueuedJobs) = Cardinality(QueuedJobs)
    BY DEF Queue!Cardinality, Cardinality
  <2>2. QED
    BY <1>1, <2>1 DEF Queue!BelowDepth, BelowDepth
<1>7. Queue!StoreInit <=> StoreInit
  BY <1>1 DEF Queue!StoreInit, StoreInit
<1>8. \A j, created : Queue!EnqueueJob(j, created) <=> EnqueueJob(j, created)
  BY <1>1, <1>5, <1>6 DEF Queue!EnqueueJob, EnqueueJob
<1>9. \A w, j : Queue!ClaimJob(w, j) <=> ClaimJob(w, j)
  BY <1>1, <1>4 DEF Queue!ClaimJob, ClaimJob
<1>10. \A w, held : Queue!HeartbeatJobs(w, held) <=> HeartbeatJobs(w, held)
  BY DEF Queue!HeartbeatJobs, HeartbeatJobs
<1>11. \A w, j, attempt, status :
         Queue!CompleteJob(w, j, attempt, status) <=> CompleteJob(w, j, attempt, status)
  BY <1>1 DEF Queue!CompleteJob, CompleteJob
<1>12. \A w, j, attempt, due :
         Queue!RetryOrFailJob(w, j, attempt, due) <=> RetryOrFailJob(w, j, attempt, due)
  BY <1>1 DEF Queue!RetryOrFailJob, RetryOrFailJob
<1>13. \A w, j : Queue!AcquireSweep(w, j) <=> AcquireSweep(w, j)
  BY <1>1 DEF Queue!AcquireSweep, AcquireSweep
<1>14. \A w, j, status : Queue!SettleSweptJob(w, j, status) <=> SettleSweptJob(w, j, status)
  BY <1>1 DEF Queue!SettleSweptJob, SettleSweptJob
<1>15. \A j : /\ Queue!CancelJob(j) <=> CancelJob(j)
              /\ Queue!ContinueJob(j) <=> ContinueJob(j)
              /\ Queue!LeaseLapses(j) <=> LeaseLapses(j)
  BY <1>1 DEF Queue!CancelJob, CancelJob, Queue!ContinueJob, ContinueJob,
              Queue!LeaseLapses, LeaseLapses
<1>16. \A j : Queue!RequeueJob(j) <=> RequeueJob(j)
  BY <1>1, <1>5 DEF Queue!RequeueJob, RequeueJob
<1>17. QED
  BY <1>7, <1>8, <1>9, <1>10, <1>11, <1>12, <1>13, <1>14, <1>15, <1>16

\* The legs and the sweeps as JobQueue sees them.
TicketLegs ==
  {[worker |-> l.worker, job |-> l.job, attempt |-> l.attempt] :
     l \in {m \in legs : ~(m.pc = "cancelRow" /\ m.result = "cancelled")}}

TicketSweeps ==
  [w \in Worker |-> IF sweeps[w].pc = "listed" THEN NoJob ELSE sweeps[w].job]

ClaimOf(l) == [worker |-> l.worker, job |-> l.job, attempt |-> l.attempt]

LEMMA TicketLegsAre ==
  \A c : c \in TicketLegs <=> \E l \in legs : ~Over(l) /\ c = ClaimOf(l)
  BY DEF TicketLegs, Over, ClaimOf

LEMMA TicketLegsPrimed ==
  \A c : c \in TicketLegs' <=> \E l \in legs' : ~Over(l) /\ c = ClaimOf(l)
  BY DEF TicketLegs, Over, ClaimOf

\* What a leg's step does to them.
LEMMA TicketLegsMove ==
  ASSUME TypeInv, LegsInv, NEW l \in legs
  PROVE  /\ ~Over(l) => ClaimOf(l) \in TicketLegs
         /\ GoesOn(l) => TicketLegs' = TicketLegs
         /\ Cancels(l) => TicketLegs' = TicketLegs \ {ClaimOf(l)}
         /\ EndOf(l) /\ ~Over(l) => TicketLegs' = TicketLegs \ {ClaimOf(l)}
         /\ EndOf(l) /\ Over(l) => TicketLegs' = TicketLegs
<1>1. \A m \in legs : ClaimOf(m) = ClaimOf(l) => m = l
  BY DEF LegsInv, ClaimOf
<1>2. ~Over(l) => ClaimOf(l) \in TicketLegs
  BY TicketLegsAre
<1>3. ASSUME GoesOn(l) PROVE TicketLegs' = TicketLegs
  <2>1. PICK m : ClaimOf(m) = ClaimOf(l) /\ ~Over(m) /\ legs' = (legs \ {l}) \cup {m}
    BY <1>3 DEF GoesOn, SameClaim, ClaimOf
  <2>2. ~Over(l)
    BY <1>3 DEF GoesOn
  <2>3. \A c : c \in TicketLegs' <=> c \in TicketLegs
    BY <2>1, <2>2, TicketLegsAre, TicketLegsPrimed
  <2>4. QED
    BY <2>3 DEF TicketLegs
<1>4. ASSUME Cancels(l) PROVE TicketLegs' = TicketLegs \ {ClaimOf(l)}
  <2>1. PICK m : Over(m) /\ legs' = (legs \ {l}) \cup {m}
    BY <1>4 DEF Cancels
  <2>2. \A c : c \in TicketLegs' <=> c \in TicketLegs \ {ClaimOf(l)}
    BY <1>1, <2>1, TicketLegsAre, TicketLegsPrimed
  <2>3. QED
    BY <2>2 DEF TicketLegs
<1>5. ASSUME EndOf(l) PROVE TicketLegs' = TicketLegs \ (IF Over(l) THEN {} ELSE {ClaimOf(l)})
  <2>1. legs' = legs \ {l}
    BY <1>5 DEF EndOf
  <2>2. \A c : c \in TicketLegs' <=>
                 c \in TicketLegs /\ (Over(l) \/ c # ClaimOf(l))
    BY <1>1, <2>1, TicketLegsAre, TicketLegsPrimed
  <2>3. QED
    BY <2>2 DEF TicketLegs
<1>6. QED
  BY <1>2, <1>3, <1>4, <1>5

\* Steps of JobQueue, in the terms of the mapping.
LEMMA QueueVars ==
  UNCHANGED <<jobs, TicketLegs, TicketSweeps, alive>> => UNCHANGED Queue!vars
  BY DEF Queue!vars, TicketLegs, TicketSweeps

LEMMA QueueLegSteps ==
  ASSUME NEW c \in TicketLegs, TicketLegs' = TicketLegs \ {c},
         TicketSweeps' = TicketSweeps, alive' = alive,
         \/ \E status \in {"completed", "cancelled", "failed", "paused"} :
              CompleteJob(c.worker, c.job, c.attempt, status)
         \/ RetryOrFailJob(c.worker, c.job, c.attempt, TRUE)
         \/ UNCHANGED jobs
  PROVE  Queue!Next
<1>1. ASSUME NEW status \in {"completed", "cancelled", "failed", "paused"},
             CompleteJob(c.worker, c.job, c.attempt, status)
      PROVE  Queue!Complete(c, status)
  BY <1>1, QueueStore DEF Queue!Complete, TicketLegs, TicketSweeps
<1>2. ASSUME RetryOrFailJob(c.worker, c.job, c.attempt, TRUE)
      PROVE  Queue!RetryOrFail(c, TRUE)
  BY <1>2, QueueStore DEF Queue!RetryOrFail, TicketLegs, TicketSweeps
<1>3. ASSUME UNCHANGED jobs PROVE Queue!LeaveClaim(c)
  BY <1>3 DEF Queue!LeaveClaim, TicketLegs, TicketSweeps
<1>4. Queue!EndLeg(c)
  BY <1>1, <1>2, <1>3 DEF Queue!EndLeg
<1>5. QED
  BY <1>4 DEF Queue!Next, TicketLegs

LEMMA RefineLegs ==
  ASSUME TypeInv, LegsInv, NEW l \in legs, Execute(l) \/ Checkpoint(l)
  PROVE  [Queue!Next]_Queue!vars
<1>1. UNCHANGED <<TicketSweeps, alive>>
  BY ExecuteMoves DEF TicketSweeps
<1>2. CASE GoesOn(l) \/ Rests \/ (EndsWithout(l) /\ Over(l))
  <2>1. UNCHANGED <<jobs, TicketLegs>>
    BY <1>2, TicketLegsMove DEF GoesOn, Rests, EndsWithout, TicketLegs
  <2>2. QED
    BY <1>1, <2>1, QueueVars
<1>3. CASE Cancels(l) \/ EndsWithWrite(l) \/ (EndsWithout(l) /\ ~Over(l))
  <2> DEFINE c == ClaimOf(l)
  <2>1. /\ c.worker = l.worker /\ c.job = l.job /\ c.attempt = l.attempt
        /\ c \in TicketLegs
        /\ TicketLegs' = TicketLegs \ {c}
    BY <1>3, TicketLegsMove DEF Cancels, EndsWithWrite, EndsWithout, ClaimOf
  <2>2. \/ \E status \in {"completed", "cancelled", "failed", "paused"} :
             CompleteJob(c.worker, c.job, c.attempt, status)
        \/ RetryOrFailJob(c.worker, c.job, c.attempt, TRUE)
        \/ UNCHANGED jobs
    BY <1>3, <2>1 DEF Cancels, EndsWithWrite, EndsWithout, TicketWrite
  <2> HIDE DEF c
  <2>3. QED
    BY <1>1, <2>1, <2>2, QueueLegSteps
<1>4. QED
  BY <1>2, <1>3, ExecuteMoves

LEMMA RefineClaim ==
  ASSUME TypeInv, NEW w \in Worker, NEW j \in Job, Claim(w, j)
  PROVE  Queue!Next
<1>1. w \in alive /\ ClaimJob(w, j) /\ UNCHANGED <<TicketSweeps, alive>>
  BY DEF Claim, Quiet, TicketSweeps
<1>2. TicketSweeps[w] = NoJob
  BY DEF Claim, TypeInv, TypeOK, NoSweep, TicketSweeps
<1> DEFINE c == [worker |-> w, job |-> j, attempt |-> jobs[j].attempt + 1]
<1>3. TicketLegs' = TicketLegs \cup {c}
  <2> DEFINE l == [worker |-> w, job |-> j, attempt |-> jobs[j].attempt + 1,
                  fresh |-> j \notin continuing,
                  last |-> jobs[j].attempt + 1 >= jobs[j].maxAttempts,
                  pc |-> IF ~(j \notin continuing) THEN "stamp"
                         ELSE IF jobs[j].attempt + 1 > 1 THEN "check" ELSE "ensure",
                  result |-> "none"]
  <2>1. ~Over(l) /\ ClaimOf(l) = c /\ legs' = legs \cup {l}
    BY DEF Claim, Over, ClaimOf
  <2> HIDE DEF l
  <2>2. \A d : d \in TicketLegs' <=> d \in TicketLegs \cup {c}
    BY <2>1, TicketLegsAre, TicketLegsPrimed
  <2> HIDE DEF c
  <2>3. QED
    BY <2>2 DEF TicketLegs
<1>4. Queue!Claim(w, j)
  BY <1>1, <1>2, <1>3, QueueStore DEF Queue!Claim, TicketLegs, TicketSweeps
<1>5. QED
  BY <1>4 DEF Queue!Next

\* The entries of managed runs whose ticket still runs have a leg that is not over.
LEMMA RefineHeartbeat ==
  ASSUME TypeInv, TicketInv, NEW w \in Worker, Heartbeat(w)
  PROVE  Queue!Next
<1> DEFINE held == {j \in Job : owned[w][j] > 0}
           busy == {j \in held : jobs[j].status = "running"}
<1>1. /\ w \in alive /\ HeartbeatJobs(w, held)
      /\ UNCHANGED <<TicketLegs, TicketSweeps, alive>>
  BY DEF Heartbeat, Quiet, TicketLegs, TicketSweeps
<1>2. HeartbeatJobs(w, busy)
  BY <1>1 DEF HeartbeatJobs
<1>3. ASSUME NEW j \in busy
      PROVE  \E c \in TicketLegs : c.worker = w /\ c.job = j
  <2>1. PICK l \in legs : l.worker = w /\ l.job = j
    BY DEF TicketInv, OwnedInv
  <2>2. ~Over(l)
    BY <2>1 DEF TicketInv, LegsInv
  <2>3. ClaimOf(l) \in TicketLegs
    BY <2>2, TicketLegsAre
  <2>4. QED
    BY <2>1, <2>3 DEF ClaimOf
<1> HIDE DEF busy
<1>4. busy \in SUBSET {c.job : c \in {d \in TicketLegs : d.worker = w}}
  BY <1>3
<1>5. Queue!Heartbeat(w)
  BY <1>1, <1>2, <1>4, QueueStore DEF Queue!Heartbeat, TicketLegs, TicketSweeps
<1>6. QED
  BY <1>5 DEF Queue!Next

LEMMA RefineSweep ==
  ASSUME TypeInv, SweepsInv, NEW w \in Worker,
         SweepOn(w) \/ \E j \in Job : List(w, j)
  PROVE  [Queue!Next]_Queue!vars
<1>a. /\ UNCHANGED <<TicketLegs, alive>>
      /\ sweeps \in [Worker -> Sweep] /\ sweeps[w] \in Sweep
  BY DEF SweepOn, List, Acquire, Reconcile, Deface, SettleSwept, SweepQuiet,
         TicketLegs, TypeInv, TypeOK
<1> DEFINE to(k) == [TicketSweeps EXCEPT ![w] = k]
<1>b. sweeps[w].pc # "idle" => w \in alive /\ sweeps[w].job \in Job
  BY DEF SweepsInv
<1>c. TicketSweeps[w] = IF sweeps[w].pc = "listed" THEN NoJob ELSE sweeps[w].job
  BY DEF TicketSweeps
<1>d. ASSUME NEW s, sweeps' = [sweeps EXCEPT ![w] = s], s.pc = "listed" \/ s.job = NoJob
      PROVE  TicketSweeps' = to(NoJob)
  BY <1>a, <1>d DEF TicketSweeps
<1>i. SweepEnds(w) => TicketSweeps' = to(NoJob)
  <2>1. NoSweep.job = NoJob
    BY DEF NoSweep
  <2>2. QED
    BY <1>d, <2>1 DEF SweepEnds
<1>e. ASSUME NEW pc, NEW result, pc # "listed", SweepGoto(w, pc, result)
      PROVE  TicketSweeps' = to(sweeps[w].job)
  BY <1>a, <1>e DEF SweepGoto, TicketSweeps, Sweep
<1>f. ASSUME SweepEnds(w) \/ TicketSweeps' = TicketSweeps, UNCHANGED jobs,
             sweeps[w].pc \notin {"idle", "listed"}
      PROVE  [Queue!Next]_Queue!vars
  <2>1. CASE TicketSweeps' = TicketSweeps
    BY <1>a, <1>f, <2>1, QueueVars
  <2>2. CASE SweepEnds(w)
    <3>1. TicketSweeps[w] # NoJob
      BY <1>b, <1>c, <1>f, NoJobAssumption
    <3>2. Queue!LeaveSwept(w)
      BY <1>a, <1>i, <1>f, <2>2, <3>1
      DEF Queue!LeaveSwept, TicketLegs, TicketSweeps
    <3>3. QED
      BY <3>2 DEF Queue!Next, Queue!EndSweep
  <2>3. QED
    BY <1>f, <2>1, <2>2
<1>1. ASSUME NEW j \in Job, List(w, j)
      PROVE  [Queue!Next]_Queue!vars
  <2> DEFINE s == [NoSweep EXCEPT !.pc = "listed", !.job = j,
                                  !.attempt = jobs[j].attempt]
  <2>a. s.pc = "listed" /\ sweeps' = [sweeps EXCEPT ![w] = s]
    BY <1>1 DEF List, NoSweep
  <2>b. sweeps[w] = NoSweep /\ NoSweep.pc = "idle" /\ NoSweep.job = NoJob
    <3>1. sweeps[w].pc = "idle" => sweeps[w] = NoSweep
      BY DEF TypeInv, TypeOK
    <3>2. QED
      BY <1>1, <3>1 DEF List, SweepStep, NoSweep
  <2> HIDE DEF s
  <2>1. TicketSweeps' = to(NoJob) /\ TicketSweeps[w] = NoJob
    BY <1>c, <1>d, <2>a, <2>b
  <2>2. TicketSweeps' = TicketSweeps
    BY <2>1 DEF TicketSweeps
  <2>3. QED
    BY <1>1, <1>a, <2>2, QueueVars DEF List, store
<1>2. CASE Acquire(w)
  <2>1. sweeps[w].pc = "listed" /\ TicketSweeps[w] = NoJob
    BY <1>2, <1>c DEF Acquire, SweepStep
  <2>2. CASE AcquireSweep(w, sweeps[w].job) /\ SweepGoto(w, "reconcile", "none")
    <3>1. TicketSweeps' = to(sweeps[w].job)
      BY <1>e, <2>2
    <3>2. PICK j \in Job : j = sweeps[w].job
      BY <1>b, <2>1
    <3>3. Queue!Sweep(w, j)
      BY <1>a, <1>b, <2>1, <2>2, <3>1, <3>2, QueueStore
      DEF Queue!Sweep, TicketLegs, TicketSweeps
    <3>4. QED
      BY <3>3 DEF Queue!Next
  <2>3. CASE SweepEnds(w) /\ UNCHANGED jobs
    <3>1. TicketSweeps' = TicketSweeps
      BY <1>i, <2>1, <2>3 DEF TicketSweeps
    <3>2. QED
      BY <1>a, <2>3, <3>1, QueueVars
  <2>4. QED
    BY <1>2, <2>2, <2>3 DEF Acquire
<1>g. ASSUME sweeps[w].pc \notin {"idle", "listed"}, NEW pc \in SweepPc, NEW result,
             pc # "listed", SweepGoto(w, pc, result)
      PROVE  TicketSweeps' = TicketSweeps
  BY <1>c, <1>e, <1>g DEF TicketSweeps
<1>h. ASSUME sweeps[w].pc \notin {"idle", "listed"}, Unreconciled(w)
      PROVE  SweepEnds(w) \/ TicketSweeps' = TicketSweeps
  BY <1>g, <1>h DEF Unreconciled, SweepPc
<1>3. CASE Reconcile(w)
  <2>1. SweepEnds(w) \/ TicketSweeps' = TicketSweeps
    BY <1>3, <1>g, <1>h DEF Reconcile, SweepStep, SweepPc
  <2>2. QED
    BY <1>3, <1>f, <2>1 DEF Reconcile, SweepStep, store
<1>4. CASE Deface(w)
  <2>1. SweepEnds(w) \/ TicketSweeps' = TicketSweeps
    <3>1. ASSUME sweeps' = [sweeps EXCEPT ![w].pc = "reconcile", ![w].refused = TRUE]
          PROVE  TicketSweeps' = TicketSweeps
      BY <1>4, <1>a, <3>1 DEF Deface, SweepStep, TicketSweeps, Sweep
    <3>2. QED
      BY <1>4, <1>g, <3>1 DEF Deface, SweepStep, SweepPc
  <2>2. QED
    BY <1>4, <1>f, <2>1 DEF Deface, SweepStep
<1>5. CASE SettleSwept(w)
  <2>1. CASE SettleSweptJob(w, sweeps[w].job, sweeps[w].result) /\ SweepEnds(w)
    <3>1. TicketSweeps[w] = sweeps[w].job /\ sweeps[w].job # NoJob
      BY <1>5, <1>b, <1>c, NoJobAssumption DEF SettleSwept, SweepStep
    <3>2. PICK status \in {"completed", "cancelled", "paused", "failed"} :
            status = sweeps[w].result
      BY <2>1 DEF SettleSweptJob
    <3>3. Queue!SettleSwept(w, status)
      BY <1>a, <1>i, <2>1, <3>1, <3>2, QueueStore
      DEF Queue!SettleSwept, TicketLegs, TicketSweeps
    <3>4. Queue!EndSweep(w)
      BY <3>3 DEF Queue!EndSweep
    <3>5. QED
      BY <3>4 DEF Queue!Next
  <2>2. CASE (SweepEnds(w) \/ Unreconciled(w)) /\ UNCHANGED jobs
    BY <1>5, <1>f, <1>h, <2>2 DEF SettleSwept, SweepStep
  <2>3. QED
    BY <1>5, <2>1, <2>2 DEF SettleSwept
<1>6. QED
  BY <1>1, <1>2, <1>3, <1>4, <1>5 DEF SweepOn

LEMMA RefineDoors ==
  ASSUME TypeInv, NEW j \in Job,
         \/ Enqueue(j) \/ Prepare(j) \/ Continue(j) \/ Requeue(j)
         \/ CancelRead(j) \/ CancelRunRow(j) \/ CancelTombstone(j)
         \/ CancelIntent(j) \/ IntentExpires(j) \/ Lapse(j)
  PROVE  [Queue!Next]_Queue!vars
<1>1. UNCHANGED <<TicketLegs, TicketSweeps, alive>>
  BY DEF Enqueue, Prepare, Continue, Requeue, CancelRead, CancelRunRow,
         CancelTombstone, CancelIntent, IntentExpires, Lapse, DoorQuiet,
         TicketLegs, TicketSweeps
<1>2. CASE UNCHANGED jobs
  BY <1>1, <1>2, QueueVars
<1>3. CASE \E created \in Stamps : EnqueueJob(j, created)
  <2>1. Queue!Enqueue(j)
    BY <1>1, <1>3, QueueStore DEF Queue!Enqueue, TicketLegs, TicketSweeps
  <2>2. QED
    BY <2>1 DEF Queue!Next
<1>4. CASE CancelJob(j)
  <2>1. Queue!Cancel(j)
    BY <1>1, <1>4, QueueStore DEF Queue!Cancel, TicketLegs, TicketSweeps
  <2>2. QED
    BY <2>1 DEF Queue!Next
<1>5. CASE Continue(j)
  <2>1. Queue!Continue(j)
    BY <1>1, <1>5, QueueStore DEF Continue, Queue!Continue, TicketLegs, TicketSweeps
  <2>2. QED
    BY <2>1 DEF Queue!Next
<1>6. CASE Requeue(j)
  <2>1. Queue!Requeue(j)
    BY <1>1, <1>6, QueueStore DEF Requeue, Queue!Requeue, TicketLegs, TicketSweeps
  <2>2. QED
    BY <2>1 DEF Queue!Next
<1>7. CASE Lapse(j)
  <2>1. Queue!Lapse(j)
    BY <1>1, <1>7, QueueStore DEF Lapse, Queue!Lapse, TicketLegs, TicketSweeps
  <2>2. QED
    BY <2>1 DEF Queue!Next
<1>8. QED
  BY <1>2, <1>3, <1>4, <1>5, <1>6, <1>7
  DEF Enqueue, Prepare, CancelRead, CancelRunRow, CancelTombstone, CancelIntent,
      IntentExpires, store

LEMMA RefineCrash ==
  ASSUME TypeInv, NEW w \in Worker, Crash(w)
  PROVE  Queue!Next
<1>1. /\ w \in alive /\ alive \ {w} # {} /\ alive' = alive \ {w} /\ UNCHANGED jobs
  BY DEF Crash, store
<1>2. TicketLegs' = {c \in TicketLegs : c.worker # w}
  <2>1. \A c : c \in TicketLegs' <=> c \in TicketLegs /\ c.worker # w
    BY TicketLegsAre, TicketLegsPrimed DEF Crash, ClaimOf
  <2>2. QED
    BY <2>1 DEF TicketLegs
<1>3. TicketSweeps' = [TicketSweeps EXCEPT ![w] = NoJob]
  BY DEF Crash, NoSweep, TicketSweeps, TypeInv, TypeOK
<1>4. Queue!Crash(w)
  BY <1>1, <1>2, <1>3 DEF Queue!Crash, TicketLegs, TicketSweeps
<1>5. QED
  BY <1>4 DEF Queue!Next

\* Every step of a worker, a door or the clock is a step of JobQueue or none.
LEMMA RefineStep ==
  ASSUME TypeInv, TicketInv, [Next]_vars
  PROVE  [Queue!Next]_Queue!vars
<1>1. LegsInv /\ SweepsInv
  BY DEF TicketInv
<1>2. CASE UNCHANGED vars
  <2>1. UNCHANGED <<jobs, TicketLegs, TicketSweeps, alive>>
    BY <1>2 DEF vars, TicketLegs, TicketSweeps
  <2>2. QED
    BY <2>1, QueueVars
<1>3. ASSUME NEW w \in Worker,
             \/ Heartbeat(w) \/ SweepOn(w) \/ Crash(w)
             \/ \E j \in Job : Claim(w, j) \/ List(w, j)
      PROVE  [Queue!Next]_Queue!vars
  BY <1>1, <1>3, RefineClaim, RefineHeartbeat, RefineSweep, RefineCrash
<1>4. ASSUME NEW l \in legs, Execute(l) \/ Checkpoint(l)
      PROVE  [Queue!Next]_Queue!vars
  BY <1>1, <1>4, RefineLegs
<1>5. ASSUME NEW j \in Job,
             \/ Enqueue(j) \/ Prepare(j) \/ Continue(j) \/ Requeue(j)
             \/ CancelRead(j) \/ CancelRunRow(j) \/ CancelTombstone(j)
             \/ CancelIntent(j) \/ IntentExpires(j) \/ Lapse(j)
      PROVE  [Queue!Next]_Queue!vars
  BY <1>5, RefineDoors
<1>6. QED
  BY <1>2, <1>3, <1>4, <1>5 DEF Next

LEMMA RefineInit == Init => Queue!Init
<1> SUFFICES ASSUME Init PROVE Queue!Init
  OBVIOUS
<1>1. TicketLegs = {}
  BY DEF Init, TicketLegs
<1>2. TicketSweeps = [w \in Worker |-> NoJob]
  BY DEF Init, NoSweep, TicketSweeps
<1>3. QED
  BY <1>1, <1>2, QueueStore DEF Init, Queue!Init, TicketLegs, TicketSweeps

\* Whatever runs, rows, stores and crashes do between two ticket writes, the
\* tickets of the workers behave as JobQueue says, so what is proved there of
\* sessions, budgets and attempts holds of them.  The one exception is an operator
\* who requeues a cancelled ticket before its leg has written the CANCELLED row:
\* the managed-run entry of that leg then refreshes the lease of the next claim,
\* for which JobQueue has no leg.
THEOREM TicketsRefine ==
  ASSUME "quickRequeue" \notin Env
  PROVE  Spec => QueueTickets
<1>1. Init => TypeInv /\ TicketInv
  <2>1. Init => TicketInv
    BY DEF Init, TicketInv, LegsInv, OwnedInv, SweepsInv, NoSweep
  <2>2. QED
    BY <2>1, TypeInit
<1>2. TypeInv /\ TicketInv /\ [Next]_vars => (TypeInv /\ TicketInv)'
  BY TypeStep, TicketStep
<1>3. TypeInv /\ TicketInv /\ [Next]_vars => [Queue!Next]_Queue!vars
  BY RefineStep
<1>4. QED
  BY <1>1, <1>2, <1>3, RefineInit, PTL DEF Spec, QueueTickets, Queue!Spec

-----------------------------------------------------------------------------
(* What the two records say to each other *)

\* The events under which the agreement below holds: no lease lapses over a live
\* leg, no request or sweeper is slower than a lease, no operator requeues a
\* ticket before its leg has ended, and the stamp and the run's own saves land.
\* Cancels, grants, crashes, expiring intents and failures of every other read
\* and write may happen.
Orderly ==
  Env \cap {"falseLapse", "slow", "quickRequeue", "stampFault", "saveFault"} = {}

Stamped == {"slot", "running", "honor", "enter", "exec", "saved", "fail"}
Acquired == {"reconcile", "deface", "settle"}
LooksAlive == {"pending", "running", "paused"}

\* A leg that has not settled its ticket holds it, by its attempt, and the lease
\* is attended to.
LeaseInv(l) ==
  /\ OwnsLease(l.worker, l.job, l.attempt) /\ ~jobs[l.job].stale
  /\ owned[l.worker][l.job] = l.attempt /\ l.attempt > 0
  /\ l.last <=> jobs[l.job].attempt >= jobs[l.job].maxAttempts
  /\ ~l.fresh => l.job \in continuing

\* The row, seen from a leg l about to do pc: it is there once prepared, carries the
\* attempt once stamped, says what the run saved, and is final before the ticket
\* is failed.
RowFits(l, pc, result, row) ==
  /\ pc \notin {"check", "ensure"} => row.status # "none"
  /\ pc \in Stamped => row.attempt = l.attempt
  /\ pc = "enter" => ~l.fresh
  /\ pc = "exec" => IF result = "fork"
                    THEN ~l.fresh /\ row.status = "completed"
                    ELSE row.status \notin Finished
  /\ pc = "saved" => \/ row.status = result
                     \/ ~l.fresh /\ row.status = "completed"
  /\ pc = "settle" /\ (result = "permanent" \/ l.last) =>
       row.status \in {"error", "fatal", "unseen"} \cup Finished

RowInv(l) == RowFits(l, l.pc, l.result, rows[l.job])

\* A ticket and its row when no leg is between them.
AgreeInv(j) ==
  LET row == rows[j] t == jobs[j] IN
  /\ row.attempt <= t.attempt
  /\ t.status = "absent" => t.attempt = 0
  /\ t.stale => j \notin preparing
  /\ j \in continuing => row.status # "none"
  /\ t.status = "completed" => \/ row.status = "completed"
                               \/ row.status = "unseen" /\ row.attempt = t.attempt
  /\ t.status = "failed" => /\ row.status \notin LooksAlive
                            /\ row.status = "none" => j \notin preparing
  /\ t.status = "paused" => \/ row.status \in {"paused", "cancelled"}
                            \/ row.status = "completed" /\ j \in continuing

\* A cancel that will write the row read the ticket before the attempt that runs
\* or has completed it.
CancelInv(j) ==
  cancels[j].pc = "row" =>
    /\ cancels[j].attempt <= jobs[j].attempt
    /\ jobs[j].status \in {"running", "completed"} => cancels[j].attempt < jobs[j].attempt

\* A sweep works with the attempt the ticket has; once it has the ticket, nobody
\* else does, and what it settles with is what the row says.
SweepInv(w) ==
  LET s == sweeps[w] t == jobs[s.job] row == rows[s.job] IN
  /\ s.pc = "listed" /\ t.stale => s.attempt = t.attempt
  /\ s.pc \in Acquired =>
       /\ t.status = "running" /\ t.lockedBy = w /\ ~t.stale /\ s.attempt = t.attempt
       /\ s.job \notin preparing
       /\ \A l \in legs : l.job # s.job
  /\ s.pc = "settle" =>
       /\ s.result = "failed" => row.status \notin LooksAlive
       /\ s.result \in Finished => row.status = s.result
       /\ s.result = "paused" => row.status \in {"paused", "cancelled"}

Agreement ==
  /\ \A l \in legs : ~Over(l) => LeaseInv(l) /\ RowInv(l)
  /\ \A j \in Job : AgreeInv(j) /\ CancelInv(j)
  /\ \A w \in Worker : SweepInv(w)

\* A step about one run leaves the others alone.
Elsewhere(j) ==
  /\ \A k \in Job \ {j} :
       /\ jobs'[k] = jobs[k] /\ rows'[k] = rows[k] /\ cancels'[k] = cancels[k]
       /\ k \in continuing' <=> k \in continuing
       /\ k \in preparing' <=> k \in preparing
       /\ \A w \in Worker : owned'[w][k] = owned[w][k]
  /\ \A l \in legs' : l.job # j => l \in legs

LEMMA AtOneRun ==
  ASSUME TypeInv, TypeInv', SweepsInv, Agreement, NEW j \in Job, Elsewhere(j),
         \A n \in legs' : n.job = j /\ ~Over(n) => (LeaseInv(n) /\ RowInv(n))',
         AgreeInv(j)', CancelInv(j)',
         \A w \in Worker : \/ SweepInv(w)'
                           \/ sweeps'[w] = sweeps[w] /\ sweeps[w].job # j
  PROVE  Agreement'
<1>1. ASSUME NEW n \in legs', ~Over(n)
      PROVE  (LeaseInv(n) /\ RowInv(n))'
  <2>1. CASE n.job = j
    BY <1>1, <2>1
  <2>2. CASE n.job # j
    <3>1. n \in legs /\ n.job \in Job \ {j} /\ n.worker \in Worker
      BY <1>1, <2>2 DEF Elsewhere, TypeInv, TypeOK, Leg
    <3>2. LeaseInv(n) /\ RowInv(n)
      BY <1>1, <3>1 DEF Agreement
    <3>3. /\ jobs'[n.job] = jobs[n.job] /\ rows'[n.job] = rows[n.job]
          /\ n.job \in continuing' <=> n.job \in continuing
          /\ owned'[n.worker][n.job] = owned[n.worker][n.job]
      BY <3>1 DEF Elsewhere
    <3>4. LeaseInv(n)'
      BY <3>2, <3>3 DEF LeaseInv, OwnsLease
    <3>5. RowInv(n)'
      BY <3>2, <3>3 DEF RowInv
    <3>6. QED
      BY <3>4, <3>5
  <2>3. QED
    BY <2>1, <2>2
<1>2. ASSUME NEW k \in Job PROVE (AgreeInv(k) /\ CancelInv(k))'
  <2>1. CASE k # j
    <3>1. AgreeInv(k) /\ CancelInv(k)
      BY DEF Agreement
    <3>2. /\ jobs'[k] = jobs[k] /\ rows'[k] = rows[k] /\ cancels'[k] = cancels[k]
          /\ k \in continuing' <=> k \in continuing
          /\ k \in preparing' <=> k \in preparing
      BY <2>1 DEF Elsewhere
    <3>3. QED
      BY <3>1, <3>2 DEF AgreeInv, CancelInv
  <2>2. QED
    BY <2>1
<1>3. ASSUME NEW w \in Worker PROVE SweepInv(w)'
  <2>1. CASE sweeps'[w] = sweeps[w] /\ sweeps[w].job # j /\ sweeps[w].pc # "idle"
    <3> DEFINE k == sweeps[w].job
    <3>1. k \in Job \ {j} /\ SweepInv(w)
      BY <2>1 DEF SweepsInv, Agreement
    <3>2. /\ jobs'[k] = jobs[k] /\ rows'[k] = rows[k]
          /\ k \in preparing' <=> k \in preparing
          /\ \A l \in legs' : l.job = k => l \in legs
      BY <3>1 DEF Elsewhere
    <3>3. QED
      BY <2>1, <3>1, <3>2 DEF SweepInv
  <2>2. CASE sweeps'[w] = sweeps[w] /\ sweeps[w].pc = "idle"
    BY <2>2 DEF SweepInv, Acquired
  <2>3. QED
    BY <2>1, <2>2
<1>4. QED
  BY <1>1, <1>2, <1>3 DEF Agreement

\* Only one leg of a run is not over, and no sweep has its ticket.
LEMMA LegAlone ==
  ASSUME TypeInv, TicketInv, Agreement, NEW l \in legs
  PROVE  /\ l \in Leg /\ l.job \in Job /\ l.worker \in Worker /\ l.attempt \in Nat
         /\ l.attempt <= jobs[l.job].attempt
         /\ \A m \in legs : m.job = l.job /\ m # l => Over(m)
         /\ \A w \in Worker : sweeps[w].job = l.job => sweeps[w].pc \notin Acquired
         /\ ~Over(l) => /\ LeaseInv(l) /\ RowInv(l)
                        /\ jobs[l.job].status = "running"
                        /\ jobs[l.job].attempt = l.attempt
                        /\ ~jobs[l.job].stale
         /\ Over(l) => jobs[l.job].status = "cancelled"
<1>1. /\ l \in Leg /\ l.job \in Job /\ l.worker \in Worker /\ l.attempt \in Nat
      /\ l.attempt <= jobs[l.job].attempt
      /\ Over(l) => jobs[l.job].status = "cancelled"
  BY DEF TypeInv, TypeOK, Leg, TicketInv, LegsInv
<1>2. \A w \in Worker : sweeps[w].job = l.job => sweeps[w].pc \notin Acquired
  BY DEF Agreement, SweepInv
<1>3. \A m \in legs : ~Over(m) => /\ LeaseInv(m) /\ RowInv(m)
                                  /\ jobs[m.job].status = "running"
                                  /\ jobs[m.job].attempt = m.attempt
                                  /\ ~jobs[m.job].stale
  BY DEF Agreement, LeaseInv, OwnsLease
<1>4. ASSUME NEW m \in legs, m.job = l.job, m # l PROVE Over(m)
  <2>1. CASE Over(l)
    BY <1>1, <1>3, <1>4, <2>1
  <2>2. CASE ~Over(l)
    BY <1>3, <1>4, <2>2 DEF TicketInv, LegsInv
  <2>3. QED
    BY <2>1, <2>2
<1>5. QED
  BY <1>1, <1>2, <1>3, <1>4

\* A ticket write of a leg takes the ticket from running, with its attempts.
LEMMA TicketWriteDoes ==
  ASSUME TypeInv, NEW l \in legs, TicketWrite(l)
  PROVE  /\ \A k \in Job \ {l.job} : jobs'[k] = jobs[k]
         /\ jobs[l.job].status = "running"
         /\ jobs'[l.job].status \notin {"running", "absent"} /\ ~jobs'[l.job].stale
         /\ jobs'[l.job].attempt = jobs[l.job].attempt
<1>1. l.job \in Job /\ jobs \in [Job -> Ticket]
  BY DEF TypeInv, TypeOK, Leg
<1>2. PICK status \in {"completed", "cancelled", "failed", "paused", "queued"} :
        \E t : /\ t = Settled(l.job, status) \/ t = [Settled(l.job, "queued") EXCEPT !.due = TRUE]
              /\ jobs' = [jobs EXCEPT ![l.job] = t]
  BY DEF TicketWrite, CompleteJob, RetryOrFailJob
<1>3. PICK t : /\ t = Settled(l.job, status) \/ t = [Settled(l.job, "queued") EXCEPT !.due = TRUE]
               /\ jobs' = [jobs EXCEPT ![l.job] = t]
  BY <1>2
<1>4. t.status \notin {"running", "absent"} /\ ~t.stale /\ t.attempt = jobs[l.job].attempt
  BY <1>1, <1>3 DEF Settled, Ticket
<1>5. jobs[l.job].status = "running"
  BY DEF TicketWrite, CompleteJob, RetryOrFailJob, OwnsLease
<1>6. QED
  BY <1>1, <1>3, <1>4, <1>5

\* A step of one leg keeps the agreement if it keeps it between the row, the leg
\* and the ticket.
LEMMA AgreementByLeg ==
  ASSUME TypeInv, TypeInv', TicketInv, Agreement, NEW l \in legs,
         \A k \in Job \ {l.job} : rows'[k] = rows[k],
         UNCHANGED <<sweeps, cancels, preparing, continuing>>,
         AgreeInv(l.job)',
         \/ EndOf(l) /\ (UNCHANGED jobs \/ TicketWrite(l))
         \/ /\ UNCHANGED owned
            /\ \E m \in Leg :
                 /\ legs' = (legs \ {l}) \cup {m} /\ SameClaim(l, m)
                 /\ m.fresh = l.fresh /\ m.last = l.last
                 /\ \/ Over(m) /\ TicketWrite(l)
                    \/ ~Over(l) /\ UNCHANGED jobs /\ RowInv(m)'
  PROVE  Agreement'
<1> DEFINE j == l.job
<1>a. /\ j \in Job /\ l.worker \in Worker
      /\ \A m \in legs : m.job = j /\ m # l => Over(m)
      /\ \A w \in Worker : sweeps[w].job = j => sweeps[w].pc \notin Acquired
      /\ ~Over(l) => LeaseInv(l)
  BY LegAlone
<1>b. /\ \A k \in Job \ {j} : jobs'[k] = jobs[k]
      /\ \A status \in {"running", "completed"} : jobs'[j].status = status =>
           jobs[j].status \in {"running", status}
      /\ jobs'[j].stale => jobs[j].stale
      /\ jobs'[j].attempt = jobs[j].attempt
  BY TicketWriteDoes
<1>1. Elsewhere(j)
  <2>1. \A w \in Worker : \A k \in Job \ {j} : owned'[w][k] = owned[w][k]
    BY DEF EndOf, TypeInv, TypeOK
  <2>2. \A n \in legs' : n.job # j => n \in legs
    BY DEF EndOf, SameClaim
  <2>3. QED
    BY <1>b, <2>1, <2>2 DEF Elsewhere
<1>2. ASSUME NEW n \in legs', n.job = j, ~Over(n)
      PROVE  (LeaseInv(n) /\ RowInv(n))'
  <2>1. n \notin legs \ {l}
    BY <1>a, <1>2
  <2>2. /\ SameClaim(l, n) /\ n.fresh = l.fresh /\ n.last = l.last
        /\ ~Over(l) /\ UNCHANGED <<jobs, owned>> /\ RowInv(n)'
    BY <1>2, <2>1 DEF EndOf
  <2>3. LeaseInv(n)'
    BY <1>a, <2>2 DEF LeaseInv, OwnsLease, SameClaim
  <2>4. QED
    BY <2>2, <2>3
<1>3. CancelInv(j)'
  <2>1. CancelInv(j)
    BY <1>a DEF Agreement
  <2>2. QED
    BY <1>b, <2>1 DEF CancelInv
<1>4. ASSUME NEW w \in Worker, sweeps[w].job = j PROVE SweepInv(w)'
  <2>1. SweepInv(w)
    BY DEF Agreement
  <2>2. QED
    BY <1>4, <1>a, <1>b, <2>1 DEF SweepInv, Acquired
<1>5. SweepsInv
  BY DEF TicketInv
<1>6. AgreeInv(j)'
  OBVIOUS
<1>7. \A w \in Worker : \/ SweepInv(w)'
                        \/ sweeps'[w] = sweeps[w] /\ sweeps[w].job # j
  BY <1>4
<1> HIDE DEF j
<1>8. QED
  BY <1>1, <1>2, <1>3, <1>5, <1>6, <1>7, <1>a, AtOneRun

\* What the fenced write does when it is not stale.
LEMMA PersistDoes ==
  ASSUME TypeInv, NEW j \in Job, NEW attempt \in Nat, NEW status,
         Persist(j, attempt, status), rows[j].attempt <= attempt
  PROVE  /\ PersistOutcome(j, attempt, status) \in {"missing", "refused", "updated"}
         /\ PersistOutcome(j, attempt, status) = "missing" =>
              rows[j].status = "none" /\ rows' = rows
         /\ PersistOutcome(j, attempt, status) = "refused" =>
              rows[j].status \in Finished /\ rows' = rows
         /\ PersistOutcome(j, attempt, status) = "updated" =>
              /\ rows[j].status # "none"
              /\ rows[j].status \in Finished => status = rows[j].status
              /\ rows' = [rows EXCEPT ![j] = [status |-> status, attempt |-> attempt]]
<1>1. rows[j].attempt \in Nat
  BY DEF TypeInv, TypeOK, Row
<1>2. QED
  BY <1>1 DEF Persist, PersistOutcome

LEMMA LegGoes ==
  ASSUME TypeInv, TypeInv', TicketInv, Agreement, NEW l \in legs,
         l.pc # "cancelRow", NEW pc \in LegPc, NEW result \in Result,
         Goto(l, pc, result), pc # "cancelRow" \/ result # "cancelled",
         UNCHANGED <<jobs, owned>>, Quiet \/ UNCHANGED <<sweeps, cancels, preparing, continuing>>,
         NEW row, rows' = [rows EXCEPT ![l.job] = row],
         row.status # "none" \/ row.status = rows[l.job].status,
         row.attempt <= l.attempt, RowFits(l, pc, result, row)
  PROVE  Agreement'
<1> DEFINE m == [l EXCEPT !.pc = pc, !.result = result]
<1>1. /\ ~Over(l) /\ l \in Leg /\ l.job \in Job
      /\ jobs[l.job].status = "running" /\ jobs[l.job].attempt = l.attempt
      /\ ~jobs[l.job].stale
  BY LegAlone DEF Over
<1>2. /\ m \in Leg /\ SameClaim(l, m) /\ m.fresh = l.fresh /\ m.last = l.last
      /\ m.pc = pc /\ m.result = result /\ legs' = (legs \ {l}) \cup {m}
  BY <1>1 DEF SameClaim, Goto, Leg
<1> HIDE DEF m
<1>3. rows'[l.job] = row /\ \A k \in Job \ {l.job} : rows'[k] = rows[k]
  BY <1>1 DEF TypeInv, TypeOK
<1>4. RowInv(m)'
  <2>1. RowFits(m, pc, result, row)
    BY <1>2 DEF RowFits, SameClaim
  <2>2. QED
    BY <1>2, <1>3, <2>1 DEF RowInv, SameClaim
<1>5. UNCHANGED <<sweeps, cancels, preparing, continuing>>
  BY DEF Quiet, doors
<1>6. AgreeInv(l.job)'
  <2>1. AgreeInv(l.job)
    BY <1>1 DEF Agreement
  <2>2. QED
    BY <1>1, <1>3, <1>5, <2>1 DEF AgreeInv
<1>7. ~Over(m)
  BY <1>2 DEF Over
<1>8. QED
  BY <1>1, <1>2, <1>3, <1>4, <1>5, <1>6, <1>7, AgreementByLeg

LEMMA LeaveAgrees ==
  ASSUME TypeInv, TypeInv', TicketInv, Agreement, NEW l \in legs, Leave(l)
  PROVE  Agreement'
<1>1. /\ l.job \in Job /\ AgreeInv(l.job)
  BY DEF TypeInv, TypeOK, Leg, Agreement
<1>2. EndOf(l) /\ UNCHANGED <<jobs, rows, sweeps, cancels, preparing, continuing>>
  BY DEF Leave, store, Quiet, doors
<1>3. AgreeInv(l.job)'
  BY <1>1, <1>2 DEF AgreeInv
<1>4. QED
  BY <1>2, <1>3, AgreementByLeg

\* A row that a ticket settled with this status can stand over.
SettlesOver(l, status) ==
  LET row == rows[l.job] IN
  /\ status = "completed" => \/ row.status = "completed"
                             \/ row.status = "unseen" /\ row.attempt = l.attempt
  /\ status = "failed" => row.status \notin LooksAlive \cup {"none"}
  /\ status = "paused" => \/ row.status \in {"paused", "cancelled"}
                          \/ row.status = "completed" /\ ~l.fresh

LEMMA WriteAgrees ==
  ASSUME TypeInv, TicketInv, Agreement, NEW l \in legs, ~Over(l), TicketWrite(l),
         UNCHANGED <<rows, preparing, continuing>>,
         SettlesOver(l, jobs'[l.job].status)
  PROVE  AgreeInv(l.job)'
<1>1. l.job \in Job /\ LeaseInv(l) /\ AgreeInv(l.job)
  BY LegAlone DEF Agreement
<1>2. /\ ~jobs'[l.job].stale /\ jobs'[l.job].attempt = jobs[l.job].attempt
      /\ jobs'[l.job].status # "absent"
  BY TicketWriteDoes
<1>3. jobs[l.job].attempt = l.attempt
  BY <1>1 DEF LeaseInv, OwnsLease
<1>4. QED
  BY <1>1, <1>2, <1>3 DEF AgreeInv, LeaseInv, SettlesOver

LEMMA SettleAgrees ==
  ASSUME TypeInv, TypeInv', TicketInv, Agreement, NEW l \in legs, l.pc # "cancelRow",
         \/ \E status : Settle(l, status) /\ SettlesOver(l, status)
         \/ RetryOrFail(l) /\ (l.last => SettlesOver(l, "failed"))
  PROVE  Agreement'
<1>1. /\ ~Over(l) /\ l.job \in Job /\ AgreeInv(l.job) /\ LeaseInv(l)
      /\ jobs[l.job].attempt = l.attempt
  BY LegAlone DEF Over, Agreement
<1>2. EndOf(l) /\ UNCHANGED <<rows, sweeps, cancels, preparing, continuing>>
  BY DEF Settle, RetryOrFail, Settling, Quiet, doors
<1>3. jobs \in [Job -> Ticket]
  BY DEF TypeInv, TypeOK
<1>4. \/ UNCHANGED jobs
      \/ TicketWrite(l) /\ SettlesOver(l, jobs'[l.job].status)
  <2>1. ASSUME NEW status, CompleteJob(l.worker, l.job, l.attempt, status),
               SettlesOver(l, status)
        PROVE  TicketWrite(l) /\ SettlesOver(l, jobs'[l.job].status)
    <3>1. jobs'[l.job].status = status
      BY <1>1, <1>3, <2>1 DEF CompleteJob, Settled, Ticket
    <3>2. TicketWrite(l)
      BY <2>1 DEF TicketWrite, CompleteJob
    <3>3. QED
      BY <2>1, <3>1, <3>2
  <2>2. ASSUME RetryOrFailJob(l.worker, l.job, l.attempt, TRUE),
               l.last => SettlesOver(l, "failed")
        PROVE  TicketWrite(l) /\ SettlesOver(l, jobs'[l.job].status)
    <3>1. /\ jobs'[l.job].status \in {"queued", "failed"}
          /\ jobs'[l.job].status = "failed" =>
               ~(jobs[l.job].attempt < jobs[l.job].maxAttempts)
      BY <1>1, <1>3, <2>2 DEF RetryOrFailJob, Settled, Ticket
    <3>2. /\ jobs[l.job].attempt \in Nat /\ jobs[l.job].maxAttempts \in Nat
      BY <1>1, <1>3 DEF Ticket
    <3>3. SettlesOver(l, jobs'[l.job].status)
      BY <1>1, <2>2, <3>1, <3>2 DEF LeaseInv, SettlesOver
    <3>4. QED
      BY <2>2, <3>3 DEF TicketWrite
  <2>3. QED
    BY <2>1, <2>2 DEF Settle, RetryOrFail, Settling
<1>5. AgreeInv(l.job)'
  <2>1. CASE UNCHANGED jobs
    BY <1>1, <1>2, <2>1 DEF AgreeInv
  <2>2. CASE TicketWrite(l) /\ SettlesOver(l, jobs'[l.job].status)
    BY <1>1, <1>2, <2>2, WriteAgrees
  <2>3. QED
    BY <1>4, <2>1, <2>2
<1>6. QED
  BY <1>2, <1>4, <1>5, AgreementByLeg

\* Every step of a leg keeps the agreement.
LEMMA ExecuteAgrees ==
  ASSUME Orderly, TypeInv, TypeInv', TicketInv, Agreement, NEW l \in legs,
         Execute(l) \/ Checkpoint(l)
  PROVE  Agreement'
<1> DEFINE row == rows[l.job]
<1>a. /\ l \in Leg /\ l.job \in Job /\ l.attempt \in Nat
      /\ l.attempt <= jobs[l.job].attempt
      /\ rows \in [Job -> Row] /\ row \in Row
      /\ AgreeInv(l.job) /\ row.attempt <= jobs[l.job].attempt
  BY LegAlone DEF TypeInv, TypeOK, Agreement, AgreeInv
<1>b. l.pc # "cancelRow" =>
        /\ ~Over(l) /\ LeaseInv(l) /\ RowFits(l, l.pc, l.result, row)
        /\ jobs[l.job].attempt = l.attempt /\ row.attempt <= l.attempt
  BY <1>a, LegAlone DEF Over, RowInv
<1>c. "stampFault" \notin Env /\ "saveFault" \notin Env
  BY DEF Orderly
<1>d. /\ LegPc = {"check", "ensure", "stamp", "slot", "running", "honor", "enter",
                  "exec", "saved", "fail", "settle", "cancelTicket", "cancelRow"}
      /\ Result = {"none", "completed", "cancelled", "paused", "error", "fatal",
                   "unseen", "permanent", "transient", "fork"}
  BY DEF LegPc, Result
<1>e. ASSUME NEW pc \in LegPc, NEW result \in Result, l.pc # "cancelRow",
             pc # "cancelRow" \/ result # "cancelled", Goto(l, pc, result),
             UNCHANGED <<rows, jobs, owned>>, Quiet, RowFits(l, pc, result, row)
      PROVE  Agreement'
  <2>1. rows' = [rows EXCEPT ![l.job] = row]
    BY <1>a, <1>e
  <2> HIDE DEF row
  <2>2. QED
    BY <1>b, <1>e, <2>1, LegGoes DEF row
<1>1. CASE Check(l)
  <2>1. CASE Leave(l)
    BY <2>1, LeaveAgrees
  <2>2. CASE row.status \in {"fatal", "unseen"} /\ Goto(l, "settle", "permanent")
             /\ UNCHANGED <<store, intents, owned>> /\ Quiet
    <3>1. RowFits(l, "settle", "permanent", row)
      BY <2>2 DEF RowFits, Stamped
    <3>2. QED
      BY <1>1, <1>d, <1>e, <2>2, <3>1 DEF Check, LegStep, store
  <2>3. CASE Goto(l, "ensure", "none")
             /\ UNCHANGED <<store, intents, owned>> /\ Quiet
    <3>1. RowFits(l, "ensure", "none", row)
      BY DEF RowFits, Stamped
    <3>2. QED
      BY <1>1, <1>d, <1>e, <2>3, <3>1 DEF Check, LegStep, store
  <2>4. QED
    BY <1>1, <2>1, <2>2, <2>3 DEF Check
<1>2. CASE Ensure(l)
  <2>1. CASE Leave(l)
    BY <2>1, LeaveAgrees
  <2>2. CASE AppendIfAbsent(l.job) /\ Goto(l, "stamp", "none")
             /\ UNCHANGED <<jobs, intents, owned>> /\ Quiet
    <3> DEFINE new == IF row.status = "none" THEN [row EXCEPT !.status = "pending"]
                      ELSE row
    <3>1. rows' = [rows EXCEPT ![l.job] = new]
      BY <1>a, <2>2 DEF AppendIfAbsent
    <3>2. new.status # "none" /\ new.attempt = row.attempt
      BY <1>a DEF Row
    <3>3. RowFits(l, "stamp", "none", new)
      BY <3>2 DEF RowFits, Stamped
    <3> HIDE DEF new
    <3>4. QED
      BY <1>2, <1>b, <1>d, <2>2, <3>1, <3>2, <3>3, LegGoes DEF Ensure, LegStep
  <2>3. QED
    BY <1>2, <2>1, <2>2 DEF Ensure
<1>3. CASE Stamp(l)
  <2> DEFINE new == [row EXCEPT !.attempt = l.attempt]
  <2>1. l.pc = "stamp" /\ row.status # "none"
    BY <1>3, <1>b DEF Stamp, LegStep, RowFits
  <2>2. rows' = [rows EXCEPT ![l.job] = new]
    <3>1. rows' = [rows EXCEPT ![l.job].attempt = l.attempt]
      <4>1. row.attempt \in Nat
        BY <1>a DEF Row
      <4>2. QED
        BY <1>3, <1>a, <1>b, <1>c, <2>1, <4>1 DEF Stamp
    <3>2. QED
      BY <1>a, <3>1
  <2>3. new.status = row.status /\ new.attempt = l.attempt
    BY <1>a DEF Row
  <2>4. RowFits(l, "slot", "none", new)
    BY <2>1, <2>3 DEF RowFits, Stamped
  <2> HIDE DEF new
  <2>5. l.attempt <= l.attempt
    BY <1>a
  <2>6. QED
    BY <1>3, <1>d, <2>1, <2>2, <2>3, <2>4, <2>5, LegGoes DEF Stamp
<1>4. CASE NotExecutable(l)
  <2>1. CASE Leave(l)
    BY <2>1, LeaveAgrees
  <2>2. ASSUME NEW result \in {"permanent", "transient"},
               Goto(l, IF result = "permanent" \/ l.last
                       THEN "fail" ELSE "settle", result),
               UNCHANGED <<store, intents, owned>>, Quiet
        PROVE  Agreement'
    <3> DEFINE pc == IF result = "permanent" \/ l.last THEN "fail" ELSE "settle"
    <3>1. RowFits(l, pc, result, row)
      BY <1>4, <1>b DEF NotExecutable, LegStep, RowFits, Stamped
    <3>2. pc \in LegPc /\ pc # "cancelRow" /\ result \in Result
      BY <1>d
    <3>3. Goto(l, pc, result)
      BY <2>2
    <3> HIDE DEF pc
    <3>4. QED
      BY <1>4, <1>e, <2>2, <3>1, <3>2, <3>3 DEF NotExecutable, LegStep, store
  <2>3. QED
    BY <1>4, <2>1, <2>2 DEF NotExecutable
<1>5. CASE Slot(l)
  <2>1. /\ l.pc = "slot" /\ row.status # "none" /\ row.attempt = l.attempt
        /\ UNCHANGED <<rows, jobs, owned>> /\ Quiet
    BY <1>5, <1>b DEF Slot, LegStep, RowFits, Stamped, store
  <2>2. /\ RowFits(l, "cancelTicket", "none", row)
        /\ RowFits(l, "running", "none", row)
        /\ ~l.fresh => RowFits(l, "enter", "none", row)
    BY <2>1 DEF RowFits
  <2>3. \/ Goto(l, "cancelTicket", "none") \/ Goto(l, "running", "none")
        \/ ~l.fresh /\ Goto(l, "enter", "none")
    BY <1>5 DEF Slot
  <2>4. QED
    BY <1>d, <1>e, <2>1, <2>2, <2>3
<1>6. CASE Running(l)
  <2>1. /\ l.pc = "running" /\ row.status # "none" /\ row.attempt = l.attempt
        /\ Persist(l.job, l.attempt, "running") /\ Goto(l, AfterStamp(l), "none")
        /\ UNCHANGED <<jobs, owned>> /\ Quiet
    BY <1>6, <1>b, <1>c DEF Running, LegStep, RowFits, Stamped
  <2>2. CASE PersistOutcome(l.job, l.attempt, "running") = "refused"
    <3>1. Goto(l, "honor", "none") /\ rows' = rows
      BY <1>a, <1>b, <2>1, <2>2, PersistDoes DEF AfterStamp
    <3>2. RowFits(l, "honor", "none", row)
      BY <2>1 DEF RowFits
    <3>3. QED
      BY <1>d, <1>e, <2>1, <3>1, <3>2
  <2>3. CASE PersistOutcome(l.job, l.attempt, "running") # "refused"
    <3> DEFINE new == [status |-> "running", attempt |-> l.attempt]
    <3>1. Goto(l, "exec", "none") /\ rows' = [rows EXCEPT ![l.job] = new]
      BY <1>a, <1>b, <2>1, <2>3, PersistDoes DEF AfterStamp
    <3>2. new.status = "running" /\ new.attempt = l.attempt
      OBVIOUS
    <3>3. RowFits(l, "exec", "none", new)
      BY <3>2 DEF RowFits, Finished
    <3> HIDE DEF new
    <3>4. l.attempt <= l.attempt
      BY <1>a
    <3>5. QED
      BY <1>d, <2>1, <3>1, <3>2, <3>3, <3>4, LegGoes
  <2>4. QED
    BY <2>2, <2>3
<1>7. CASE Honor(l)
  <2>1. CASE Leave(l)
    BY <2>1, LeaveAgrees
  <2>2. CASE row.status \in Finished /\ Settle(l, row.status)
    <3>1. PICK status \in Finished : status = row.status
      BY <2>2
    <3>2. SettlesOver(l, status) /\ Settle(l, status)
      BY <2>2, <3>1 DEF SettlesOver, Finished
    <3>3. QED
      BY <1>7, <3>2, SettleAgrees DEF Honor, LegStep
  <2>3. QED
    BY <1>7, <2>1, <2>2 DEF Honor
<1>8. CASE Enter(l)
  <2>1. /\ l.pc = "enter" /\ ~l.fresh /\ row.status # "none" /\ row.attempt = l.attempt
        /\ UNCHANGED <<rows, jobs, owned>> /\ Quiet
    BY <1>8, <1>b DEF Enter, LegStep, RowFits, Stamped, store
  <2>2. /\ RowFits(l, "fail", "permanent", row)
        /\ row.status = "completed" => RowFits(l, "exec", "fork", row)
        /\ row.status \notin Finished => RowFits(l, "exec", "none", row)
    BY <2>1 DEF RowFits
  <2>3. \/ Goto(l, "fail", "permanent")
        \/ row.status = "completed" /\ Goto(l, "exec", "fork")
        \/ row.status \notin Finished /\ Goto(l, "exec", "none")
    BY <1>8 DEF Enter, Finished
  <2>4. QED
    BY <1>d, <1>e, <2>1, <2>2, <2>3
<1>f. ASSUME NEW status \in RowStatus, l.pc = "exec", OwnSave(l, status),
             l.result # "fork"
      PROVE  rows' = [rows EXCEPT ![l.job] = [status |-> status, attempt |-> l.attempt]]
  <2>1. Persist(l.job, l.attempt, status)
    BY <1>b, <1>c, <1>f DEF OwnSave, LeaseInv
  <2>2. row.status \notin {"none"} \cup Finished
    BY <1>b, <1>f DEF RowFits
  <2>3. QED
    BY <1>a, <1>b, <1>f, <2>1, <2>2, PersistDoes
<1>9. CASE Checkpoint(l)
  <2> DEFINE new == [status |-> "running", attempt |-> l.attempt]
  <2>1. /\ l.pc = "exec" /\ l.result # "fork"
        /\ rows' = [rows EXCEPT ![l.job] = new]
        /\ UNCHANGED <<jobs, legs, owned>> /\ Quiet
    BY <1>9, <1>f DEF Checkpoint, LegStep, RowStatus
  <2>2. new.status = "running" /\ new.attempt = l.attempt
    OBVIOUS
  <2>3. RowFits(l, l.pc, l.result, new)
    BY <2>1, <2>2 DEF RowFits, Finished
  <2>4. Goto(l, l.pc, l.result)
    <3>1. [l EXCEPT !.pc = l.pc, !.result = l.result] = l
      BY <1>a DEF Leg
    <3>2. QED
      BY <2>1, <3>1 DEF Goto
  <2>5. l.pc \in LegPc /\ l.result \in Result /\ l.attempt <= l.attempt
    BY <1>a DEF Leg
  <2> HIDE DEF new
  <2>6. QED
    BY <2>1, <2>2, <2>3, <2>4, <2>5, LegGoes
<1>10. ASSUME NEW result \in Result, Finish(l, result) PROVE Agreement'
  <2>1. /\ l.pc = "exec" /\ Goto(l, "saved", result)
        /\ result \in {"completed", "paused", "error", "fatal", "unseen", "cancelled"}
        /\ UNCHANGED <<jobs, owned>> /\ Quiet
    BY <1>10 DEF Finish, LegStep
  <2>2. CASE l.result = "fork"
    <3>1. rows' = rows /\ RowFits(l, "saved", result, row)
      BY <1>10, <1>b, <2>1, <2>2 DEF Finish, RowFits, Stamped
    <3>2. QED
      BY <1>d, <1>e, <2>1, <3>1
  <2>3. CASE l.result # "fork"
    <3> DEFINE new == [status |-> result, attempt |-> l.attempt]
    <3>1. rows' = [rows EXCEPT ![l.job] = new]
      BY <1>10, <1>f, <2>1, <2>3 DEF Finish, RowStatus, Finished
    <3>2. new.status = result /\ new.attempt = l.attempt
      OBVIOUS
    <3>3. RowFits(l, "saved", result, new)
      BY <2>1, <3>2 DEF RowFits
    <3>4. l.attempt <= l.attempt
      BY <1>a
    <3> HIDE DEF new
    <3>5. QED
      BY <1>d, <2>1, <3>1, <3>2, <3>3, <3>4, LegGoes
  <2>4. QED
    BY <2>2, <2>3
<1>11. CASE Return(l)
  <2>1. /\ l.pc = "saved" /\ row.status # "none" /\ row.attempt = l.attempt
        /\ row.status = l.result \/ (~l.fresh /\ row.status = "completed")
    BY <1>11, <1>b DEF Return, LegStep, RowFits, Stamped
  <2>2. /\ l.result = "error" \/ l.result = "fatal" => SettlesOver(l, "failed")
        /\ l.result = "unseen" => SettlesOver(l, "completed")
        /\ l.result # "failed" => SettlesOver(l, l.result)
    BY <2>1 DEF SettlesOver, LooksAlive
  <2>3. l.result # "failed"
    BY <1>a, <1>d DEF Leg
  <2>4. \/ \E status : Settle(l, status) /\ SettlesOver(l, status)
        \/ RetryOrFail(l) /\ SettlesOver(l, "failed")
    BY <1>11, <2>2, <2>3 DEF Return
  <2>5. QED
    BY <2>1, <2>4, SettleAgrees
<1>12. ASSUME NEW result \in Result, Interrupt(l, result) PROVE Agreement'
  <2> DEFINE pc == IF result = "permanent" \/ l.last THEN "fail" ELSE "settle"
  <2>1. RowFits(l, pc, result, row)
    BY <1>12, <1>b DEF Interrupt, RowFits, Stamped
  <2>2. /\ pc \in LegPc /\ pc # "cancelRow" /\ Goto(l, pc, result)
        /\ l.pc # "cancelRow" /\ UNCHANGED <<rows, jobs, owned>> /\ Quiet
    BY <1>12, <1>d DEF Interrupt, store
  <2> HIDE DEF pc
  <2>3. QED
    BY <1>e, <2>1, <2>2
<1>13. CASE Fail(l)
  <2>1. CASE Leave(l)
    BY <2>1, LeaveAgrees
  <2>2. CASE Persist(l.job, l.attempt, "error") /\ Goto(l, "settle", l.result)
             /\ UNCHANGED <<jobs, intents, owned>> /\ Quiet
    <3>1. /\ l.pc = "fail" /\ row.status # "none" /\ l.result \in Result
          /\ l.attempt <= l.attempt
      BY <1>13, <1>a, <1>b DEF Fail, LegStep, RowFits, Leg
    <3>2. CASE rows' = rows /\ row.status \in Finished
      <4>1. RowFits(l, "settle", l.result, row)
        BY <3>1, <3>2 DEF RowFits, Stamped
      <4>2. QED
        BY <1>d, <1>e, <2>2, <3>1, <3>2, <4>1
    <3>3. CASE rows' = [rows EXCEPT ![l.job] =
                          [status |-> "error", attempt |-> l.attempt]]
      <4> DEFINE new == [status |-> "error", attempt |-> l.attempt]
      <4>1. new.status = "error" /\ new.attempt = l.attempt
        OBVIOUS
      <4>2. RowFits(l, "settle", l.result, new)
        BY <4>1 DEF RowFits, Stamped
      <4>3. rows' = [rows EXCEPT ![l.job] = new]
        BY <3>3
      <4> HIDE DEF new
      <4>4. QED
        BY <1>d, <2>2, <3>1, <4>1, <4>2, <4>3, LegGoes
    <3>4. QED
      BY <1>a, <1>b, <2>2, <3>1, <3>2, <3>3, PersistDoes
  <2>3. QED
    BY <1>13, <2>1, <2>2 DEF Fail
<1>14. CASE SettleFailed(l)
  <2>1. /\ l.pc = "settle"
        /\ l.result = "permanent" \/ l.last => SettlesOver(l, "failed")
    BY <1>14, <1>b DEF SettleFailed, LegStep, RowFits, SettlesOver, LooksAlive, Finished
  <2>2. \/ Settle(l, "failed") /\ l.result = "permanent"
        \/ RetryOrFail(l)
    BY <1>14 DEF SettleFailed
  <2>3. QED
    BY <2>1, <2>2, SettleAgrees
<1>15. CASE CancelTicket(l)
  <2>1. /\ l.pc = "cancelTicket" /\ row.status # "none" /\ Quiet
        /\ UNCHANGED <<rows, owned>>
    BY <1>15, <1>b DEF CancelTicket, LegStep, RowFits
  <2>2. CASE UNCHANGED jobs /\ Goto(l, "cancelRow", "none")
    <3>1. RowFits(l, "cancelRow", "none", row)
      BY <2>1 DEF RowFits, Stamped
    <3>2. QED
      BY <1>d, <1>e, <2>1, <2>2, <3>1
  <2>3. CASE CompleteJob(l.worker, l.job, l.attempt, "cancelled")
             /\ Goto(l, "cancelRow", "cancelled")
    <3> DEFINE m == [l EXCEPT !.pc = "cancelRow", !.result = "cancelled"]
    <3>1. /\ m \in Leg /\ SameClaim(l, m) /\ m.fresh = l.fresh /\ m.last = l.last
          /\ Over(m) /\ legs' = (legs \ {l}) \cup {m}
      BY <1>a, <1>d, <2>3 DEF Leg, SameClaim, Over, Goto
    <3>2. TicketWrite(l)
      BY <2>3 DEF TicketWrite
    <3>3. jobs'[l.job].status = "cancelled"
      BY <1>a, <2>3 DEF CompleteJob, Settled, TypeInv, TypeOK, Ticket
    <3>4. UNCHANGED <<sweeps, cancels, preparing, continuing>>
      BY <2>1 DEF Quiet, doors
    <3>5. AgreeInv(l.job)'
      BY <1>b, <2>1, <3>2, <3>3, <3>4, WriteAgrees DEF SettlesOver
    <3> HIDE DEF m
    <3>6. QED
      BY <2>1, <3>1, <3>2, <3>4, <3>5, AgreementByLeg
  <2>4. QED
    BY <1>15, <2>2, <2>3 DEF CancelTicket
<1>16. CASE CancelRow(l)
  <2>1. /\ EndOf(l) /\ UNCHANGED <<jobs, sweeps, cancels, preparing, continuing>>
    BY <1>16 DEF CancelRow, Quiet, doors
  <2>2. /\ jobs[l.job].status \in {"running", "cancelled"}
        /\ ~Over(l) => jobs[l.job].attempt = l.attempt
    BY LegAlone
  <2>3. /\ \A k \in Job \ {l.job} : rows'[k] = rows[k]
        /\ rows'[l.job].status = "none" => row.status = "none"
        /\ rows'[l.job].attempt <= jobs[l.job].attempt
    <3>1. row.attempt \in Nat /\ jobs[l.job].attempt \in Nat
      BY <1>a DEF Row, TypeInv, TypeOK, Ticket
    <3>2. CASE Persist(l.job, l.attempt, "cancelled")
      BY <1>a, <3>1, <3>2 DEF Persist, PersistOutcome
    <3>3. CASE UNCHANGED rows
      BY <1>a, <3>3
    <3>4. QED
      BY <1>16, <3>2, <3>3 DEF CancelRow
  <2>4. AgreeInv(l.job)'
    BY <1>a, <2>1, <2>2, <2>3 DEF AgreeInv
  <2>5. QED
    BY <2>1, <2>3, <2>4, AgreementByLeg
<1>17. QED
  BY <1>1, <1>2, <1>3, <1>4, <1>5, <1>6, <1>7, <1>8, <1>9, <1>10, <1>11, <1>12,
     <1>13, <1>14, <1>15, <1>16 DEF Execute

\* A ticket whose lease lapsed has no leg and no sweep left.
LEMMA StaleIsAlone ==
  ASSUME TicketInv, Agreement, NEW j \in Job, jobs[j].status = "running", jobs[j].stale
  PROVE  /\ \A n \in legs : n.job # j
         /\ \A w \in Worker : sweeps[w].job = j => sweeps[w].pc \notin Acquired
         /\ j \notin preparing
<1>1. ASSUME NEW n \in legs PROVE n.job # j
  <2>1. CASE Over(n)
    BY <2>1 DEF TicketInv, LegsInv
  <2>2. CASE ~Over(n)
    BY <2>2 DEF Agreement, LeaseInv
  <2>3. QED
    BY <2>1, <2>2
<1>2. QED
  BY <1>1 DEF Agreement, AgreeInv, SweepInv

\* A sweep step that changes at most the ticket and the row of the swept run.
LEMMA AgreementBySweep ==
  ASSUME TypeInv, TypeInv', TicketInv, Agreement, NEW w \in Worker, NEW j \in Job,
         SweepQuiet, \A k \in Job \ {j} : jobs'[k] = jobs[k] /\ rows'[k] = rows[k],
         \A v \in Worker \ {w} : sweeps'[v] = sweeps[v],
         UNCHANGED <<jobs, rows>> \/ (\A n \in legs : n.job # j),
         AgreeInv(j)', CancelInv(j)', SweepInv(w)',
         \A v \in Worker \ {w} : sweeps[v].job = j => SweepInv(v)'
  PROVE  Agreement'
<1>1. UNCHANGED <<intents, continuing, legs, owned, cancels, preparing, alive>>
  BY DEF SweepQuiet, doors
<1>2. Elsewhere(j)
  BY <1>1 DEF Elsewhere
<1>3. \A n \in legs' : n.job = j /\ ~Over(n) => (LeaseInv(n) /\ RowInv(n))'
  <2>1. CASE UNCHANGED <<jobs, rows>>
    BY <1>1, <2>1 DEF Agreement, LeaseInv, OwnsLease, RowInv, RowFits
  <2>2. CASE \A n \in legs : n.job # j
    BY <1>1, <2>2
  <2>3. QED
    BY <2>1, <2>2
<1>4. SweepsInv
  BY DEF TicketInv
<1>5. \A v \in Worker : \/ SweepInv(v)'
                        \/ sweeps'[v] = sweeps[v] /\ sweeps[v].job # j
  OBVIOUS
<1>6. QED
  BY <1>2, <1>3, <1>4, <1>5, AtOneRun

\* One that writes neither.
LEMMA SweepWritesNothing ==
  ASSUME TypeInv, TypeInv', TicketInv, Agreement, NEW w \in Worker, NEW s,
         SweepQuiet, UNCHANGED <<jobs, rows>>, sweeps' = [sweeps EXCEPT ![w] = s],
         SweepInv(w)'
  PROVE  Agreement'
<1>1. UNCHANGED <<intents, continuing, legs, owned, cancels, preparing, alive>>
  BY DEF SweepQuiet, doors
<1>2. \A v \in Worker \ {w} : sweeps'[v] = sweeps[v]
  BY DEF TypeInv, TypeOK
<1>3. \A v \in Worker \ {w} : SweepInv(v)'
  <2> TAKE v \in Worker \ {w}
  <2>1. SweepInv(v)
    BY DEF Agreement
  <2>2. QED
    BY <1>1, <1>2, <2>1 DEF SweepInv
<1>4. \A n \in legs' : ~Over(n) => (LeaseInv(n) /\ RowInv(n))'
  BY <1>1 DEF Agreement, LeaseInv, OwnsLease, RowInv, RowFits
<1>5. \A k \in Job : (AgreeInv(k) /\ CancelInv(k))'
  BY <1>1 DEF Agreement, AgreeInv, CancelInv
<1>6. QED
  BY <1>3, <1>4, <1>5 DEF Agreement

LEMMA SweepAgrees ==
  ASSUME TypeInv, TypeInv', TicketInv, Agreement, NEW w \in Worker,
         SweepOn(w) \/ \E j \in Job : List(w, j)
  PROVE  Agreement'
<1> DEFINE s == sweeps[w]
<1>a. s \in Sweep /\ SweepInv(w) /\ sweeps \in [Worker -> Sweep]
  BY DEF TypeInv, TypeOK, Agreement
<1>b. s.pc # "idle" => s.job \in Job
  BY DEF TicketInv, SweepsInv
<1>c. ASSUME SweepQuiet, UNCHANGED <<jobs, rows>>, SweepEnds(w) PROVE Agreement'
  <2>1. sweeps'[w].pc = "idle"
    BY <1>a, <1>c DEF SweepEnds, NoSweep
  <2>2. SweepInv(w)'
    BY <2>1 DEF SweepInv, Acquired
  <2>3. QED
    BY <1>c, <2>2, SweepWritesNothing DEF SweepEnds
<1>d. ASSUME NEW pc, NEW result, SweepGoto(w, pc, result)
      PROVE  /\ sweeps' = [sweeps EXCEPT ![w] = sweeps'[w]]
             /\ sweeps'[w].pc = pc /\ sweeps'[w].result = result
             /\ sweeps'[w].job = s.job /\ sweeps'[w].attempt = s.attempt
  BY <1>a, <1>d DEF SweepGoto, Sweep
<1>e. ASSUME SweepQuiet, UNCHANGED <<jobs, rows>>, s.pc \in Acquired,
             NEW pc \in Acquired, NEW result, SweepGoto(w, pc, result),
             pc = "settle" =>
               /\ result = "failed" => rows[s.job].status \notin LooksAlive
               /\ result \in Finished => rows[s.job].status = result
               /\ result = "paused" => rows[s.job].status \in {"paused", "cancelled"}
      PROVE  Agreement'
  <2>1. SweepInv(w)'
    BY <1>a, <1>d, <1>e DEF SweepInv, SweepQuiet, doors, Acquired
  <2>2. QED
    BY <1>d, <1>e, <2>1, SweepWritesNothing
<1>f. ASSUME SweepQuiet, UNCHANGED <<jobs, rows>>, s.pc \in Acquired, Unreconciled(w)
      PROVE  Agreement'
  BY <1>c, <1>e, <1>f DEF Unreconciled, Acquired
<1>1. ASSUME NEW j \in Job, List(w, j) PROVE Agreement'
  <2> DEFINE new == [NoSweep EXCEPT !.pc = "listed", !.job = j,
                                    !.attempt = jobs[j].attempt]
  <2>1. /\ new.pc = "listed" /\ new.job = j /\ new.attempt = jobs[j].attempt
        /\ sweeps' = [sweeps EXCEPT ![w] = new]
        /\ UNCHANGED <<jobs, rows>> /\ SweepQuiet
    BY <1>1 DEF List, NoSweep, store
  <2> HIDE DEF new
  <2>2. sweeps'[w] = new
    BY <1>a, <2>1
  <2>3. SweepInv(w)'
    BY <2>1, <2>2 DEF SweepInv, Acquired
  <2>4. QED
    BY <2>1, <2>3, SweepWritesNothing
<1>2. CASE Acquire(w)
  <2>1. CASE SweepEnds(w) /\ UNCHANGED jobs
    BY <1>2, <1>c, <2>1 DEF Acquire
  <2>2. CASE AcquireSweep(w, s.job) /\ SweepGoto(w, "reconcile", "none")
    <3>0. PICK j \in Job : j = s.job
      BY <1>2, <1>b DEF Acquire, SweepStep
    <3>1. /\ j \in Job /\ jobs[j].status = "running" /\ jobs[j].stale /\ s.pc = "listed"
          /\ SweepQuiet /\ UNCHANGED rows
      BY <3>0, <1>2, <1>b, <2>2 DEF Acquire, SweepStep, AcquireSweep, Sweepable
    <3>2. /\ \A n \in legs : n.job # j
          /\ \A v \in Worker : sweeps[v].job = j => sweeps[v].pc \notin Acquired
          /\ j \notin preparing
      BY <3>1, StaleIsAlone
    <3>3. /\ \A k \in Job \ {j} : jobs'[k] = jobs[k]
          /\ jobs'[j].status = "running" /\ jobs'[j].lockedBy = w /\ ~jobs'[j].stale
          /\ jobs'[j].attempt = jobs[j].attempt
      BY <3>0, <2>2, <3>1 DEF AcquireSweep, TypeInv, TypeOK, Ticket
    <3>4. \A v \in Worker \ {w} : sweeps'[v] = sweeps[v]
      BY <1>a, <1>d, <2>2
    <3>5. AgreeInv(j)' /\ CancelInv(j)'
      <4>1. AgreeInv(j) /\ CancelInv(j)
        BY <3>1 DEF Agreement
      <4>2. QED
        BY <3>1, <3>3, <4>1 DEF AgreeInv, CancelInv, SweepQuiet, doors
    <3>6. SweepInv(w)'
      <4>1. s.attempt = jobs[j].attempt
        BY <3>0, <1>a, <3>1 DEF SweepInv
      <4>2. QED
        BY <3>0, <1>d, <2>2, <3>1, <3>2, <3>3, <4>1 DEF SweepInv, SweepQuiet, doors
    <3>7. \A v \in Worker \ {w} : sweeps[v].job = j => SweepInv(v)'
      BY <3>2, <3>3, <3>4 DEF SweepInv, Acquired
    <3>8. QED
      BY <3>1, <3>2, <3>3, <3>4, <3>5, <3>6, <3>7, AgreementBySweep
  <2>3. QED
    BY <1>2, <2>1, <2>2 DEF Acquire
<1>3. CASE Reconcile(w)
  <2>1. /\ s.pc = "reconcile" /\ s.pc \in Acquired
        /\ SweepQuiet /\ UNCHANGED <<jobs, rows>>
    BY <1>3 DEF Reconcile, SweepStep, Acquired, store
  <2>2. CASE Unreconciled(w)
    BY <1>f, <2>1, <2>2
  <2>3. ASSUME NEW status \in Finished \cup {"paused"}, status = rows[s.job].status,
               SweepGoto(w, "settle", status)
        PROVE  Agreement'
    BY <1>e, <2>1, <2>3 DEF Acquired, Finished
  <2>4. QED
    BY <1>3, <2>2, <2>3 DEF Reconcile
<1>4. CASE Deface(w)
  <2>1. /\ s.pc = "deface" /\ s.pc \in Acquired /\ s.job \in Job
        /\ SweepQuiet /\ UNCHANGED jobs
    BY <1>4, <1>b DEF Deface, SweepStep, Acquired
  <2>2. CASE SweepEnds(w) /\ UNCHANGED rows
    BY <1>c, <2>1, <2>2
  <2>3. CASE /\ Persist(s.job, s.attempt, "error")
             /\ IF PersistOutcome(s.job, s.attempt, "error") = "refused"
                THEN sweeps' = [sweeps EXCEPT ![w].pc = "reconcile", ![w].refused = TRUE]
                ELSE SweepGoto(w, "settle", "failed")
    <3>0. PICK j \in Job : j = s.job
      BY <2>1
    <3>1. /\ jobs[j].status = "running" /\ jobs[j].lockedBy = w /\ ~jobs[j].stale
          /\ s.attempt = jobs[j].attempt /\ j \notin preparing
          /\ \A n \in legs : n.job # j
      BY <3>0, <1>a, <2>1 DEF SweepInv
    <3>2. AgreeInv(j) /\ CancelInv(j) /\ s.attempt \in Nat /\ rows \in [Job -> Row]
      BY <1>a, <2>1 DEF Agreement, Sweep, TypeInv, TypeOK
    <3>3. CASE PersistOutcome(j, s.attempt, "error") = "refused"
      <4> DEFINE new == [s EXCEPT !.pc = "reconcile", !.refused = TRUE]
      <4>1. UNCHANGED rows /\ sweeps' = [sweeps EXCEPT ![w] = new]
        BY <3>0, <1>a, <2>3, <3>3 DEF Persist
      <4>2. new.pc = "reconcile" /\ new.job = j /\ new.attempt = s.attempt
        BY <3>0, <1>a DEF Sweep
      <4> HIDE DEF new
      <4>3. sweeps'[w] = new
        BY <3>0, <1>a, <4>1
      <4>4. SweepInv(w)'
        BY <3>0, <2>1, <3>1, <4>1, <4>2, <4>3 DEF SweepInv, SweepQuiet, doors
      <4>5. QED
        BY <2>1, <4>1, <4>4, SweepWritesNothing
    <3>4. CASE PersistOutcome(j, s.attempt, "error") # "refused"
      <4>1. SweepGoto(w, "settle", "failed")
        BY <3>0, <2>3, <3>4
      <4>2. /\ \A k \in Job \ {j} : rows'[k] = rows[k]
            /\ rows'[j].attempt <= jobs[j].attempt
            /\ rows'[j].status \in {"none", "error"}
            /\ rows'[j].status = "none" => rows[j].status = "none"
        <5>1. rows[j].attempt <= s.attempt
          BY <3>1, <3>2 DEF AgreeInv
        <5>2. \/ rows[j].status = "none" /\ rows' = rows
              \/ rows' = [rows EXCEPT ![j] = [status |-> "error", attempt |-> s.attempt]]
          BY <3>0, <2>1, <2>3, <3>2, <3>4, <5>1, PersistDoes
        <5>3. jobs[j].attempt \in Nat
          BY <2>1 DEF TypeInv, TypeOK, Ticket
        <5>4. QED
          BY <2>1, <3>1, <3>2, <5>1, <5>2, <5>3
      <4>3. AgreeInv(j)' /\ CancelInv(j)'
        BY <2>1, <3>1, <3>2, <4>2 DEF AgreeInv, CancelInv, SweepQuiet, doors
      <4>4. SweepInv(w)'
        BY <3>0, <1>d, <2>1, <3>1, <4>1, <4>2
        DEF SweepInv, SweepQuiet, doors, LooksAlive, Finished
      <4>5. \A v \in Worker \ {w} : sweeps'[v] = sweeps[v]
        BY <1>a, <1>d, <4>1
      <4>6. ASSUME NEW v \in Worker \ {w}, sweeps[v].job = j PROVE SweepInv(v)'
        <5>1. SweepInv(v)
          BY DEF Agreement
        <5>2. sweeps[v].pc \notin Acquired
          BY <3>0, <3>1, <4>6, <5>1 DEF SweepInv
        <5>3. QED
          BY <2>1, <4>5, <4>6, <5>1, <5>2 DEF SweepInv, Acquired
      <4>7. j \in Job
        BY <3>0, <2>1
      <4>8. QED
        BY <2>1, <3>1, <4>2, <4>3, <4>4, <4>5, <4>6, <4>7, AgreementBySweep
    <3>5. QED
      BY <3>3, <3>4
  <2>4. QED
    BY <1>4, <2>2, <2>3 DEF Deface
<1>5. CASE SettleSwept(w)
  <2>1. /\ s.pc = "settle" /\ s.pc \in Acquired /\ s.job \in Job
        /\ SweepQuiet /\ UNCHANGED rows
    BY <1>5, <1>b DEF SettleSwept, SweepStep, Acquired
  <2>2. CASE (SweepEnds(w) \/ Unreconciled(w)) /\ UNCHANGED jobs
    BY <1>c, <1>f, <2>1, <2>2
  <2>3. CASE SettleSweptJob(w, s.job, s.result) /\ SweepEnds(w)
    <3>0. PICK j \in Job : j = s.job
      BY <2>1
    <3>1. /\ j \notin preparing /\ \A n \in legs : n.job # j
          /\ jobs[j].lockedBy = w /\ jobs[j].status = "running"
          /\ s.result = "failed" => rows[j].status \notin LooksAlive
          /\ s.result \in Finished => rows[j].status = s.result
          /\ s.result = "paused" => rows[j].status \in {"paused", "cancelled"}
      BY <3>0, <1>a, <2>1 DEF SweepInv
    <3>2. /\ \A k \in Job \ {j} : jobs'[k] = jobs[k]
          /\ jobs'[j].status = s.result /\ ~jobs'[j].stale
          /\ s.result \notin {"running", "absent"}
          /\ jobs'[j].attempt = jobs[j].attempt
      BY <3>0, <2>1, <2>3 DEF SettleSweptJob, Settled, TypeInv, TypeOK, Ticket
    <3>3. AgreeInv(j)' /\ CancelInv(j)'
      <4>1. AgreeInv(j) /\ CancelInv(j)
        BY <2>1 DEF Agreement
      <4>2. QED
        BY <2>1, <3>1, <3>2, <4>1 DEF AgreeInv, CancelInv, SweepQuiet, doors, Finished
    <3>4. \A v \in Worker \ {w} : sweeps'[v] = sweeps[v]
      BY <1>a, <2>3 DEF SweepEnds
    <3>5. ASSUME NEW v \in Worker \ {w}, sweeps[v].job = j PROVE SweepInv(v)'
      <4>1. SweepInv(v)
        BY DEF Agreement
      <4>2. sweeps[v].pc \notin Acquired
        BY <3>0, <3>1, <3>5, <4>1 DEF SweepInv
      <4>3. QED
        BY <3>2, <3>4, <3>5, <4>1, <4>2 DEF SweepInv, Acquired
    <3>6. SweepInv(w)'
      <4>1. sweeps'[w].pc = "idle"
        BY <1>a, <2>3 DEF SweepEnds, NoSweep
      <4>2. QED
        BY <4>1 DEF SweepInv, Acquired
    <3>7. j \in Job
      BY <3>0, <2>1
    <3>8. QED
      BY <2>1, <3>1, <3>2, <3>3, <3>4, <3>5, <3>6, <3>7, AgreementBySweep
  <2>4. QED
    BY <1>5, <2>2, <2>3 DEF SettleSwept
<1>6. QED
  BY <1>1, <1>2, <1>3, <1>4, <1>5 DEF SweepOn

\* A door, or the clock, at one run: the legs and the sweeps stay.
LEMMA AgreementByDoor ==
  ASSUME TypeInv, TypeInv', TicketInv, Agreement, NEW j \in Job,
         UNCHANGED <<legs, owned, sweeps>>,
         \A k \in Job \ {j} :
           /\ jobs'[k] = jobs[k] /\ rows'[k] = rows[k] /\ cancels'[k] = cancels[k]
           /\ k \in continuing' <=> k \in continuing
           /\ k \in preparing' <=> k \in preparing,
         AgreeInv(j)', CancelInv(j)',
         \A n \in legs : n.job = j /\ ~Over(n) => (LeaseInv(n) /\ RowInv(n))',
         \A w \in Worker : sweeps[w].job = j => SweepInv(w)'
  PROVE  Agreement'
<1>1. Elsewhere(j) /\ SweepsInv
  BY DEF Elsewhere, TicketInv
<1>2. \A w \in Worker : \/ SweepInv(w)'
                        \/ sweeps'[w] = sweeps[w] /\ sweeps[w].job # j
  OBVIOUS
<1>3. \A n \in legs' : n.job = j /\ ~Over(n) => (LeaseInv(n) /\ RowInv(n))'
  OBVIOUS
<1>4. QED
  BY <1>1, <1>2, <1>3, AtOneRun

\* A ticket that is not running has neither a leg nor a sweep.
LEMMA RestingIsAlone ==
  ASSUME TicketInv, Agreement, NEW j \in Job, jobs[j].status # "running"
  PROVE  /\ \A n \in legs : n.job = j => Over(n)
         /\ \A w \in Worker : sweeps[w].job = j => sweeps[w].pc \notin Acquired
  BY DEF Agreement, LeaseInv, OwnsLease, SweepInv

\* A door that takes a ticket that does not run to one that does not run either,
\* and leaves the row.
LEMMA AgreementByResting ==
  ASSUME TypeInv, TypeInv', TicketInv, Agreement, NEW j \in Job,
         UNCHANGED <<rows, legs, owned, sweeps>>,
         \A k \in Job \ {j} :
           /\ jobs'[k] = jobs[k] /\ cancels'[k] = cancels[k]
           /\ k \in continuing' <=> k \in continuing
           /\ k \in preparing' <=> k \in preparing,
         jobs[j].status # "running", jobs'[j].status # "running",
         jobs'[j].status = "completed" => jobs[j].status = "completed",
         jobs'[j].stale => jobs[j].stale, jobs'[j].attempt = jobs[j].attempt,
         AgreeInv(j)', cancels'[j] = cancels[j] \/ cancels'[j].pc # "row"
  PROVE  Agreement'
<1>1. /\ \A n \in legs : n.job = j => Over(n)
      /\ \A w \in Worker : sweeps[w].job = j => sweeps[w].pc \notin Acquired
  BY RestingIsAlone
<1>2. \A w \in Worker : sweeps[w].job = j => SweepInv(w)'
  <2> TAKE w \in Worker
  <2>1. SweepInv(w)
    BY DEF Agreement
  <2>2. QED
    BY <1>1, <2>1 DEF SweepInv, Acquired
<1>3. CancelInv(j)'
  <2>1. CancelInv(j)
    BY DEF Agreement
  <2>2. /\ cancels[j].attempt \in Nat /\ jobs[j].attempt \in Nat
        /\ jobs'[j].attempt \in Nat
    BY DEF TypeInv, TypeOK, Cancel, Ticket
  <2>3. QED
    BY <2>1, <2>2 DEF CancelInv
<1>4. \A k \in Job \ {j} : rows'[k] = rows[k]
  OBVIOUS
<1>5. QED
  BY <1>1, <1>2, <1>3, <1>4, AgreementByDoor

\* A step that leaves tickets, rows, legs and sweeps, and may only end a cancel's
\* row write or a prepare.
LEMMA AgreementByRest ==
  ASSUME TypeInv, TypeInv', TicketInv, Agreement,
         UNCHANGED <<jobs, rows, legs, owned, sweeps, continuing>>,
         preparing' \subseteq preparing,
         \A k \in Job : \/ cancels'[k] = cancels[k] \/ cancels'[k].pc # "row"
                        \/ CancelInv(k)'
  PROVE  Agreement'
<1>1. \A n \in legs' : ~Over(n) => (LeaseInv(n) /\ RowInv(n))'
  BY DEF Agreement, LeaseInv, OwnsLease, RowInv
<1>2. \A k \in Job : AgreeInv(k)'
  BY DEF Agreement, AgreeInv
<1>3. \A k \in Job : CancelInv(k)'
  BY DEF Agreement, CancelInv
<1>4. \A w \in Worker : SweepInv(w)'
  BY DEF Agreement, SweepInv
<1>5. QED
  BY <1>1, <1>2, <1>3, <1>4 DEF Agreement

\* The effects of the doors' methods on their ticket.
LEMMA DoorDoes ==
  ASSUME TypeInv, NEW j \in Job
  PROVE  /\ \A created : EnqueueJob(j, created) =>
              /\ \A k \in Job \ {j} : jobs'[k] = jobs[k]
              /\ jobs[j].status = "absent" /\ jobs'[j].status = "queued"
              /\ ~jobs'[j].stale /\ jobs'[j].attempt = 0
         /\ CancelJob(j) =>
              /\ \A k \in Job \ {j} : jobs'[k] = jobs[k]
              /\ jobs[j].status \in {"queued", "paused"}
              /\ jobs'[j].status = "cancelled" /\ jobs'[j].stale = jobs[j].stale
              /\ jobs'[j].attempt = jobs[j].attempt
         /\ RequeueJob(j) =>
              /\ \A k \in Job \ {j} : jobs'[k] = jobs[k]
              /\ jobs[j].status \in {"failed", "cancelled"}
              /\ jobs'[j].status = "queued" /\ ~jobs'[j].stale
              /\ jobs'[j].attempt = jobs[j].attempt
         /\ ContinueJob(j) =>
              /\ \A k \in Job \ {j} : jobs'[k] = jobs[k]
              /\ jobs[j].status = "paused"
              /\ jobs'[j].status = "queued" /\ ~jobs'[j].stale
              /\ jobs'[j].attempt = jobs[j].attempt
         /\ LeaseLapses(j) =>
              /\ \A k \in Job \ {j} : jobs'[k] = jobs[k]
              /\ jobs[j].status = "running" /\ jobs'[j].status = "running"
              /\ ~jobs[j].stale /\ jobs'[j].stale
              /\ jobs'[j].attempt = jobs[j].attempt
              /\ jobs'[j].lockedBy = jobs[j].lockedBy
<1>1. jobs \in [Job -> Ticket] /\ jobs[j] \in Ticket
  BY DEF TypeInv, TypeOK
<1>2. ASSUME NEW created, EnqueueJob(j, created)
      PROVE  /\ \A k \in Job \ {j} : jobs'[k] = jobs[k]
             /\ jobs[j].status = "absent" /\ jobs'[j].status = "queued"
             /\ ~jobs'[j].stale /\ jobs'[j].attempt = 0
  BY <1>1, <1>2 DEF EnqueueJob, NoTicket
<1>3. CancelJob(j) =>
        /\ \A k \in Job \ {j} : jobs'[k] = jobs[k]
        /\ jobs[j].status \in {"queued", "paused"}
        /\ jobs'[j].status = "cancelled" /\ jobs'[j].stale = jobs[j].stale
        /\ jobs'[j].attempt = jobs[j].attempt
  BY <1>1 DEF CancelJob, Ticket
<1>4. ASSUME RequeueJob(j)
      PROVE  /\ \A k \in Job \ {j} : jobs'[k] = jobs[k]
             /\ jobs[j].status \in {"failed", "cancelled"}
             /\ jobs'[j].status = "queued" /\ ~jobs'[j].stale
             /\ jobs'[j].attempt = jobs[j].attempt
  BY <1>1, <1>4 DEF RequeueJob, Granted, Ticket
<1>5. ContinueJob(j) =>
        /\ \A k \in Job \ {j} : jobs'[k] = jobs[k]
        /\ jobs[j].status = "paused"
        /\ jobs'[j].status = "queued" /\ ~jobs'[j].stale
        /\ jobs'[j].attempt = jobs[j].attempt
  BY <1>1 DEF ContinueJob, Granted, Ticket
<1>6. LeaseLapses(j) =>
        /\ \A k \in Job \ {j} : jobs'[k] = jobs[k]
        /\ jobs[j].status = "running" /\ jobs'[j].status = "running"
        /\ ~jobs[j].stale /\ jobs'[j].stale
        /\ jobs'[j].attempt = jobs[j].attempt
        /\ jobs'[j].lockedBy = jobs[j].lockedBy
  BY <1>1 DEF LeaseLapses, Ticket
<1>7. QED
  BY <1>2, <1>3, <1>4, <1>5, <1>6

LEMMA DoorAgrees ==
  ASSUME Orderly, TypeInv, TypeInv', TicketInv, Agreement, NEW j \in Job,
         \/ Enqueue(j) \/ Prepare(j) \/ Continue(j) \/ Requeue(j)
         \/ CancelRead(j) \/ CancelRunRow(j) \/ CancelTombstone(j)
         \/ CancelIntent(j) \/ IntentExpires(j) \/ Lapse(j)
  PROVE  Agreement'
<1>a. UNCHANGED <<legs, owned, sweeps>>
  BY DEF Enqueue, Prepare, Continue, Requeue, CancelRead, CancelRunRow,
         CancelTombstone, CancelIntent, IntentExpires, Lapse, DoorQuiet
<1>b. /\ AgreeInv(j) /\ CancelInv(j)
      /\ cancels \in [Job -> Cancel] /\ rows \in [Job -> Row]
      /\ rows[j].attempt \in Nat /\ jobs[j].attempt \in Nat /\ cancels[j].attempt \in Nat
  BY DEF Agreement, TypeInv, TypeOK, Cancel, Row, Ticket
<1>c. ASSUME NEW pc, CancelGoto(j, pc)
      PROVE  cancels'[j].pc = pc /\ \A k \in Job \ {j} : cancels'[k] = cancels[k]
  BY <1>b, <1>c DEF CancelGoto, Cancel
<1>1. CASE Enqueue(j)
  <2>1. /\ \A k \in Job \ {j} : jobs'[k] = jobs[k]
        /\ jobs[j].status = "absent" /\ jobs'[j].status = "queued"
        /\ ~jobs'[j].stale /\ jobs'[j].attempt = 0
        /\ preparing' = preparing \cup {j}
        /\ UNCHANGED <<rows, intents, continuing, cancels>>
    BY <1>1, DoorDoes DEF Enqueue
  <2>2. jobs[j].attempt = 0 /\ AgreeInv(j)'
    BY <1>b, <2>1 DEF AgreeInv
  <2>3. QED
    BY <1>a, <2>1, <2>2, AgreementByResting
<1>2. CASE Prepare(j)
  <2>1. /\ j \in preparing /\ preparing' = preparing \ {j}
        /\ UNCHANGED <<continuing, cancels>>
    BY <1>2 DEF Prepare
  <2>2. CASE AppendIfAbsent(j) /\ UNCHANGED jobs
    <3>1. /\ \A k \in Job \ {j} : rows'[k] = rows[k]
          /\ rows'[j].attempt = rows[j].attempt
          /\ rows[j].status = "none" => rows'[j].status = "pending"
          /\ rows[j].status # "none" => rows'[j] = rows[j]
      BY <1>b, <2>2 DEF AppendIfAbsent, Row
    <3>2. AgreeInv(j)' /\ CancelInv(j)'
      BY <1>b, <2>1, <2>2, <3>1 DEF AgreeInv, CancelInv, LooksAlive
    <3>3. ASSUME NEW n \in legs, n.job = j, ~Over(n)
          PROVE  (LeaseInv(n) /\ RowInv(n))'
      <4>1. LeaseInv(n) /\ RowInv(n)
        BY <3>3 DEF Agreement
      <4>2. LeaseInv(n)'
        BY <1>a, <2>1, <2>2, <4>1 DEF LeaseInv, OwnsLease
      <4>3. CASE rows[j].status = "none"
        <5>1. n.pc \in {"check", "ensure"}
          BY <3>3, <4>1, <4>3 DEF RowInv, RowFits
        <5>2. QED
          BY <4>2, <5>1 DEF RowInv, RowFits, Stamped
      <4>4. CASE rows[j].status # "none"
        BY <3>1, <3>3, <4>1, <4>2, <4>4 DEF RowInv
      <4>5. QED
        BY <4>3, <4>4
    <3>4. ASSUME NEW w \in Worker, sweeps[w].job = j PROVE SweepInv(w)'
      <4>1. SweepInv(w)
        BY DEF Agreement
      <4>2. QED
        BY <1>a, <2>1, <2>2, <3>4, <4>1 DEF SweepInv, Acquired
    <3>5. QED
      BY <1>a, <2>1, <2>2, <3>1, <3>2, <3>3, <3>4, AgreementByDoor
  <2>3. CASE CancelJob(j) /\ UNCHANGED rows
    <3>1. /\ \A k \in Job \ {j} : jobs'[k] = jobs[k]
          /\ jobs[j].status \in {"queued", "paused"}
          /\ jobs'[j].status = "cancelled" /\ jobs'[j].stale = jobs[j].stale
          /\ jobs'[j].attempt = jobs[j].attempt
      BY <2>3, DoorDoes
    <3>2. AgreeInv(j)'
      BY <1>b, <2>1, <2>3, <3>1 DEF AgreeInv
    <3>3. QED
      BY <1>a, <2>1, <2>3, <3>1, <3>2, AgreementByResting
  <2>4. CASE UNCHANGED store
    BY <1>a, <2>1, <2>4, AgreementByRest DEF store
  <2>5. QED
    BY <1>2, <2>2, <2>3, <2>4 DEF Prepare
<1>3. CASE Continue(j)
  <2>1. /\ \A k \in Job \ {j} : jobs'[k] = jobs[k]
        /\ jobs[j].status = "paused" /\ jobs'[j].status = "queued"
        /\ ~jobs'[j].stale /\ jobs'[j].attempt = jobs[j].attempt
        /\ continuing' = continuing \cup {j} /\ UNCHANGED <<rows, cancels, preparing>>
    BY <1>3, DoorDoes DEF Continue, doors
  <2>2. AgreeInv(j)'
    BY <1>b, <2>1 DEF AgreeInv
  <2>3. QED
    BY <1>a, <2>1, <2>2, AgreementByResting
<1>4. CASE Requeue(j)
  <2>1. /\ \A k \in Job \ {j} : jobs'[k] = jobs[k]
        /\ jobs[j].status \in {"failed", "cancelled"} /\ jobs'[j].status = "queued"
        /\ ~jobs'[j].stale /\ jobs'[j].attempt = jobs[j].attempt
        /\ UNCHANGED <<rows, continuing, cancels, preparing>>
    BY <1>4, DoorDoes DEF Requeue, doors
  <2>2. AgreeInv(j)'
    BY <1>b, <2>1 DEF AgreeInv
  <2>3. QED
    BY <1>a, <2>1, <2>2, AgreementByResting
<1>5. CASE CancelRead(j)
  <2>1. /\ UNCHANGED <<jobs, rows, continuing, preparing>>
        /\ \A k \in Job \ {j} : cancels'[k] = cancels[k]
        /\ cancels'[j] = IF jobs[j].status \in {"queued", "paused"}
                         THEN [pc |-> "row", attempt |-> jobs[j].attempt]
                         ELSE [pc |-> "intent", attempt |-> 0]
    BY <1>5, <1>b DEF CancelRead, store
  <2>2. CancelInv(j)'
    BY <1>b, <2>1 DEF CancelInv
  <2>3. QED
    BY <1>a, <2>1, <2>2, AgreementByRest
<1>6. CASE CancelRunRow(j)
  <2>1. cancels[j].pc = "row" /\ UNCHANGED <<jobs, continuing, preparing>>
    BY <1>6 DEF CancelRunRow
  <2>2. CASE UNCHANGED rows /\ CancelGoto(j, "intent")
    BY <1>a, <1>c, <2>1, <2>2, AgreementByRest
  <2>3. CASE Persist(j, cancels[j].attempt, "cancelled") /\ CancelGoto(j, "ticket")
    <3>1. /\ \A k \in Job \ {j} : rows'[k] = rows[k]
          /\ \/ rows'[j] = rows[j]
             \/ /\ rows'[j] = [status |-> "cancelled", attempt |-> cancels[j].attempt]
                /\ rows[j].status # "none" /\ rows[j].attempt <= cancels[j].attempt
                /\ rows[j].status # "completed"
      BY <1>b, <2>3 DEF Persist, PersistOutcome, Finished
    <3>2. /\ cancels[j].attempt <= jobs[j].attempt
          /\ jobs[j].status \in {"running", "completed"} =>
               cancels[j].attempt < jobs[j].attempt
      BY <1>b, <2>1 DEF CancelInv
    <3>3. AgreeInv(j)'
      BY <1>b, <2>1, <3>1, <3>2 DEF AgreeInv, LooksAlive
    <3>4. CancelInv(j)'
      BY <1>c, <2>3 DEF CancelInv
    <3>5. ASSUME NEW n \in legs, n.job = j, ~Over(n)
          PROVE  (LeaseInv(n) /\ RowInv(n))'
      <4>1. /\ LeaseInv(n) /\ RowInv(n)
            /\ jobs[j].status = "running" /\ jobs[j].attempt = n.attempt
        BY <3>5, LegAlone
      <4>2. LeaseInv(n)'
        BY <1>a, <2>1, <4>1 DEF LeaseInv, OwnsLease
      <4>3. CASE rows'[j] = rows[j]
        BY <3>5, <4>1, <4>2, <4>3 DEF RowInv
      <4>4. CASE /\ rows'[j] = [status |-> "cancelled", attempt |-> cancels[j].attempt]
                 /\ rows[j].status # "none" /\ rows[j].attempt <= cancels[j].attempt
        <5>1. n.pc \notin Stamped
          BY <1>b, <3>2, <3>5, <4>1, <4>4 DEF RowInv, RowFits
        <5>2. rows'[j].status = "cancelled"
          BY <4>4
        <5>3. QED
          BY <3>5, <4>2, <5>1, <5>2 DEF RowInv, RowFits, Stamped, Finished
      <4>5. QED
        BY <3>1, <4>3, <4>4
    <3>6. ASSUME NEW w \in Worker, sweeps[w].job = j PROVE SweepInv(w)'
      <4>1. SweepInv(w)
        BY DEF Agreement
      <4>2. /\ rows'[j].status \in LooksAlive => rows[j].status \in LooksAlive
            /\ rows[j].status \in Finished => rows'[j].status = rows[j].status
            /\ rows[j].status \in {"paused", "cancelled"} =>
                 rows'[j].status \in {"paused", "cancelled"}
        BY <3>1 DEF LooksAlive, Finished
      <4>3. QED
        BY <1>a, <2>1, <3>6, <4>1, <4>2 DEF SweepInv
    <3>7. \A k \in Job \ {j} : cancels'[k] = cancels[k]
      BY <1>c, <2>3
    <3>8. QED
      BY <1>a, <2>1, <3>1, <3>3, <3>4, <3>5, <3>6, <3>7, AgreementByDoor
  <2>4. QED
    BY <1>6, <2>2, <2>3 DEF CancelRunRow
<1>7. CASE CancelTombstone(j)
  <2>1. /\ UNCHANGED <<rows, continuing, preparing>>
        /\ cancels'[j].pc = "intent" /\ \A k \in Job \ {j} : cancels'[k] = cancels[k]
    BY <1>7, <1>c DEF CancelTombstone
  <2>2. CASE UNCHANGED jobs
    BY <1>a, <2>1, <2>2, AgreementByRest
  <2>3. CASE CancelJob(j)
    <3>1. /\ \A k \in Job \ {j} : jobs'[k] = jobs[k]
          /\ jobs[j].status \in {"queued", "paused"}
          /\ jobs'[j].status = "cancelled" /\ jobs'[j].stale = jobs[j].stale
          /\ jobs'[j].attempt = jobs[j].attempt
      BY <2>3, DoorDoes
    <3>2. AgreeInv(j)'
      BY <1>b, <2>1, <3>1 DEF AgreeInv
    <3>3. QED
      BY <1>a, <2>1, <3>1, <3>2, AgreementByResting
  <2>4. QED
    BY <1>7, <2>2, <2>3 DEF CancelTombstone
<1>8. CASE CancelIntent(j) \/ IntentExpires(j)
  <2>1. /\ UNCHANGED <<jobs, rows, continuing, preparing>>
        /\ \A k \in Job : cancels'[k] = cancels[k] \/ cancels'[k].pc # "row"
    BY <1>8, <1>b DEF CancelIntent, IntentExpires, store, doors, NoCancel
  <2>2. QED
    BY <1>a, <2>1, AgreementByRest
<1>9. CASE Lapse(j)
  <2>1. /\ \A k \in Job \ {j} : jobs'[k] = jobs[k]
        /\ jobs[j].status = "running" /\ jobs'[j].status = "running"
        /\ ~jobs[j].stale /\ jobs'[j].stale
        /\ jobs'[j].attempt = jobs[j].attempt
        /\ jobs'[j].lockedBy = jobs[j].lockedBy
        /\ UNCHANGED <<rows, continuing, cancels, preparing>>
    BY <1>9, DoorDoes DEF Lapse, doors
  <2>2. /\ ~Attended(j) /\ j \notin preparing
        /\ \A w \in Worker : sweeps[w].pc = "listed" => sweeps[w].job # j
    BY <1>9 DEF Lapse, Orderly
  <2>3. ASSUME NEW n \in legs, n.job = j PROVE Over(n)
    BY <2>2, <2>3, LegAlone DEF Attended, LeaseInv, OwnsLease
  <2>4. ASSUME NEW w \in Worker, sweeps[w].job = j PROVE SweepInv(w)'
    <3>1. SweepInv(w)
      BY DEF Agreement
    <3>2. sweeps[w].pc \notin Acquired \cup {"listed"}
      BY <2>2, <2>4, <3>1 DEF SweepInv, Attended
    <3>3. QED
      BY <1>a, <3>2 DEF SweepInv, Acquired
  <2>5. AgreeInv(j)' /\ CancelInv(j)'
    BY <1>b, <2>1, <2>2 DEF AgreeInv, CancelInv
  <2>6. QED
    BY <1>a, <2>1, <2>3, <2>4, <2>5, AgreementByDoor
<1>10. QED
  BY <1>1, <1>2, <1>3, <1>4, <1>5, <1>6, <1>7, <1>8, <1>9

LEMMA ClaimAgrees ==
  ASSUME TypeInv, TypeInv', TicketInv, Agreement, NEW w \in Worker, NEW j \in Job,
         Claim(w, j)
  PROVE  Agreement'
<1>1. PICK new :
        /\ new.worker = w /\ new.job = j /\ new.attempt = jobs[j].attempt + 1
        /\ new.fresh <=> j \notin continuing
        /\ new.last <=> jobs[j].attempt + 1 >= jobs[j].maxAttempts
        /\ new.pc = IF j \in continuing THEN "stamp"
                    ELSE IF jobs[j].attempt + 1 > 1 THEN "check" ELSE "ensure"
        /\ ClaimJob(w, j) /\ legs' = legs \cup {new}
        /\ owned' = [owned EXCEPT ![w][j] = jobs[j].attempt + 1]
        /\ UNCHANGED <<rows, continuing, cancels, preparing, sweeps>>
  <2> DEFINE n == [worker |-> w, job |-> j, attempt |-> jobs[j].attempt + 1,
                   fresh |-> j \notin continuing,
                   last |-> jobs[j].attempt + 1 >= jobs[j].maxAttempts,
                   pc |-> IF ~(j \notin continuing) THEN "stamp"
                          ELSE IF jobs[j].attempt + 1 > 1 THEN "check" ELSE "ensure",
                   result |-> "none"]
  <2>1. /\ ClaimJob(w, j) /\ legs' = legs \cup {n}
        /\ owned' = [owned EXCEPT ![w][j] = jobs[j].attempt + 1]
        /\ UNCHANGED <<rows, continuing, cancels, preparing, sweeps>>
    BY DEF Claim, Quiet, doors
  <2>2. /\ n.worker = w /\ n.job = j /\ n.attempt = jobs[j].attempt + 1
        /\ n.fresh <=> j \notin continuing
        /\ n.last <=> jobs[j].attempt + 1 >= jobs[j].maxAttempts
        /\ n.pc = IF j \in continuing THEN "stamp"
                  ELSE IF jobs[j].attempt + 1 > 1 THEN "check" ELSE "ensure"
    OBVIOUS
  <2> HIDE DEF n
  <2>3. QED
    BY <2>1, <2>2
<1>2. /\ jobs \in [Job -> Ticket] /\ owned \in [Worker -> [Job -> Nat]]
      /\ jobs[j].attempt \in Nat /\ AgreeInv(j) /\ CancelInv(j)
      /\ rows[j].attempt \in Nat /\ cancels[j].attempt \in Nat
  BY DEF TypeInv, TypeOK, Ticket, Row, Cancel, Agreement
<1>3. /\ \A k \in Job \ {j} : jobs'[k] = jobs[k]
      /\ jobs'[j].status = "running" /\ jobs'[j].lockedBy = w /\ ~jobs'[j].stale
      /\ jobs'[j].attempt = jobs[j].attempt + 1
      /\ jobs'[j].maxAttempts = jobs[j].maxAttempts
      /\ jobs[j].status = "queued" \/ (jobs[j].status = "running" /\ jobs[j].stale)
  BY <1>1, <1>2 DEF ClaimJob, Candidate, Reclaimable, Claimed, Ticket
<1>4. /\ \A n \in legs : n.job = j => Over(n)
      /\ \A v \in Worker : sweeps[v].job = j => sweeps[v].pc \notin Acquired
  BY <1>3, StaleIsAlone, RestingIsAlone
<1>5. owned'[w][j] = jobs[j].attempt + 1
      /\ \A v \in Worker : \A k \in Job \ {j} : owned'[v][k] = owned[v][k]
  BY <1>1, <1>2
<1>6. Elsewhere(j) /\ SweepsInv
  BY <1>1, <1>3, <1>5 DEF Elsewhere, TicketInv
<1>7. (LeaseInv(new) /\ RowInv(new))'
  <2>1. LeaseInv(new)'
    BY <1>1, <1>2, <1>3, <1>5 DEF LeaseInv, OwnsLease
  <2>2. new.pc \in {"check", "ensure"} \/ (new.pc = "stamp" /\ rows[j].status # "none")
    BY <1>1, <1>2 DEF AgreeInv
  <2>3. RowInv(new)'
    BY <1>1, <2>2 DEF RowInv, RowFits, Stamped
  <2>4. QED
    BY <2>1, <2>3
<1>8. \A n \in legs' : n.job = j /\ ~Over(n) => (LeaseInv(n) /\ RowInv(n))'
  BY <1>1, <1>4, <1>7
<1>9. AgreeInv(j)' /\ CancelInv(j)'
  BY <1>1, <1>2, <1>3 DEF AgreeInv, CancelInv
<1>10. \A v \in Worker : \/ SweepInv(v)'
                         \/ sweeps'[v] = sweeps[v] /\ sweeps[v].job # j
  BY <1>1, <1>3, <1>4 DEF SweepInv, Acquired
<1>11. QED
  BY <1>6, <1>8, <1>9, <1>10, AtOneRun

LEMMA HeartbeatAgrees ==
  ASSUME TypeInv, TypeInv', TicketInv, Agreement, NEW w \in Worker, Heartbeat(w)
  PROVE  Agreement'
<1>1. UNCHANGED <<rows, legs, owned, continuing, cancels, preparing, sweeps>>
  BY DEF Heartbeat, Quiet, doors
<1>2. \A k \in Job : /\ jobs'[k].status = jobs[k].status
                     /\ jobs'[k].lockedBy = jobs[k].lockedBy
                     /\ jobs'[k].attempt = jobs[k].attempt
                     /\ jobs'[k].maxAttempts = jobs[k].maxAttempts
                     /\ jobs'[k].stale => jobs[k].stale
  BY DEF Heartbeat, HeartbeatJobs, TypeInv, TypeOK, Ticket
<1>3. ASSUME NEW n \in legs', ~Over(n) PROVE (LeaseInv(n) /\ RowInv(n))'
  <2>1. n.job \in Job /\ LeaseInv(n) /\ RowInv(n)
    BY <1>1, <1>3, LegAlone
  <2>2. QED
    BY <1>1, <1>2, <2>1 DEF LeaseInv, OwnsLease, RowInv
<1>4. ASSUME NEW k \in Job PROVE (AgreeInv(k) /\ CancelInv(k))'
  <2>1. AgreeInv(k) /\ CancelInv(k)
    BY DEF Agreement
  <2>2. QED
    BY <1>1, <1>2, <2>1 DEF AgreeInv, CancelInv
<1>5. ASSUME NEW v \in Worker PROVE SweepInv(v)'
  <2>1. SweepInv(v) /\ (sweeps[v].pc # "idle" => sweeps[v].job \in Job)
    BY DEF Agreement, TicketInv, SweepsInv
  <2>2. CASE sweeps[v].pc = "idle"
    BY <1>1, <2>2 DEF SweepInv, Acquired
  <2>3. CASE sweeps[v].pc # "idle"
    <3>1. PICK k \in Job : k = sweeps[v].job
      BY <2>1, <2>3
    <3>2. QED
      BY <1>1, <1>2, <2>1, <3>1 DEF SweepInv
  <2>4. QED
    BY <2>2, <2>3
<1>6. QED
  BY <1>3, <1>4, <1>5 DEF Agreement

LEMMA CrashAgrees ==
  ASSUME TypeInv, TypeInv', TicketInv, Agreement, NEW w \in Worker, Crash(w)
  PROVE  Agreement'
<1>1. /\ UNCHANGED <<jobs, rows, continuing, cancels, preparing>>
      /\ legs' = {l \in legs : l.worker # w}
      /\ \A v \in Worker \ {w} : owned'[v] = owned[v] /\ sweeps'[v] = sweeps[v]
      /\ sweeps'[w].pc = "idle"
  BY DEF Crash, NoSweep, store, doors, TypeInv, TypeOK
<1>2. ASSUME NEW n \in legs', ~Over(n) PROVE (LeaseInv(n) /\ RowInv(n))'
  <2>1. n \in legs /\ n.worker \in Worker \ {w} /\ LeaseInv(n) /\ RowInv(n)
    BY <1>1, <1>2, LegAlone
  <2>2. QED
    BY <1>1, <2>1 DEF LeaseInv, OwnsLease, RowInv
<1>3. ASSUME NEW k \in Job PROVE (AgreeInv(k) /\ CancelInv(k))'
  BY <1>1 DEF Agreement, AgreeInv, CancelInv
<1>4. ASSUME NEW v \in Worker PROVE SweepInv(v)'
  <2>1. CASE v = w
    BY <1>1, <2>1 DEF SweepInv, Acquired
  <2>2. CASE v # w
    <3>1. SweepInv(v)
      BY DEF Agreement
    <3>2. QED
      BY <1>1, <2>2, <3>1 DEF SweepInv
  <2>3. QED
    BY <2>1, <2>2
<1>5. QED
  BY <1>2, <1>3, <1>4 DEF Agreement

LEMMA AgreementStep ==
  ASSUME Orderly, TypeInv, TypeInv', TicketInv, Agreement, [Next]_vars
  PROVE  Agreement'
<1>1. CASE UNCHANGED vars
  <2>1. UNCHANGED <<jobs, rows, legs, owned, sweeps, continuing, preparing, cancels>>
    BY <1>1 DEF vars
  <2>2. QED
    BY <2>1, AgreementByRest
<1>2. ASSUME NEW w \in Worker,
             \/ Heartbeat(w) \/ SweepOn(w) \/ Crash(w)
             \/ \E j \in Job : Claim(w, j) \/ List(w, j)
      PROVE  Agreement'
  BY <1>2, ClaimAgrees, HeartbeatAgrees, SweepAgrees, CrashAgrees
<1>3. ASSUME NEW l \in legs, Execute(l) \/ Checkpoint(l) PROVE Agreement'
  BY <1>3, ExecuteAgrees
<1>4. ASSUME NEW j \in Job,
             \/ Enqueue(j) \/ Prepare(j) \/ Continue(j) \/ Requeue(j)
             \/ CancelRead(j) \/ CancelRunRow(j) \/ CancelTombstone(j)
             \/ CancelIntent(j) \/ IntentExpires(j) \/ Lapse(j)
      PROVE  Agreement'
  BY <1>4, DoorAgrees
<1>5. QED
  BY <1>1, <1>2, <1>3, <1>4 DEF Next

LEMMA InitAgrees == Init => TypeInv /\ TicketInv /\ Agreement
<1> SUFFICES ASSUME Init PROVE TicketInv /\ Agreement
  BY TypeInit
<1>1. TicketInv
  BY DEF Init, TicketInv, LegsInv, OwnedInv, SweepsInv, NoSweep
<1>2. \A j \in Job : AgreeInv(j) /\ CancelInv(j)
  BY DEF Init, StoreInit, NoTicket, NoCancel, AgreeInv, CancelInv
<1>3. \A w \in Worker : SweepInv(w)
  BY DEF Init, NoSweep, SweepInv, Acquired
<1>4. QED
  BY <1>1, <1>2, <1>3 DEF Init, Agreement

LEMMA AgreementHolds ==
  ASSUME Orderly
  PROVE  Spec => [](TypeInv /\ TicketInv /\ Agreement)
<1>1. TypeInv /\ TicketInv /\ Agreement /\ [Next]_vars
        => (TypeInv /\ TicketInv /\ Agreement)'
  BY TypeStep, TicketStep, AgreementStep DEF Orderly
<1>2. QED
  BY InitAgrees, <1>1, PTL DEF Spec

\* A completed ticket stands over a COMPLETED row, whatever cancels, sweeps,
\* retries, crashes and failing stores came between the two writes.
THEOREM CompletedAgrees == ASSUME Orderly PROVE Spec => []CompletedIsCompleted
<1>1. Agreement => CompletedIsCompleted
  BY DEF Agreement, AgreeInv, CompletedIsCompleted
<1>2. QED
  BY <1>1, AgreementHolds, PTL

\* A failed ticket leaves pollers no row that looks alive: each of the ways to
\* fail one (a leg's failure, a spent budget, a sweep) writes the row first.
THEOREM FailedShows == ASSUME Orderly PROVE Spec => []FailedIsVisible
<1>1. Agreement => FailedIsVisible
  BY DEF Agreement, AgreeInv, FailedIsVisible, LooksAlive
<1>2. QED
  BY <1>1, AgreementHolds, PTL

\* A paused ticket stands over a row that can be continued, or that a cancel or a
\* finished earlier run explains.
THEOREM PausedAgrees == ASSUME Orderly PROVE Spec => []PausedIsPaused
<1>1. Agreement => PausedIsPaused
  BY DEF Agreement, AgreeInv, PausedIsPaused
<1>2. QED
  BY <1>1, AgreementHolds, PTL

\* The component is not called afresh for a run whose row is finished.
THEOREM LiveRunsExecute == ASSUME Orderly PROVE Spec => []ExecutesLiveRun
<1>1. Agreement => ExecutesLiveRun
  BY DEF Agreement, RowInv, RowFits, ExecutesLiveRun, Over
<1>2. QED
  BY <1>1, AgreementHolds, PTL

\* A step that keeps finished rows as they are.
KeepsFinished ==
  \A k \in Job : rows[k].status \in Finished => rows'[k].status = rows[k].status

LEMMA WritesKeepFinished ==
  ASSUME TypeInv, NEW j \in Job
  PROVE  /\ UNCHANGED rows => KeepsFinished
         /\ AppendIfAbsent(j) => KeepsFinished
         /\ \A attempt, status : Persist(j, attempt, status) => KeepsFinished
<1>1. rows \in [Job -> Row]
  BY DEF TypeInv, TypeOK
<1>2. UNCHANGED rows => KeepsFinished
  BY DEF KeepsFinished
<1>3. ASSUME AppendIfAbsent(j) PROVE KeepsFinished
  BY <1>1, <1>3 DEF AppendIfAbsent, KeepsFinished, Row, Finished
<1>4. ASSUME NEW attempt, NEW status, Persist(j, attempt, status)
      PROVE  KeepsFinished
  <2>1. CASE PersistOutcome(j, attempt, status) = "updated"
    <3>1. rows' = [rows EXCEPT ![j] = [status |-> status, attempt |-> attempt]]
          /\ (rows[j].status \in Finished => status = rows[j].status)
      BY <1>4, <2>1 DEF Persist, PersistOutcome
    <3>2. QED
      BY <1>1, <3>1 DEF KeepsFinished
  <2>2. CASE PersistOutcome(j, attempt, status) # "updated"
    BY <1>2, <1>4, <2>2 DEF Persist
  <2>3. QED
    BY <2>1, <2>2
<1>5. QED
  BY <1>2, <1>3, <1>4

LEMMA LegKeepsFinished ==
  ASSUME TypeInv, TicketInv, Agreement, NEW l \in legs, Execute(l) \/ Checkpoint(l)
  PROVE  KeepsFinished
<1>a. l.job \in Job /\ l.attempt \in Nat /\ rows \in [Job -> Row]
  BY DEF TypeInv, TypeOK, Leg
<1>1. ASSUME NEW status, OwnSave(l, status), l.pc = "exec" PROVE KeepsFinished
  <2>1. owned[l.worker][l.job] > 0
    BY <1>1, LegAlone DEF LeaseInv, Over
  <2>2. (\E attempt : Persist(l.job, attempt, status)) \/ UNCHANGED rows
    BY <1>1, <2>1 DEF OwnSave
  <2>3. QED
    BY <1>a, <2>2, WritesKeepFinished
<1>2. CASE Stamp(l)
  BY <1>2, <1>a DEF Stamp, KeepsFinished, Row
<1>3. CASE Checkpoint(l)
  BY <1>1, <1>3 DEF Checkpoint, LegStep
<1>4. ASSUME NEW result \in Result, Finish(l, result) PROVE KeepsFinished
  BY <1>1, <1>4, <1>a, WritesKeepFinished DEF Finish, LegStep
<1>5. CASE Ensure(l) \/ Running(l) \/ Fail(l) \/ CancelRow(l)
  BY <1>5, <1>a, WritesKeepFinished DEF Ensure, Running, Fail, CancelRow, Leave, store
<1>6. CASE \/ Check(l) \/ NotExecutable(l) \/ Slot(l) \/ Honor(l) \/ Enter(l)
           \/ Return(l) \/ SettleFailed(l) \/ CancelTicket(l)
           \/ \E result \in Result : Interrupt(l, result)
  <2>1. UNCHANGED rows
    BY <1>6 DEF Check, NotExecutable, Slot, Honor, Enter, Return, SettleFailed,
                CancelTicket, Interrupt, Leave, Settle, RetryOrFail, Settling, store
  <2>2. QED
    BY <2>1 DEF KeepsFinished
<1>7. QED
  BY <1>2, <1>3, <1>4, <1>5, <1>6 DEF Execute

LEMMA StepKeepsFinished ==
  ASSUME TypeInv, TicketInv, Agreement, [Next]_vars
  PROVE  KeepsFinished
<1>1. CASE UNCHANGED rows
  BY <1>1 DEF KeepsFinished
<1>2. ASSUME NEW l \in legs, Execute(l) \/ Checkpoint(l) PROVE KeepsFinished
  BY <1>2, LegKeepsFinished
<1>3. ASSUME NEW w \in Worker,
             \/ Heartbeat(w) \/ SweepOn(w) \/ Crash(w)
             \/ \E j \in Job : Claim(w, j) \/ List(w, j)
      PROVE  KeepsFinished
  <2>1. UNCHANGED rows \/ Deface(w)
    BY <1>3 DEF Heartbeat, SweepOn, Crash, Claim, List, Acquire, Reconcile,
                SettleSwept, store
  <2>2. CASE Deface(w)
    <3>1. PICK j \in Job : j = sweeps[w].job
      BY <2>2 DEF Deface, SweepStep, TicketInv, SweepsInv
    <3>2. UNCHANGED rows \/ Persist(j, sweeps[w].attempt, "error")
      BY <2>2, <3>1 DEF Deface
    <3>3. QED
      BY <3>2, WritesKeepFinished
  <2>3. QED
    BY <1>1, <2>1, <2>2
<1>4. ASSUME NEW j \in Job,
             \/ Enqueue(j) \/ Prepare(j) \/ Continue(j) \/ Requeue(j)
             \/ CancelRead(j) \/ CancelRunRow(j) \/ CancelTombstone(j)
             \/ CancelIntent(j) \/ IntentExpires(j) \/ Lapse(j)
      PROVE  KeepsFinished
  <2>1. \/ UNCHANGED rows \/ AppendIfAbsent(j)
        \/ Persist(j, cancels[j].attempt, "cancelled")
    BY <1>4 DEF Enqueue, Prepare, Continue, Requeue, CancelRead, CancelRunRow,
                CancelTombstone, CancelIntent, IntentExpires, Lapse, store
  <2>2. QED
    BY <2>1, WritesKeepFinished
<1>5. QED
  BY <1>1, <1>2, <1>3, <1>4 DEF Next, vars

\* A COMPLETED or CANCELLED row is final: the fenced write refuses every other
\* status, and no leg saves without the attempt it registered.
THEOREM FinishedStays == ASSUME Orderly PROVE Spec => FinishedIsFinal
<1>1. TypeInv /\ TicketInv /\ Agreement /\ [Next]_vars
        => [\A j \in Job : rows[j].status \in Finished
                             => rows'[j].status = rows[j].status]_vars
  BY StepKeepsFinished DEF KeepsFinished
<1>2. QED
  BY <1>1, AgreementHolds, PTL DEF Spec, FinishedIsFinal
=============================================================================
