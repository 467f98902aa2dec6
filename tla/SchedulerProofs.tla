-------------------------- MODULE SchedulerProofs --------------------------
(***************************************************************************)
(* Proofs about Scheduler, for any schedules, pollers, cadences and grace, *)
(* and any bounds.                                                         *)
(***************************************************************************)
EXTENDS Scheduler, TLAPS

\* What an execution always is, besides its type: an idle slot holds no claim,
\* an attempt counts from the first, and a record is settled when the attempt
\* is over.
ExecOK(e) ==
  /\ e \in Exec
  /\ e.pc = "free" => ~e.release
  /\ e.pc = "claimed" => e.attempt = 0
  /\ e.pc = "waiting" => e.attempt < MaxAttempts
  /\ e.run = "running" => e.pc = "calling" \/ e.lost

ExecInv == \A i \in Slot : ExecOK(execs[i])

TypeInv == TypeOK /\ ExecInv

-----------------------------------------------------------------------------
(* Types *)

\* The next firing is behind this second, and there is one unless the schedule
\* is on demand.
LEMMA NextRunLater ==
  ASSUME NEW c \in Cron, now \in Nat
  PROVE  /\ NextRun(c) \in Nat
         /\ c = OnDemand => NextRun(c) = Never
         /\ c # OnDemand => NextRun(c) > now
<1>1. CASE c = OnDemand
  BY <1>1 DEF NextRun, Never
<1>2. CASE c # OnDemand
  <2>1. c \in Nat \ {0}
    BY <1>2, SchedulerAssumption DEF Cron
  <2>2. (now \div c + 1) * c \in Nat /\ (now \div c + 1) * c > now
    BY <2>1
  <2>3. QED
    BY <1>2, <2>2 DEF NextRun
<1>3. QED
  BY <1>1, <1>2

\* An idle slot is a proper one.
LEMMA FreeIsOK == ExecOK(Free)
<1>1. (CHOOSE s \in Schedule : TRUE) \in Schedule
  BY SchedulerAssumption
<1>2. (CHOOSE p \in Poller : TRUE) \in Poller
  BY SchedulerAssumption
<1>3. 0 \in 0 .. MaxAttempts /\ 0 \in Nat /\ OnDemand \in Cron
  BY SchedulerAssumption DEF Cron
<1>4. Free \in Exec
  BY <1>1, <1>2, <1>3 DEF Free, Exec, RunStatus
<1>5. QED
  BY <1>4 DEF ExecOK, Free

\* The environment keeps within its bound.
LEMMA UpsetBounded ==
  ASSUME upsets \in 0 .. MaxUpsets, NEW kind, Upset(kind)
  PROVE  upsets' \in 0 .. MaxUpsets
  BY SchedulerAssumption DEF Upset

LEMMA FaultyBounded ==
  ASSUME upsets \in 0 .. MaxUpsets, NEW fault \in BOOLEAN, Faulty(fault)
  PROVE  upsets' \in 0 .. MaxUpsets
  BY UpsetBounded DEF Faulty

\* The first state is of the right types.
LEMMA InitTypes == Init => TypeInv
<1> SUFFICES ASSUME Init PROVE TypeInv
  OBVIOUS
<1>1. now \in Nat /\ now = 1 /\ now \in 1 .. MaxTime
  BY SchedulerAssumption DEF Init
<1>2. rows \in [Schedule -> Row]
      /\ \A s \in Schedule : rows[s].lockedBy = Nobody /\ rows[s].lockedAt = 0
  <2>1. ASSUME NEW s \in Schedule
        PROVE  rows[s] \in Row /\ rows[s].lockedBy = Nobody /\ rows[s].lockedAt = 0
    <3>1. PICK c \in Period :
            rows[s] = [exists |-> TRUE, enabled |-> TRUE, cron |-> c,
                       next |-> NextRun(c), lockedBy |-> Nobody, lockedAt |-> 0,
                       drifted |-> FALSE]
      BY DEF Init
    <3>2. c \in Cron /\ NextRun(c) \in Nat
      BY <1>1, NextRunLater DEF Cron
    <3>3. QED
      BY <3>1, <3>2 DEF Row
  <2>2. QED
    BY <2>1 DEF Init
<1>3. execs \in [Slot -> Exec] /\ ExecInv
  BY FreeIsOK DEF Init, ExecInv, ExecOK
<1>4. pollers \in [Poller -> {"up", "stopping", "down"}]
  BY DEF Init
<1>5. door \in [Schedule -> SUBSET Edit]
  BY DEF Init
<1>6. last \in [Schedule -> [due : Nat, at : Nat]]
  BY DEF Init, Unclaimed, Never
<1>7. upsets \in 0 .. MaxUpsets
  BY SchedulerAssumption DEF Init
<1>8. QED
  BY <1>1, <1>2, <1>3, <1>4, <1>5, <1>6, <1>7 DEF TypeInv, TypeOK

-----------------------------------------------------------------------------
(* Every step keeps the types *)

\* A step of an execution leaves a proper execution in its slot.
LEMMA StepKeepsExec ==
  ASSUME TypeInv, NEW i \in Slot, Step(i)
  PROVE  \E e : ExecOK(e) /\ execs' = [execs EXCEPT ![i] = e]
<1> USE DEF Becomes
<1>1. ExecOK(execs[i]) /\ execs[i] \in Exec
  BY DEF TypeInv, ExecInv, ExecOK
<1>2. 1 \in 0 .. MaxAttempts
  BY SchedulerAssumption
<1>3. ASSUME StartAttempt(i), execs[i].pc \in {"claimed", "waiting"},
             execs[i].attempt < MaxAttempts
      PROVE  \E e : ExecOK(e) /\ execs' = [execs EXCEPT ![i] = e]
  <2>1. execs[i].attempt + 1 \in 0 .. MaxAttempts
    BY <1>1, <1>3, SchedulerAssumption DEF Exec
  <2>2. PICK fault \in BOOLEAN :
          execs' = [execs EXCEPT ![i] =
            IF fault THEN [execs[i] EXCEPT !.pc = "closing"]
            ELSE [execs[i] EXCEPT !.pc = "calling", !.attempt = @ + 1, !.run = "running"]]
    BY <1>3 DEF StartAttempt
  <2>3. CASE fault
    <3>1. ExecOK([execs[i] EXCEPT !.pc = "closing"])
      BY <1>1, <1>3 DEF ExecOK, Exec
    <3>2. QED
      BY <2>2, <2>3, <3>1
  <2>4. CASE ~fault
    <3>1. ExecOK([execs[i] EXCEPT !.pc = "calling", !.attempt = @ + 1, !.run = "running"])
      BY <1>1, <2>1 DEF ExecOK, Exec, RunStatus
    <3>2. QED
      BY <2>2, <2>4, <3>1
  <2>5. QED
    BY <2>3, <2>4
<1>4. CASE Begin(i)
  BY <1>1, <1>3, <1>4, SchedulerAssumption DEF Begin, ExecOK
<1>5. CASE Refuse(i)
  <2>1. PICK fault \in BOOLEAN :
          execs' = [execs EXCEPT ![i] =
            IF fault THEN [execs[i] EXCEPT !.pc = "closing"]
            ELSE [execs[i] EXCEPT !.pc = "disabling", !.attempt = 1, !.run = "failed"]]
    BY <1>5 DEF Refuse
  <2>2. ExecOK([execs[i] EXCEPT !.pc = "closing"])
    BY <1>1, <1>5 DEF ExecOK, Exec, Refuse
  <2>3. ExecOK([execs[i] EXCEPT !.pc = "disabling", !.attempt = 1, !.run = "failed"])
    BY <1>1, <1>2 DEF ExecOK, Exec, RunStatus
  <2>4. QED
    BY <2>1, <2>2, <2>3
<1>6. CASE DisableDrifted(i)
  <2>1. ExecOK([execs[i] EXCEPT !.pc = "closing"])
    BY <1>1, <1>6 DEF ExecOK, Exec, DisableDrifted
  <2>2. QED
    BY <1>6, <2>1 DEF DisableDrifted
<1>7. ASSUME NEW status \in {"answered", "failed", "cancelled"}, NEW fault \in BOOLEAN,
             NEW pc \in {"waiting", "closing"},
             pc = "waiting" => Retried(i, status)
      PROVE  ExecOK([Recorded(i, status, fault) EXCEPT !.pc = pc])
  BY <1>1, <1>7 DEF ExecOK, Exec, RunStatus, Recorded, Retried
<1>8. CASE \E status \in {"answered", "failed"} : Answer(i, status)
  <2>1. PICK status \in {"answered", "failed"}, fault \in BOOLEAN :
          execs' = [execs EXCEPT ![i] =
            [Recorded(i, status, fault) EXCEPT
               !.pc = IF Retried(i, status) THEN "waiting" ELSE "closing"]]
    BY <1>8 DEF Answer
  <2>2. QED
    BY <1>7, <2>1
<1>9. CASE Retry(i)
  BY <1>1, <1>3, <1>9 DEF Retry, ExecOK
<1>10. CASE Cancelled(i)
  <2>1. PICK fault \in BOOLEAN :
          execs' = [execs EXCEPT ![i] =
            [Recorded(i, "cancelled", fault) EXCEPT !.pc = "closing"]]
    BY <1>10 DEF Cancelled
  <2>2. QED
    BY <1>7, <2>1
<1>11. CASE CronFails(i)
  <2>1. ExecOK([execs[i] EXCEPT !.pc = "uncomputed"])
    BY <1>1, <1>11 DEF ExecOK, Exec, CronFails
  <2>2. QED
    BY <1>11, <2>1 DEF CronFails
<1>12. CASE DisableUnarmed(i)
  <2>1. ExecOK([execs[i] EXCEPT !.pc = "unarmed"])
    BY <1>1, <1>12 DEF ExecOK, Exec, DisableUnarmed
  <2>2. QED
    BY <1>12, <2>1 DEF DisableUnarmed
<1>13. CASE Release(i)
  BY <1>13, FreeIsOK DEF Release
<1>14. QED
  BY <1>4, <1>5, <1>6, <1>8, <1>9, <1>10, <1>11, <1>12, <1>13 DEF Step

\* What a step of an execution does to the rest.
LEMMA StepKeepsRest ==
  ASSUME TypeInv, NEW i \in Slot, Step(i)
  PROVE  /\ upsets' \in 0 .. MaxUpsets
         /\ UNCHANGED <<now, pollers, door>>
         /\ \/ UNCHANGED last
            \/ /\ DisableUnarmed(i) /\ HoldsClaim(i) /\ UNCHANGED rows
               /\ last' = [last EXCEPT ![execs[i].schedule].due = Never]
         /\ \/ UNCHANGED rows
            \/ rows' = [rows EXCEPT ![execs[i].schedule].enabled = FALSE]
            \/ /\ Release(i) /\ HoldsClaim(i) /\ execs[i].release
               /\ \E next \in Nat :
                    rows' = [rows EXCEPT ![execs[i].schedule].lockedBy = Nobody,
                                         ![execs[i].schedule].lockedAt = 0,
                                         ![execs[i].schedule].next = Rearmed(i, next)]
<1>1. upsets \in 0 .. MaxUpsets /\ now \in Nat /\ execs[i].cron \in Cron
  BY DEF TypeInv, TypeOK, Exec
<1>2. ASSUME \E fault \in BOOLEAN : Faulty(fault)
      PROVE  upsets' \in 0 .. MaxUpsets
  BY <1>1, <1>2, FaultyBounded
<1>3. ASSUME StartAttempt(i)
      PROVE  upsets' \in 0 .. MaxUpsets
  BY <1>2, <1>3 DEF StartAttempt
<1>4. CASE Begin(i) \/ Retry(i)
  BY <1>3, <1>4 DEF Begin, Retry
<1>5. CASE Refuse(i) \/ Cancelled(i) \/ \E status \in {"answered", "failed"} : Answer(i, status)
  BY <1>2, <1>5 DEF Refuse, Cancelled, Answer
<1>6. CASE DisableDrifted(i)
  <2>1. upsets' \in 0 .. MaxUpsets
    BY <1>2, <1>6 DEF DisableDrifted
  <2>2. QED
    BY <1>6, <2>1 DEF DisableDrifted, Disabled
<1>7. CASE CronFails(i)
  <2>1. upsets' \in 0 .. MaxUpsets
    BY <1>1, <1>7, UpsetBounded DEF CronFails
  <2>2. QED
    BY <1>7, <2>1 DEF CronFails
<1>8. CASE DisableUnarmed(i)
  <2>1. upsets' \in 0 .. MaxUpsets
    BY <1>2, <1>8 DEF DisableUnarmed
  <2>2. QED
    BY <1>8, <2>1 DEF DisableUnarmed, Disabled
<1>9. CASE Release(i)
  <2> DEFINE s == execs[i].schedule
             next == IF execs[i].pc = "closing" THEN NextRun(execs[i].cron) ELSE Never
  <2>1. next \in Nat
    BY <1>1, NextRunLater DEF Never
  <2>2. PICK fault \in BOOLEAN :
          /\ Faulty(fault)
          /\ rows' = IF fault \/ ~execs[i].release \/ ~HoldsClaim(i) THEN rows
                     ELSE [rows EXCEPT ![s].lockedBy = Nobody, ![s].lockedAt = 0,
                                       ![s].next = Rearmed(i, next)]
    BY <1>9 DEF Release
  <2>3. upsets' \in 0 .. MaxUpsets
    BY <1>2, <2>2
  <2>4. UNCHANGED <<now, pollers, door, last>>
    BY <1>9 DEF Release
  <2>5. QED
    BY <1>9, <2>1, <2>2, <2>3, <2>4
<1>10. QED
  BY <1>4, <1>5, <1>6, <1>7, <1>8, <1>9 DEF Step

\* What a row always is.
RowOK(row) ==
  /\ row \in Row
  /\ row.lockedBy = Nobody <=> row.lockedAt = 0
  /\ row.lockedAt <= now

\* A lock is taken, and it is given back.
LEMMA LockedIsOK ==
  ASSUME now \in 1 .. MaxTime, NEW p \in Poller, NEW row, RowOK(row)
  PROVE  RowOK([row EXCEPT !.lockedBy = p, !.lockedAt = now])
<1> DEFINE r == [row EXCEPT !.lockedBy = p, !.lockedAt = now]
<1>1. p # Nobody /\ now \in Nat \ {0}
  BY NobodyAssumption DEF Nobody
<1>2. r \in Row /\ r.lockedBy = p /\ r.lockedAt = now
  BY <1>1 DEF RowOK, Row
<1>3. QED
  BY <1>1, <1>2 DEF RowOK

LEMMA UnlockedIsOK ==
  ASSUME now \in Nat, NEW row, RowOK(row), NEW next \in Nat,
         NEW exists \in BOOLEAN, NEW enabled \in BOOLEAN
  PROVE  RowOK([row EXCEPT !.exists = exists, !.enabled = enabled, !.next = next,
                           !.lockedBy = Nobody, !.lockedAt = 0])
<1> DEFINE r == [row EXCEPT !.exists = exists, !.enabled = enabled, !.next = next,
                            !.lockedBy = Nobody, !.lockedAt = 0]
<1>1. r \in Row /\ r.lockedBy = Nobody /\ r.lockedAt = 0
  BY DEF RowOK, Row
<1>2. QED
  BY <1>1 DEF RowOK

\* A step that writes one row and leaves the clock alone keeps the rows.
LEMMA OneRowKeeps ==
  ASSUME TypeInv, UNCHANGED now,
         NEW s \in Schedule, NEW row, RowOK(row), rows' = [rows EXCEPT ![s] = row]
  PROVE  /\ rows' \in [Schedule -> Row]
         /\ \A t \in Schedule : RowOK(rows[t])'
  BY DEF TypeInv, TypeOK, RowOK

LEMMA RowsAreOK ==
  ASSUME TypeInv, NEW s \in Schedule
  PROVE  RowOK(rows[s])
  BY DEF TypeInv, TypeOK, RowOK

\* The same for the executions.
LEMMA OneExecKeeps ==
  ASSUME TypeInv, NEW i \in Slot, NEW e, ExecOK(e), execs' = [execs EXCEPT ![i] = e]
  PROVE  execs' \in [Slot -> Exec] /\ ExecInv'
  BY DEF TypeInv, TypeOK, ExecInv, ExecOK

\* A task is spawned into an idle slot.
LEMMA SpawnKeeps ==
  ASSUME TypeInv, NEW i \in Slot, NEW p \in Poller, NEW s \in Schedule,
         NEW lockedAt \in Nat, NEW release \in BOOLEAN, Spawn(i, p, s, lockedAt, release)
  PROVE  execs' \in [Slot -> Exec] /\ ExecInv'
<1> DEFINE e == [Free EXCEPT !.pc = "claimed", !.schedule = s, !.poller = p,
                             !.cron = rows[s].cron, !.lockedAt = lockedAt,
                             !.drifted = rows[s].drifted, !.release = release]
<1>1. rows[s].cron \in Cron /\ rows[s].drifted \in BOOLEAN
  BY DEF TypeInv, TypeOK, Row
<1>2. Free \in Exec /\ Free.attempt = 0 /\ Free.run = "none"
  BY FreeIsOK DEF ExecOK, Free
<1>3. ExecOK(e)
  BY <1>1, <1>2 DEF ExecOK, Exec
<1>4. QED
  BY <1>3, OneExecKeeps DEF Spawn

\* Every action keeps the types and the executions proper.
LEMMA TypeStep == TypeInv /\ [Next]_vars => TypeInv'
<1> SUFFICES ASSUME TypeInv, [Next]_vars PROVE TypeInv'
  OBVIOUS
<1>1. /\ now \in 1 .. MaxTime /\ now \in Nat /\ upsets \in 0 .. MaxUpsets
      /\ rows \in [Schedule -> Row] /\ execs \in [Slot -> Exec]
      /\ pollers \in [Poller -> {"up", "stopping", "down"}]
      /\ door \in [Schedule -> SUBSET Edit]
      /\ last \in [Schedule -> [due : Nat, at : Nat]]
      /\ \A s \in Schedule : RowOK(rows[s])
  BY RowsAreOK DEF TypeInv, TypeOK
<1>2. /\ UNCHANGED rows /\ UNCHANGED now
      => rows' \in [Schedule -> Row] /\ \A s \in Schedule : RowOK(rows[s])'
  BY <1>1 DEF RowOK
<1>3. UNCHANGED execs => execs' \in [Slot -> Exec] /\ ExecInv'
  BY <1>1 DEF TypeInv, ExecInv
<1>4. /\ now' \in 1 .. MaxTime /\ upsets' \in 0 .. MaxUpsets
      /\ rows' \in [Schedule -> Row] /\ (\A s \in Schedule : RowOK(rows[s])')
      /\ execs' \in [Slot -> Exec] /\ ExecInv'
      /\ pollers' \in [Poller -> {"up", "stopping", "down"}]
      /\ door' \in [Schedule -> SUBSET Edit]
      /\ last' \in [Schedule -> [due : Nat, at : Nat]]
      => TypeInv'
  BY DEF TypeInv, TypeOK, RowOK
<1>5. ASSUME NEW p \in Poller, NEW s \in Schedule, NEW i \in Slot, Claim(p, s, i)
      PROVE  TypeInv'
  <2>1. RowOK([rows[s] EXCEPT !.lockedBy = p, !.lockedAt = now])
    BY <1>1, LockedIsOK
  <2>2. rows' \in [Schedule -> Row] /\ \A t \in Schedule : RowOK(rows[t])'
    BY <1>5, <2>1, OneRowKeeps DEF Claim
  <2>3. execs' \in [Slot -> Exec] /\ ExecInv'
    BY <1>1, <1>5, SpawnKeeps DEF Claim
  <2>4. last' \in [Schedule -> [due : Nat, at : Nat]]
    BY <1>1, <1>5 DEF Claim, Row
  <2>5. QED
    BY <1>1, <1>4, <1>5, <2>2, <2>3, <2>4 DEF Claim
<1>6. ASSUME NEW p \in Poller, NEW s \in Schedule, NEW i \in Slot, Trigger(p, s, i)
      PROVE  TypeInv'
  <2>1. execs' \in [Slot -> Exec] /\ ExecInv'
    BY <1>6, SpawnKeeps DEF Trigger
  <2>2. upsets' \in 0 .. MaxUpsets
    BY <1>1, <1>6, UpsetBounded DEF Trigger
  <2>3. QED
    BY <1>1, <1>2, <1>4, <1>6, <2>1, <2>2 DEF Trigger
<1>7. ASSUME NEW i \in Slot, Step(i)
      PROVE  TypeInv'
  <2> DEFINE s == execs[i].schedule
  <2>1. s \in Schedule /\ execs[i].cron \in Cron
    BY <1>1 DEF Exec
  <2>2. execs' \in [Slot -> Exec] /\ ExecInv'
    BY <1>7, StepKeepsExec, OneExecKeeps
  <2>3. /\ upsets' \in 0 .. MaxUpsets /\ UNCHANGED <<now, pollers, door>>
        /\ last' \in [Schedule -> [due : Nat, at : Nat]]
    <3>1. [last EXCEPT ![s].due = Never] \in [Schedule -> [due : Nat, at : Nat]]
      BY <1>1 DEF Never
    <3>2. /\ upsets' \in 0 .. MaxUpsets /\ UNCHANGED <<now, pollers, door>>
          /\ UNCHANGED last \/ last' = [last EXCEPT ![s].due = Never]
      BY <1>7, StepKeepsRest
    <3>3. QED
      BY <1>1, <3>1, <3>2
  <2>4. RowOK([rows[s] EXCEPT !.enabled = FALSE])
    BY <1>1, <2>1 DEF RowOK, Row
  <2>5. ASSUME NEW next \in Nat
        PROVE  RowOK([rows[s] EXCEPT !.lockedBy = Nobody, !.lockedAt = 0,
                                     !.next = Rearmed(i, next)])
    <3>1. Rearmed(i, next) \in Nat
      BY <1>1, <2>1 DEF Rearmed, Never, Row
    <3> DEFINE r == [rows[s] EXCEPT !.lockedBy = Nobody, !.lockedAt = 0,
                                    !.next = Rearmed(i, next)]
    <3>2. r \in Row /\ r.lockedBy = Nobody /\ r.lockedAt = 0
      BY <1>1, <2>1, <3>1 DEF Row
    <3>3. QED
      BY <1>1, <3>2 DEF RowOK
  <2>6. rows' \in [Schedule -> Row] /\ \A t \in Schedule : RowOK(rows[t])'
    <3>1. CASE UNCHANGED rows
      BY <1>2, <2>3, <3>1
    <3>2. CASE rows' = [rows EXCEPT ![s].enabled = FALSE]
      BY <2>1, <2>3, <2>4, <3>2, OneRowKeeps
    <3>3. CASE \E next \in Nat :
                 rows' = [rows EXCEPT ![s].lockedBy = Nobody, ![s].lockedAt = 0,
                                      ![s].next = Rearmed(i, next)]
      <4>1. PICK next \in Nat :
              rows' = [rows EXCEPT ![s] = [rows[s] EXCEPT
                         !.lockedBy = Nobody, !.lockedAt = 0, !.next = Rearmed(i, next)]]
        BY <1>1, <2>1, <3>3
      <4>2. QED
        BY <2>1, <2>3, <2>5, <4>1, OneRowKeeps
    <3>4. QED
      BY <1>7, <3>1, <3>2, <3>3, StepKeepsRest
  <2>7. QED
    BY <1>1, <1>4, <2>2, <2>3, <2>6
<1>8. ASSUME NEW s \in Schedule, NEW edit \in Edit, Reads(s, edit), Opens(s)
      PROVE  TypeInv'
  <2>1. upsets' \in 0 .. MaxUpsets
    BY <1>1, <1>8, UpsetBounded DEF Opens
  <2>2. door' \in [Schedule -> SUBSET Edit]
    BY <1>1, <1>8 DEF Reads
  <2>3. QED
    BY <1>1, <1>2, <1>3, <1>4, <1>8, <2>1, <2>2 DEF Reads
<1>9. ASSUME NEW s \in Schedule, NEW cron \in Cron, Patch(s, cron)
      PROVE  TypeInv'
  <2>1. NextRun(cron) \in Nat /\ rows[s].enabled \in BOOLEAN
    BY <1>1, NextRunLater DEF Row
  <2>2. QED
    BY <1>8, <1>9, <2>1 DEF Patch, Edit
<1>10. ASSUME NEW s \in Schedule, Enable(s) \/ Retime(s)
       PROVE  TypeInv'
  <2>1. NextRun(rows[s].cron) \in Nat /\ rows[s].cron \in Cron /\ rows[s].enabled \in BOOLEAN
    BY <1>1, NextRunLater DEF Row
  <2>2. CASE Enable(s)
    BY <1>8, <2>1, <2>2 DEF Enable, Edit
  <2>3. CASE Retime(s)
    BY <1>8, <2>1, <2>3 DEF Retime, Edit
  <2>4. QED
    BY <1>10, <2>2, <2>3
<1>11. ASSUME NEW s \in Schedule, NEW edit \in door[s], Write(s, edit)
       PROVE  TypeInv'
  <2>1. edit \in Edit
    BY <1>1
  <2>2. RowOK(Edited(rows[s], edit))
    BY <1>1, <2>1 DEF RowOK, Row, Edit, Edited
  <2>3. rows' \in [Schedule -> Row] /\ \A t \in Schedule : RowOK(rows[t])'
    BY <1>2, <1>11, <2>2, OneRowKeeps DEF Write
  <2>4. door' \in [Schedule -> SUBSET Edit] /\ last' \in [Schedule -> [due : Nat, at : Nat]]
    BY <1>1, <1>11 DEF Write, Never
  <2>5. QED
    BY <1>1, <1>3, <1>4, <1>11, <2>3, <2>4 DEF Write
<1>12. ASSUME NEW s \in Schedule, Disable(s)
       PROVE  TypeInv'
  <2>1. upsets' \in 0 .. MaxUpsets
    BY <1>1, <1>12, UpsetBounded DEF Disable, Opens
  <2>2. RowOK([rows[s] EXCEPT !.enabled = FALSE])
    BY <1>1 DEF RowOK, Row
  <2>3. rows' \in [Schedule -> Row] /\ \A t \in Schedule : RowOK(rows[t])'
    BY <1>12, <2>2, OneRowKeeps DEF Disable
  <2>4. QED
    BY <1>1, <1>3, <1>4, <1>12, <2>1, <2>3 DEF Disable
<1>13. ASSUME NEW s \in Schedule, Delete(s)
       PROVE  TypeInv'
  <2>1. upsets' \in 0 .. MaxUpsets
    BY <1>1, <1>13, UpsetBounded DEF Delete, Opens
  <2>2. RowOK([rows[s] EXCEPT !.exists = FALSE, !.enabled = FALSE, !.next = Never,
                              !.lockedBy = Nobody, !.lockedAt = 0])
    BY <1>1, UnlockedIsOK DEF Never
  <2>3. rows' \in [Schedule -> Row] /\ \A t \in Schedule : RowOK(rows[t])'
    BY <1>13, <2>2, OneRowKeeps DEF Delete
  <2>4. ASSUME NEW i \in Slot
        PROVE  ExecOK(execs[i]) /\ ExecOK([execs[i] EXCEPT !.run = "none"])
    BY DEF TypeInv, ExecInv, ExecOK, Exec, RunStatus
  <2>5. execs' \in [Slot -> Exec] /\ ExecInv'
    BY <1>1, <1>13, <2>4 DEF Delete, ExecInv, ExecOK
  <2>6. QED
    BY <1>1, <1>4, <1>13, <2>1, <2>3, <2>5 DEF Delete
<1>14. ASSUME NEW s \in Schedule, Repoint(s)
       PROVE  TypeInv'
  <2>1. upsets' \in 0 .. MaxUpsets
    BY <1>1, <1>14, UpsetBounded DEF Repoint
  <2>2. RowOK([rows[s] EXCEPT !.drifted = ~@])
    BY <1>1 DEF RowOK, Row
  <2>3. rows' \in [Schedule -> Row] /\ \A t \in Schedule : RowOK(rows[t])'
    BY <1>14, <2>2, OneRowKeeps DEF Repoint
  <2>4. QED
    BY <1>1, <1>3, <1>4, <1>14, <2>1, <2>3 DEF Repoint
<1>15. ASSUME NEW p \in Poller, Stop(p) \/ Stopped(p) \/ Start(p)
       PROVE  TypeInv'
  <2>1. upsets' \in 0 .. MaxUpsets
    BY <1>1, <1>15, UpsetBounded DEF Stop, Stopped, Start
  <2>2. QED
    BY <1>1, <1>2, <1>3, <1>4, <1>15, <2>1 DEF Stop, Stopped, Start
<1>16. ASSUME NEW p \in Poller, Crash(p)
       PROVE  TypeInv'
  <2>1. upsets' \in 0 .. MaxUpsets
    BY <1>1, <1>16, UpsetBounded DEF Crash
  <2>2. execs' \in [Slot -> Exec] /\ ExecInv'
    BY <1>1, <1>16, FreeIsOK DEF Crash, TypeInv, ExecInv, ExecOK
  <2>3. QED
    BY <1>1, <1>2, <1>4, <1>16, <2>1, <2>2 DEF Crash
<1>17. CASE Tick
  <2>1. now' \in 1 .. MaxTime /\ now' = now + 1
    BY <1>1, <1>17, SchedulerAssumption DEF Tick
  <2>2. \A s \in Schedule : RowOK(rows[s])'
    BY <1>1, <1>17, <2>1 DEF RowOK, Row, Tick
  <2>3. QED
    BY <1>1, <1>3, <1>4, <1>17, <2>1, <2>2 DEF Tick
<1>18. CASE UNCHANGED vars
  BY <1>1, <1>2, <1>3, <1>4, <1>18 DEF vars
<1>19. QED
  BY <1>5, <1>6, <1>7, <1>9, <1>10, <1>11, <1>12, <1>13, <1>14, <1>15, <1>16, <1>17,
     <1>18 DEF Next

\* Values and locks are of the right kind, locks are never from the future, and
\* an execution makes no attempt more than it may.
THEOREM TypeCorrect == Spec => []TypeOK
<1>1. TypeInv => TypeOK
  BY DEF TypeInv
<1>2. QED
  BY <1>1, InitTypes, TypeStep, PTL DEF Spec

\* No record of an attempt that is over says running, unless its write failed.
THEOREM RecordsSettled == Spec => []RecordsAreSettled
<1>1. TypeInv => RecordsAreSettled
  BY DEF TypeInv, ExecInv, ExecOK, RecordsAreSettled
<1>2. QED
  BY <1>1, InitTypes, TypeStep, PTL DEF Spec
-----------------------------------------------------------------------------
(* The steps, by what they do to locks and firings *)

SameClaim(e, f) ==
  /\ e.release = f.release /\ e.schedule = f.schedule /\ e.poller = f.poller
  /\ e.lockedAt = f.lockedAt /\ e.cron = f.cron

\* A step that takes and gives back no lock, arms no firing and ends no claim
\* but by a crash.
Quiet ==
  /\ now' \in Nat /\ now' >= now
  /\ \A s \in Schedule :
       /\ last'[s].at = last[s].at
       /\ last'[s].due \in {last[s].due, Never}
       /\ rows'[s].exists = rows[s].exists
       /\ rows'[s].lockedBy = rows[s].lockedBy /\ rows'[s].lockedAt = rows[s].lockedAt
       /\ rows'[s].cron = rows[s].cron /\ rows'[s].next = rows[s].next
       /\ rows'[s].enabled => rows[s].enabled
  /\ \A i \in Slot :
       execs'[i].release =>
         /\ SameClaim(execs'[i], execs[i])
         /\ execs'[i].pc = "unarmed" =>
              \/ execs[i].pc = "unarmed"
              \/ rows'[execs[i].schedule].exists => ~rows'[execs[i].schedule].enabled
              \/ HoldsClaim(i) => last'[execs[i].schedule].due = Never

\* An execution keeps its claim until it releases it.
LEMMA StepKeepsClaim ==
  ASSUME TypeInv, NEW i \in Slot, Step(i), ~Release(i)
  PROVE  \E e : /\ execs' = [execs EXCEPT ![i] = e]
                /\ SameClaim(e, execs[i])
                /\ e.pc = "unarmed" => DisableUnarmed(i)
<1> USE DEF Becomes
<1>1. execs[i] \in Exec
  BY DEF TypeInv, TypeOK
<1>2. ASSUME NEW e, e \in {[execs[i] EXCEPT !.pc = "closing"],
                          [execs[i] EXCEPT !.pc = "calling", !.attempt = @ + 1,
                                           !.run = "running"],
                          [execs[i] EXCEPT !.pc = "uncomputed"],
                          [execs[i] EXCEPT !.pc = "disabling", !.attempt = 1,
                                           !.run = "failed"]}
      PROVE  SameClaim(e, execs[i]) /\ e.pc # "unarmed"
  BY <1>1, <1>2 DEF SameClaim, Exec
<1>3. CASE Begin(i) \/ Retry(i)
  <2>1. StartAttempt(i)
    BY <1>3 DEF Begin, Retry
  <2>2. QED
    BY <1>2, <2>1 DEF StartAttempt
<1>4. CASE Refuse(i)
  BY <1>2, <1>4 DEF Refuse
<1>5. CASE DisableDrifted(i)
  BY <1>2, <1>5 DEF DisableDrifted
<1>6. ASSUME NEW status, NEW fault \in BOOLEAN, NEW pc \in {"waiting", "closing"}
      PROVE  /\ SameClaim([Recorded(i, status, fault) EXCEPT !.pc = pc], execs[i])
             /\ [Recorded(i, status, fault) EXCEPT !.pc = pc].pc # "unarmed"
  BY <1>1 DEF SameClaim, Exec, Recorded
<1>7. CASE \E status \in {"answered", "failed"} : Answer(i, status)
  <2>1. PICK status \in {"answered", "failed"}, fault \in BOOLEAN :
          execs' = [execs EXCEPT ![i] =
            [Recorded(i, status, fault) EXCEPT
               !.pc = IF Retried(i, status) THEN "waiting" ELSE "closing"]]
    BY <1>7 DEF Answer
  <2>2. QED
    BY <1>6, <2>1
<1>8. CASE Cancelled(i)
  <2>1. PICK fault \in BOOLEAN :
          execs' = [execs EXCEPT ![i] =
            [Recorded(i, "cancelled", fault) EXCEPT !.pc = "closing"]]
    BY <1>8 DEF Cancelled
  <2>2. QED
    BY <1>6, <2>1
<1>9. CASE CronFails(i)
  BY <1>2, <1>9 DEF CronFails
<1>10. CASE DisableUnarmed(i)
  <2>1. SameClaim([execs[i] EXCEPT !.pc = "unarmed"], execs[i])
    BY <1>1 DEF SameClaim, Exec
  <2>2. QED
    BY <1>10, <2>1 DEF DisableUnarmed
<1>11. QED
  BY <1>3, <1>4, <1>5, <1>7, <1>8, <1>9, <1>10 DEF Step

\* A step claims, releases, deletes, writes an edit, or is quiet.
LEMMA Moves ==
  ASSUME TypeInv, [Next]_vars
  PROVE  \/ \E p \in Poller, s \in Schedule, i \in Slot : Claim(p, s, i)
         \/ \E i \in Slot : Release(i)
         \/ \E s \in Schedule : Delete(s)
         \/ \E s \in Schedule : \E edit \in door[s] : Write(s, edit)
         \/ Quiet
<1>1. /\ now \in Nat /\ rows \in [Schedule -> Row] /\ execs \in [Slot -> Exec]
      /\ \A i \in Slot : ExecOK(execs[i])
      /\ last \in [Schedule -> [due : Nat, at : Nat]]
  BY DEF TypeInv, TypeOK, ExecInv
<1>2. /\ now' \in Nat /\ now' >= now /\ UNCHANGED <<last, rows>>
      /\ \A i \in Slot : \/ execs'[i] = execs[i]
                         \/ ~execs'[i].release
      => Quiet
  BY <1>1 DEF Quiet, SameClaim
<1>3. ASSUME NEW p \in Poller, NEW s \in Schedule, NEW i \in Slot, Trigger(p, s, i)
      PROVE  Quiet
  BY <1>1, <1>2, <1>3, FreeIsOK DEF Trigger, Spawn, ExecOK, Exec
<1>4. ASSUME NEW i \in Slot, Step(i), ~Release(i)
      PROVE  Quiet
  <2> DEFINE s == execs[i].schedule
  <2>1. PICK e : /\ execs' = [execs EXCEPT ![i] = e] /\ SameClaim(e, execs[i])
                 /\ e.pc = "unarmed" => DisableUnarmed(i)
    BY <1>4, StepKeepsClaim
  <2>2. /\ UNCHANGED now
        /\ UNCHANGED last \/ last' = [last EXCEPT ![s].due = Never]
        /\ UNCHANGED rows \/ rows' = [rows EXCEPT ![s].enabled = FALSE]
    BY <1>4, StepKeepsRest
  <2>3. DisableUnarmed(i) =>
          \/ rows'[s].exists => ~rows'[s].enabled
          \/ HoldsClaim(i) => last'[s].due = Never
    BY <1>1 DEF DisableUnarmed, Disabled, Exec, Row
  <2>4. \A t \in Schedule :
          /\ rows'[t].exists = rows[t].exists
          /\ rows'[t].lockedBy = rows[t].lockedBy /\ rows'[t].lockedAt = rows[t].lockedAt
          /\ rows'[t].cron = rows[t].cron /\ rows'[t].next = rows[t].next
          /\ rows'[t].enabled => rows[t].enabled
          /\ last'[t].at = last[t].at /\ last'[t].due \in {last[t].due, Never}
    BY <1>1, <2>2 DEF Row
  <2>5. \A j \in Slot :
          /\ SameClaim(execs'[j], execs[j])
          /\ execs'[j].pc = "unarmed" =>
               \/ execs[j].pc = "unarmed"
               \/ rows'[execs[j].schedule].exists => ~rows'[execs[j].schedule].enabled
               \/ HoldsClaim(j) => last'[execs[j].schedule].due = Never
    BY <1>1, <2>1, <2>3 DEF SameClaim
  <2>6. QED
    BY <1>1, <2>2, <2>4, <2>5 DEF Quiet
<1>5. ASSUME NEW s \in Schedule, Disable(s) \/ Repoint(s)
      PROVE  Quiet
  BY <1>1, <1>5 DEF Disable, Repoint, Quiet, SameClaim, Row
<1>6. ASSUME NEW s \in Schedule, NEW edit, Reads(s, edit)
      PROVE  Quiet
  BY <1>1, <1>2, <1>6 DEF Reads
<1>7. ASSUME NEW p \in Poller, Stop(p) \/ Stopped(p) \/ Start(p)
      PROVE  Quiet
  BY <1>1, <1>2, <1>7 DEF Stop, Stopped, Start
<1>8. ASSUME NEW p \in Poller, Crash(p)
      PROVE  Quiet
  BY <1>1, <1>2, <1>8, FreeIsOK DEF Crash, ExecOK, Free
<1>9. CASE Tick
  BY <1>1, <1>2, <1>9 DEF Tick
<1>10. CASE UNCHANGED vars
  BY <1>1, <1>2, <1>10 DEF vars
<1>11. QED
  BY <1>3, <1>4, <1>5, <1>6, <1>7, <1>8, <1>9, <1>10 DEF Next, Patch, Retime, Enable
-----------------------------------------------------------------------------
(* Locks *)

\* An execution has the lock of its schedule, or its grace had passed when the
\* schedule was claimed again.
LockInv ==
  /\ \A s \in Schedule :
       /\ last[s].at <= now
       /\ rows[s].exists /\ rows[s].lockedBy # Nobody => rows[s].lockedAt = last[s].at
  /\ \A i \in Slot :
       LET s == execs[i].schedule
       IN  execs[i].release =>
             \/ execs[i].lockedAt = last[s].at /\ (rows[s].exists => HoldsClaim(i))
             \/ execs[i].lockedAt + Grace <= last[s].at

\* OverlapOnlyAfterGrace, of executions that have a lock to release.
ClaimsApart ==
  \A i, j \in Slot :
    /\ i # j /\ execs[i].release /\ execs[j].release
    /\ execs[i].schedule = execs[j].schedule
    => \/ execs[i].lockedAt + Grace <= execs[j].lockedAt
       \/ execs[j].lockedAt + Grace <= execs[i].lockedAt

ClaimInv == LockInv /\ ClaimsApart

\* At first nothing is claimed.
LEMMA InitClaims == Init => ClaimInv
<1> SUFFICES ASSUME Init PROVE ClaimInv
  OBVIOUS
<1>1. TypeInv
  BY InitTypes
<1>2. \A i \in Slot : ~execs[i].release
  BY DEF Init, Free
<1>3. \A s \in Schedule : last[s].at <= now /\ rows[s].lockedBy = Nobody
  BY DEF Init, Unclaimed
<1>4. QED
  BY <1>2, <1>3 DEF ClaimInv, LockInv, ClaimsApart

\* A claim finds every earlier execution released or its grace passed; a release
\* unlocks the claim of the execution that makes it.
LEMMA ClaimStep == TypeInv /\ ClaimInv /\ [Next]_vars => ClaimInv'
<1> SUFFICES ASSUME TypeInv, ClaimInv, [Next]_vars PROVE ClaimInv'
  OBVIOUS
<1>1. /\ now \in Nat /\ rows \in [Schedule -> Row] /\ execs \in [Slot -> Exec]
      /\ last \in [Schedule -> [due : Nat, at : Nat]]
      /\ Grace \in Nat \ {0}
      /\ \A i \in Slot : execs[i].schedule \in Schedule /\ execs[i].lockedAt \in Nat
  BY SchedulerAssumption DEF TypeInv, TypeOK, Exec
<1>2. TypeInv'
  BY TypeStep
<1>3. ASSUME NEW p \in Poller, NEW s \in Schedule, NEW i \in Slot, Claim(p, s, i)
      PROVE  ClaimInv'
  <2>1. /\ rows' = [rows EXCEPT ![s].lockedBy = p, ![s].lockedAt = now]
        /\ last' = [last EXCEPT ![s] = [due |-> rows[s].next, at |-> now]]
        /\ UNCHANGED now /\ Claimable(s) /\ rows[s].exists
    BY <1>3 DEF Claim, Claimable, Due
  <2>2. /\ execs' = [execs EXCEPT ![i] = execs'[i]]
        /\ execs'[i].release = TRUE /\ execs'[i].schedule = s
        /\ execs'[i].lockedAt = now /\ execs'[i].poller = p
    BY <1>1, <1>3, FreeIsOK DEF Claim, Spawn, ExecOK, Exec
  <2>3. \A j \in Slot : execs[j].release /\ execs[j].schedule = s
          => execs[j].lockedAt + Grace <= now
    <3>1. rows[s].lockedBy # Nobody =>
            rows[s].lockedAt = last[s].at /\ rows[s].lockedAt + Grace <= now
      BY <2>1 DEF ClaimInv, LockInv, Claimable
    <3>2. \A j \in Slot : execs[j].release /\ execs[j].schedule = s /\ HoldsClaim(j)
            => execs[j].lockedAt = rows[s].lockedAt /\ rows[s].lockedBy # Nobody
      BY <1>1, NobodyAssumption DEF HoldsClaim, Exec, Nobody
    <3>3. QED
      BY <1>1, <2>1, <3>1, <3>2 DEF ClaimInv, LockInv
  <2>4. LockInv'
    <3>1. \A t \in Schedule :
            /\ last'[t].at <= now'
            /\ rows'[t].exists /\ rows'[t].lockedBy # Nobody => rows'[t].lockedAt = last'[t].at
      BY <1>1, <2>1 DEF ClaimInv, LockInv, Row
    <3>2. HoldsClaim(i)' /\ execs'[i].lockedAt = last'[s].at
      BY <1>1, <2>1, <2>2 DEF HoldsClaim, Row
    <3>3. ASSUME NEW j \in Slot, j # i, execs[j].release
          PROVE  LET t == execs[j].schedule
                 IN  \/ /\ execs[j].lockedAt = last'[t].at
                        /\ rows'[t].exists => HoldsClaim(j)'
                     \/ execs[j].lockedAt + Grace <= last'[t].at
      <4>1. CASE execs[j].schedule = s
        BY <1>1, <2>1, <2>3, <3>3, <4>1
      <4>2. CASE execs[j].schedule # s
        BY <1>1, <2>1, <2>2, <3>3, <4>2 DEF ClaimInv, LockInv, HoldsClaim
      <4>3. QED
        BY <4>1, <4>2
    <3>4. QED
      BY <1>1, <2>2, <3>1, <3>2, <3>3 DEF LockInv
  <2>5. ClaimsApart'
    BY <1>1, <2>1, <2>2, <2>3 DEF ClaimInv, ClaimsApart
  <2>6. QED
    BY <2>4, <2>5 DEF ClaimInv
<1>4. ASSUME NEW i \in Slot, Release(i)
      PROVE  ClaimInv'
  <2> DEFINE s == execs[i].schedule
  <2>1. /\ execs' = [execs EXCEPT ![i] = Free] /\ ~Free.release
        /\ UNCHANGED <<now, last>>
    BY <1>4 DEF Release, Becomes, Free
  <2>2. \/ UNCHANGED rows
        \/ /\ execs[i].release /\ HoldsClaim(i)
           /\ \E next : rows' = [rows EXCEPT ![s].lockedBy = Nobody, ![s].lockedAt = 0,
                                             ![s].next = next]
    BY <1>4 DEF Release
  <2>3. ClaimsApart'
    BY <1>1, <2>1 DEF ClaimInv, ClaimsApart
  <2>4. LockInv'
    <3>1. \A t \in Schedule :
            /\ last'[t].at <= now'
            /\ rows'[t].exists /\ rows'[t].lockedBy # Nobody => rows'[t].lockedAt = last'[t].at
      <4>1. ASSUME NEW t \in Schedule
            PROVE  rows'[t] = rows[t] \/ rows'[t].lockedBy = Nobody
        <5>1. ASSUME NEW next, rows' = [rows EXCEPT ![s].lockedBy = Nobody,
                                                    ![s].lockedAt = 0, ![s].next = next]
              PROVE  rows'[t] = rows[t] \/ rows'[t].lockedBy = Nobody
          <6>1. rows[t] \in Row
            BY <1>1
          <6>2. CASE t = s
            BY <1>1, <5>1, <6>1, <6>2 DEF Row
          <6>3. CASE t # s
            BY <1>1, <5>1, <6>3
          <6>4. QED
            BY <6>2, <6>3
        <5>2. QED
          BY <2>2, <5>1
      <4>2. QED
        BY <1>1, <2>1, <4>1 DEF ClaimInv, LockInv
    <3>2. ASSUME NEW j \in Slot, j # i, execs[j].release
          PROVE  LET t == execs[j].schedule
                 IN  \/ /\ execs[j].lockedAt = last[t].at
                        /\ rows'[t].exists => HoldsClaim(j)'
                     \/ execs[j].lockedAt + Grace <= last[t].at
      <4>1. CASE rows'[execs[j].schedule] = rows[execs[j].schedule]
        BY <1>1, <2>1, <3>2, <4>1 DEF ClaimInv, LockInv, HoldsClaim
      <4>2. CASE rows'[execs[j].schedule] # rows[execs[j].schedule]
        <5>1. execs[j].schedule = s /\ execs[i].release /\ HoldsClaim(i)
          BY <1>1, <2>2, <4>2
        <5>2. ~HoldsClaim(j)
          BY <1>1, <3>2, <5>1 DEF ClaimInv, ClaimsApart, HoldsClaim
        <5>3. rows[s].exists
          BY <5>1 DEF HoldsClaim
        <5>4. QED
          BY <3>2, <5>1, <5>2, <5>3 DEF ClaimInv, LockInv
      <4>3. QED
        BY <4>1, <4>2
    <3>3. QED
      BY <1>1, <2>1, <3>1, <3>2 DEF LockInv
  <2>5. QED
    BY <2>3, <2>4 DEF ClaimInv
<1>5. ASSUME NEW s \in Schedule, Delete(s)
      PROVE  ClaimInv'
  <2>1. /\ UNCHANGED <<now, last>>
        /\ ~rows'[s].exists
        /\ \A t \in Schedule \ {s} : rows'[t] = rows[t]
        /\ \A i \in Slot : SameClaim(execs'[i], execs[i])
    BY <1>1, <1>5 DEF Delete, SameClaim, Exec, Row
  <2>2. ClaimsApart'
    BY <1>1, <2>1 DEF ClaimInv, ClaimsApart, SameClaim
  <2>3. LockInv'
    BY <1>1, <2>1 DEF ClaimInv, LockInv, HoldsClaim, SameClaim
  <2>4. QED
    BY <2>2, <2>3 DEF ClaimInv
<1>6. ASSUME NEW s \in Schedule, NEW edit \in door[s], Write(s, edit)
      PROVE  ClaimInv'
  <2>1. /\ UNCHANGED <<now, execs>>
        /\ \A t \in Schedule :
             /\ last'[t].at = last[t].at
             /\ rows'[t].exists = rows[t].exists
             /\ rows'[t].lockedBy = rows[t].lockedBy
             /\ rows'[t].lockedAt = rows[t].lockedAt
    BY <1>1, <1>6 DEF Write, Edited, Row
  <2>2. QED
    BY <1>1, <2>1 DEF ClaimInv, LockInv, ClaimsApart, HoldsClaim
<1>7. CASE Quiet
  <2>1. ClaimsApart'
    BY <1>1, <1>7 DEF ClaimInv, ClaimsApart, Quiet, SameClaim
  <2>2. LockInv'
    BY <1>1, <1>7 DEF ClaimInv, LockInv, HoldsClaim, Quiet, SameClaim
  <2>3. QED
    BY <2>1, <2>2 DEF ClaimInv
<1>8. QED
  BY <1>3, <1>4, <1>5, <1>6, <1>7, Moves

\* Claimed executions of one schedule overlap only behind a lapsed lock.
THEOREM Exclusion == Spec => []OverlapOnlyAfterGrace
<1>1. ClaimInv => OverlapOnlyAfterGrace
  BY DEF ClaimInv, ClaimsApart, OverlapOnlyAfterGrace, Holder
<1>2. QED
  BY <1>1, InitTypes, TypeStep, InitClaims, ClaimStep, PTL DEF Spec

\* A lock is given back by the execution that took it.
THEOREM HolderReleases == Spec => OnlyTheHolderReleases
<1> DEFINE Given(s) ==
             /\ rows[s].lockedBy # Nobody /\ rows'[s].lockedBy = Nobody
             /\ rows'[s].exists
             => \E i \in Slot : /\ execs[i].schedule = s /\ execs[i].release
                                /\ Live(i) /\ execs'[i].pc = "free"
                                /\ execs[i].lockedAt = last[s].at
<1>1. ASSUME TypeInv, ClaimInv, [Next]_vars, NEW s \in Schedule
      PROVE  Given(s)
  <2>1. /\ rows \in [Schedule -> Row] /\ execs \in [Slot -> Exec]
        /\ \A i \in Slot : ExecOK(execs[i])
    BY <1>1 DEF TypeInv, TypeOK, ExecInv
  <2>2. ASSUME NEW p \in Poller, NEW t \in Schedule, NEW i \in Slot, Claim(p, t, i)
        PROVE  Given(s)
    BY <2>1, <2>2, NobodyAssumption DEF Claim, Row, Nobody
  <2>3. ASSUME NEW i \in Slot, Release(i)
        PROVE  Given(s)
    <3>1. execs'[i].pc = "free"
      BY <2>1, <2>3 DEF Release, Becomes, Free
    <3>2. \/ rows'[s] = rows[s]
          \/ /\ execs[i].schedule = s /\ execs[i].release /\ HoldsClaim(i)
      BY <2>1, <2>3 DEF Release
    <3>3. execs[i].schedule = s /\ HoldsClaim(i) /\ rows[s].lockedBy # Nobody
          => execs[i].lockedAt = last[s].at
      BY <1>1 DEF ClaimInv, LockInv, HoldsClaim
    <3>4. Live(i)
      BY <2>3 DEF Release, Live
    <3>5. QED
      BY <3>1, <3>2, <3>3, <3>4
  <2>4. ASSUME NEW t \in Schedule, Delete(t)
        PROVE  Given(s)
    BY <2>1, <2>4 DEF Delete, Row
  <2>5. ASSUME NEW t \in Schedule, NEW edit \in door[t], Write(t, edit)
        PROVE  Given(s)
    BY <2>1, <2>5 DEF Write, Edited, Row
  <2>6. CASE Quiet
    BY <2>6 DEF Quiet
  <2>7. QED
    BY <1>1, <2>2, <2>3, <2>4, <2>5, <2>6, Moves
<1>2. TypeInv /\ ClaimInv /\ [Next]_vars => [\A s \in Schedule : Given(s)]_vars
  BY <1>1
<1>3. QED
  BY <1>2, InitTypes, TypeStep, InitClaims, ClaimStep, PTL DEF Spec, OnlyTheHolderReleases
-----------------------------------------------------------------------------
(* Edits *)

\* An edit that has no cadence, of its own or read, arms nothing.
EditInv ==
  \A s \in Schedule : \A edit \in door[s] :
    edit.cron = OnDemand => edit.next = Never

\* Every edit is computed by the door that read the schedule.
LEMMA EditStep == TypeInv /\ EditInv /\ [Next]_vars => EditInv'
<1> SUFFICES ASSUME TypeInv, EditInv, [Next]_vars PROVE EditInv'
  OBVIOUS
<1>1. door \in [Schedule -> SUBSET Edit] /\ now \in Nat
  BY DEF TypeInv, TypeOK
<1>2. UNCHANGED door => EditInv'
  BY DEF EditInv
<1>3. ASSUME NEW s \in Schedule, NEW cron \in Cron, Patch(s, cron)
      PROVE  EditInv'
  BY <1>1, <1>3, NextRunLater DEF Patch, Reads, EditInv
<1>4. ASSUME NEW s \in Schedule, Enable(s) \/ Retime(s)
      PROVE  EditInv'
  <2>1. rows[s].cron \in Cron
    BY DEF TypeInv, TypeOK, Row
  <2>2. rows[s].cron = OnDemand => NextRun(rows[s].cron) = Never
    BY <1>1, <2>1, NextRunLater
  <2>3. QED
    BY <1>1, <1>4, <2>2 DEF Enable, Retime, Reads, EditInv
<1>5. ASSUME NEW s \in Schedule, NEW edit \in door[s], Write(s, edit)
      PROVE  EditInv'
  BY <1>1, <1>5 DEF Write, EditInv
<1>6. ASSUME NEW i \in Slot, Step(i)
      PROVE  EditInv'
  BY <1>2, <1>6, StepKeepsRest
<1>7. QED
  BY <1>2, <1>3, <1>4, <1>5, <1>6
     DEF Next, Claim, Trigger, Disable, Delete, Repoint, Stop, Stopped, Start, Crash, Tick, vars

\* An execution leaves a schedule unarmed whose cron was cleared while it ran.
THEOREM OnDemandStays == Spec => OnDemandIsNotRearmed
<1> DEFINE Kept(s) ==
             /\ rows'[s].cron = OnDemand
             /\ rows'[s].next \notin {rows[s].next, Never}
             => \E edit \in door[s] \ door'[s] :
                  edit.kind # "patch" /\ edit.cron # OnDemand
<1>1. ASSUME TypeInv, EditInv, [Next]_vars, NEW s \in Schedule
      PROVE  Kept(s)
  <2>1. /\ rows \in [Schedule -> Row] /\ execs \in [Slot -> Exec]
        /\ door \in [Schedule -> SUBSET Edit]
    BY <1>1 DEF TypeInv, TypeOK
  <2>2. ASSUME NEW p \in Poller, NEW t \in Schedule, NEW i \in Slot, Claim(p, t, i)
        PROVE  Kept(s)
    BY <2>1, <2>2 DEF Claim, Row
  <2>3. ASSUME NEW i \in Slot, Release(i)
        PROVE  Kept(s)
    BY <2>1, <2>3 DEF Release, Rearmed, Row, Exec
  <2>4. ASSUME NEW t \in Schedule, Delete(t)
        PROVE  Kept(s)
    BY <2>1, <2>4 DEF Delete, Row
  <2>5. ASSUME NEW t \in Schedule, NEW edit \in door[t], Write(t, edit)
        PROVE  Kept(s)
    <3>1. CASE rows'[s] = rows[s]
      BY <3>1
    <3>2. CASE rows'[s] # rows[s]
      <4>1. /\ t = s /\ rows'[s] = Edited(rows[s], edit)
            /\ edit \in door[s] \ door'[s] /\ edit \in Edit
        BY <2>1, <2>5, <3>2 DEF Write
      <4>2. rows'[s].next \in {rows[s].next, edit.next}
        BY <2>1, <4>1 DEF Edited, Row
      <4>3. edit.kind = "patch" => rows'[s].cron = edit.cron
        BY <2>1, <4>1 DEF Edited, Row
      <4>4. QED
        BY <1>1, <4>1, <4>2, <4>3 DEF EditInv
    <3>3. QED
      BY <3>1, <3>2
  <2>6. CASE Quiet
    BY <2>6 DEF Quiet
  <2>7. QED
    BY <1>1, <2>2, <2>3, <2>4, <2>5, <2>6, Moves
<1>2. TypeInv /\ EditInv /\ [Next]_vars => [\A s \in Schedule : Kept(s)]_vars
  BY <1>1
<1>3. Init => EditInv
  BY DEF Init, EditInv
<1>4. QED
  BY <1>2, <1>3, InitTypes, TypeStep, EditStep, PTL DEF Spec, OnDemandIsNotRearmed

-----------------------------------------------------------------------------
(* Firings *)

\* A firing that was claimed is not armed any more once the lock is given back,
\* and the execution that will give it back has the cadence it arms by.
FiringInv ==
  /\ \A s \in Schedule :
       /\ last[s].due <= now
       /\ rows[s].exists /\ rows[s].enabled
          /\ last[s].due # Never /\ rows[s].next = last[s].due
          => rows[s].lockedBy # Nobody
  /\ \A i \in Slot :
       LET s == execs[i].schedule
       IN  execs[i].release /\ HoldsClaim(i) /\ last[s].due # Never
           => /\ rows[s].cron = execs[i].cron
              /\ execs[i].pc = "unarmed" => ~rows[s].enabled

\* A release arms a later firing, or none, or a disabled schedule.
LEMMA FiringStep ==
  TypeInv /\ ClaimInv /\ FiringInv /\ [Next]_vars => FiringInv'
<1> SUFFICES ASSUME TypeInv, ClaimInv, FiringInv, [Next]_vars PROVE FiringInv'
  OBVIOUS
<1>1. /\ now \in Nat /\ rows \in [Schedule -> Row] /\ execs \in [Slot -> Exec]
      /\ last \in [Schedule -> [due : Nat, at : Nat]]
      /\ Grace \in Nat \ {0}
      /\ \A i \in Slot : execs[i].schedule \in Schedule /\ execs[i].lockedAt \in Nat
                         /\ execs[i].cron \in Cron
  BY SchedulerAssumption DEF TypeInv, TypeOK, Exec
<1>2. ClaimInv'
  BY ClaimStep
<1>3. ASSUME NEW p \in Poller, NEW s \in Schedule, NEW i \in Slot, Claim(p, s, i)
      PROVE  FiringInv'
  <2>1. /\ rows' = [rows EXCEPT ![s].lockedBy = p, ![s].lockedAt = now]
        /\ last' = [last EXCEPT ![s] = [due |-> rows[s].next, at |-> now]]
        /\ UNCHANGED now /\ rows[s].next <= now
    BY <1>3 DEF Claim, Claimable, Due
  <2>2. /\ execs' = [execs EXCEPT ![i] = execs'[i]]
        /\ execs'[i].release = TRUE /\ execs'[i].schedule = s
        /\ execs'[i].lockedAt = now /\ execs'[i].cron = rows[s].cron
        /\ execs'[i].pc = "claimed"
    BY <1>1, <1>3, FreeIsOK DEF Claim, Spawn, ExecOK, Exec
  <2>3. rows'[s].lockedBy = p /\ p # Nobody /\ rows'[s].lockedAt = now
        /\ rows'[s].cron = rows[s].cron
    BY <1>1, <2>1, NobodyAssumption DEF Row, Nobody
  <2>4. \A t \in Schedule \ {s} : rows'[t] = rows[t] /\ last'[t] = last[t]
    BY <1>1, <2>1
  <2>5. last'[s].due = rows[s].next
    BY <1>1, <2>1
  <2>6. ASSUME NEW j \in Slot, j # i, execs[j].release, execs[j].schedule = s
        PROVE  ~HoldsClaim(j)'
    <3>1. execs'[j] = execs[j]
      BY <1>1, <2>2, <2>6
    <3>2. execs[j].lockedAt # now
      BY <1>1, <1>2, <2>2, <2>6, <3>1 DEF ClaimInv, ClaimsApart
    <3>3. QED
      BY <2>3, <2>6, <3>1, <3>2 DEF HoldsClaim
  <2>7. ASSUME NEW j \in Slot, j # i, execs[j].release, execs[j].schedule # s,
               HoldsClaim(j)'
        PROVE  HoldsClaim(j) /\ execs'[j] = execs[j]
    BY <1>1, <2>2, <2>4, <2>7 DEF HoldsClaim
  <2>8. QED
    BY <1>1, <2>1, <2>2, <2>3, <2>4, <2>5, <2>6, <2>7 DEF FiringInv
<1>4. ASSUME NEW i \in Slot, Release(i)
      PROVE  FiringInv'
  <2> DEFINE s == execs[i].schedule
             next == IF execs[i].pc = "closing" THEN NextRun(execs[i].cron) ELSE Never
  <2>1. /\ execs' = [execs EXCEPT ![i] = Free] /\ ~Free.release
        /\ UNCHANGED <<now, last>> /\ execs[i].pc \in {"closing", "unarmed"}
    BY <1>4 DEF Release, Becomes, Free
  <2>2. \/ UNCHANGED rows
        \/ /\ execs[i].release /\ HoldsClaim(i)
           /\ rows' = [rows EXCEPT ![s] = [rows[s] EXCEPT !.lockedBy = Nobody,
                         !.lockedAt = 0, !.next = Rearmed(i, next)]]
    BY <1>1, <1>4 DEF Release
  <2>3. CASE UNCHANGED rows
    BY <1>1, <2>1, <2>3 DEF FiringInv, HoldsClaim
  <2>4. CASE /\ execs[i].release /\ HoldsClaim(i)
             /\ rows' = [rows EXCEPT ![s] = [rows[s] EXCEPT !.lockedBy = Nobody,
                           !.lockedAt = 0, !.next = Rearmed(i, next)]]
    <3>1. /\ \A t \in Schedule \ {s} : rows'[t] = rows[t]
          /\ rows'[s].lockedBy = Nobody /\ rows'[s].next = Rearmed(i, next)
          /\ rows'[s].enabled = rows[s].enabled /\ rows'[s].exists = rows[s].exists
          /\ rows'[s].cron = rows[s].cron
      BY <1>1, <2>4 DEF Row
    <3>2. rows[s].enabled /\ last[s].due # Never => rows'[s].next # last[s].due
      <4> SUFFICES ASSUME rows[s].enabled, last[s].due # Never
                   PROVE  rows'[s].next # last[s].due
        OBVIOUS
      <4>1. /\ rows[s].cron = execs[i].cron /\ execs[i].pc = "closing"
            /\ last[s].due <= now
        BY <1>1, <2>1, <2>4 DEF FiringInv
      <4>2. CASE execs[i].cron = OnDemand
        BY <3>1, <4>1, <4>2 DEF Rearmed
      <4>3. CASE execs[i].cron # OnDemand
        <5>1. NextRun(execs[i].cron) > now /\ NextRun(execs[i].cron) \in Nat
          BY <1>1, <4>3, NextRunLater
        <5>2. Rearmed(i, next) = NextRun(execs[i].cron)
          BY <1>1, <4>1, <4>3, <5>1 DEF Rearmed, Never
        <5>3. QED
          BY <1>1, <3>1, <4>1, <5>1, <5>2
      <4>4. QED
        BY <4>2, <4>3
    <3>3. ASSUME NEW j \in Slot, j # i, execs[j].release, HoldsClaim(j)'
          PROVE  HoldsClaim(j) /\ execs'[j] = execs[j] /\ execs[j].schedule # s
      <4>1. execs'[j] = execs[j]
        BY <1>1, <2>1, <3>3
      <4>2. execs[j].poller # Nobody
        BY <1>1, NobodyAssumption DEF Exec, Nobody
      <4>3. QED
        BY <1>1, <3>1, <3>3, <4>1, <4>2 DEF HoldsClaim
    <3>4. QED
      BY <1>1, <2>1, <3>1, <3>2, <3>3 DEF FiringInv
  <2>5. QED
    BY <2>2, <2>3, <2>4
<1>5. ASSUME NEW s \in Schedule, Delete(s)
      PROVE  FiringInv'
  <2>1. /\ UNCHANGED <<now, last>>
        /\ ~rows'[s].exists
        /\ \A t \in Schedule \ {s} : rows'[t] = rows[t]
        /\ \A i \in Slot : SameClaim(execs'[i], execs[i]) /\ execs'[i].pc = execs[i].pc
    BY <1>1, <1>5 DEF Delete, SameClaim, Exec, Row
  <2>2. QED
    BY <1>1, <2>1 DEF FiringInv, HoldsClaim, SameClaim
<1>6. ASSUME NEW s \in Schedule, NEW edit \in door[s], Write(s, edit)
      PROVE  FiringInv'
  <2>1. /\ UNCHANGED <<now, execs>> /\ last'[s].due = Never
        /\ \A t \in Schedule \ {s} : rows'[t] = rows[t] /\ last'[t] = last[t]
    BY <1>1, <1>6 DEF Write
  <2>2. QED
    BY <1>1, <2>1 DEF FiringInv, HoldsClaim, Never
<1>7. CASE Quiet
  <2>1. \A i \in Slot : execs'[i].release /\ HoldsClaim(i)' => execs[i].release /\ HoldsClaim(i)
    BY <1>1, <1>7 DEF Quiet, SameClaim, HoldsClaim
  <2>2. ASSUME NEW s \in Schedule
        PROVE  /\ last'[s].due <= now'
               /\ rows'[s].exists /\ rows'[s].enabled
                  /\ last'[s].due # Never /\ rows'[s].next = last'[s].due
                  => rows'[s].lockedBy # Nobody
    BY <1>1, <1>7 DEF FiringInv, Quiet, Never
  <2>3. ASSUME NEW i \in Slot, execs'[i].release, HoldsClaim(i)',
               last'[execs'[i].schedule].due # Never
        PROVE  LET s == execs'[i].schedule
               IN  /\ rows'[s].cron = execs'[i].cron
                   /\ execs'[i].pc = "unarmed" => ~rows'[s].enabled
    <3>1. /\ execs'[i].schedule = execs[i].schedule /\ execs'[i].cron = execs[i].cron
          /\ execs[i].schedule \in Schedule /\ rows'[execs[i].schedule].exists
      BY <1>1, <1>7, <2>3 DEF Quiet, SameClaim, HoldsClaim
    <3>2. HoldsClaim(i) /\ execs[i].release /\ last[execs[i].schedule].due # Never
      BY <1>7, <2>1, <2>3, <3>1 DEF Quiet
    <3>3. /\ rows[execs[i].schedule].cron = execs[i].cron
          /\ execs[i].pc = "unarmed" => ~rows[execs[i].schedule].enabled
      BY <3>1, <3>2 DEF FiringInv
    <3>4. rows'[execs[i].schedule].enabled => rows[execs[i].schedule].enabled
      BY <1>7, <3>1 DEF Quiet
    <3>5. execs'[i].pc = "unarmed" =>
            \/ execs[i].pc = "unarmed"
            \/ ~rows'[execs[i].schedule].enabled
      BY <1>7, <2>3, <3>1, <3>2 DEF Quiet
    <3>6. rows'[execs[i].schedule].cron = rows[execs[i].schedule].cron
      BY <1>7, <3>1 DEF Quiet
    <3>7. QED
      BY <3>1, <3>3, <3>4, <3>5, <3>6
  <2>4. QED
    BY <2>2, <2>3 DEF FiringInv
<1>8. QED
  BY <1>3, <1>4, <1>5, <1>6, <1>7, Moves

\* A firing is claimed a second time only behind a lock that has lapsed.
THEOREM FiringsClaimedOnce == Spec => OneClaimPerFiring
<1> DEFINE Once(i) ==
             LET s == execs'[i].schedule
             IN  /\ ~Live(i) /\ execs'[i].release
                 /\ last[s].due # Never /\ rows[s].next = last[s].due
                 => last[s].at + Grace <= now
<1>1. ASSUME TypeInv, ClaimInv, FiringInv, [Next]_vars, NEW i \in Slot
      PROVE  Once(i)
  <2>1. /\ execs \in [Slot -> Exec] /\ \A j \in Slot : ExecOK(execs[j])
    BY <1>1 DEF TypeInv, TypeOK, ExecInv
  <2>2. ~Live(i) => ~execs[i].release
    BY <2>1 DEF Live, ExecOK
  <2>3. ASSUME NEW p \in Poller, NEW s \in Schedule, NEW j \in Slot, Claim(p, s, j)
        PROVE  Once(i)
    <3>1. CASE i # j
      BY <2>1, <2>2, <2>3, <3>1 DEF Claim, Spawn
    <3>2. CASE i = j
      <4>1. execs'[i].schedule = s
        BY <2>1, <2>3, <3>2, FreeIsOK DEF Claim, Spawn, ExecOK, Exec
      <4>2. rows[s].exists /\ rows[s].enabled
            /\ (rows[s].lockedBy # Nobody => rows[s].lockedAt + Grace <= now)
        BY <2>3 DEF Claim, Claimable, Due
      <4>3. QED
        BY <1>1, <4>1, <4>2 DEF FiringInv, ClaimInv, LockInv
    <3>3. QED
      BY <3>1, <3>2
  <2>4. ASSUME NEW j \in Slot, Release(j)
        PROVE  Once(i)
    BY <2>1, <2>2, <2>4 DEF Release, Becomes, Free
  <2>5. ASSUME NEW s \in Schedule, Delete(s)
        PROVE  Once(i)
    BY <2>1, <2>2, <2>5 DEF Delete, Exec
  <2>6. ASSUME NEW s \in Schedule, NEW edit \in door[s], Write(s, edit)
        PROVE  Once(i)
    BY <2>2, <2>6 DEF Write
  <2>7. CASE Quiet
    BY <2>2, <2>7 DEF Quiet, SameClaim
  <2>8. QED
    BY <1>1, <2>3, <2>4, <2>5, <2>6, <2>7, Moves
<1>2. TypeInv /\ ClaimInv /\ FiringInv /\ [Next]_vars => [\A i \in Slot : Once(i)]_vars
  BY <1>1
<1>3. Init => FiringInv
  <2> SUFFICES ASSUME Init PROVE FiringInv
    OBVIOUS
  <2>1. (\A s \in Schedule : last[s].due = Never) /\ now = 1
        /\ \A i \in Slot : ~execs[i].release
    BY DEF Init, Unclaimed, Free
  <2>2. QED
    BY <2>1 DEF FiringInv, Never
<1>4. QED
  BY <1>2, <1>3, InitTypes, TypeStep, InitClaims, ClaimStep, FiringStep, PTL
     DEF Spec, OneClaimPerFiring
=============================================================================
