--------------------------- MODULE PollLoopProofs ---------------------------
(***************************************************************************)
(* Proofs about PollLoop, for any set of tickets, any cap and any budget.  *)
(***************************************************************************)
EXTENDS PollLoop, JobStoreProofs

-----------------------------------------------------------------------------
(* Types *)

TypeInv == TypeOK /\ StoreTypeOK

\* Every step leaves the store typed.
LEMMA StoreStep == TypeInv /\ [Next]_vars => StoreTypeOK'
<1> SUFFICES ASSUME TypeInv, [Next]_vars PROVE StoreTypeOK'
  OBVIOUS
<1>a. Self \in Worker /\ StoreTypeOK /\ tasks \in SUBSET Task /\ swept \in Job \cup {NoJob}
  BY LoopAssumption DEF TypeInv, TypeOK
<1>b. jobs' = jobs => StoreTypeOK'
  BY <1>a DEF StoreTypeOK
<1>1. CASE UNCHANGED vars
  BY <1>b, <1>1 DEF vars
<1>2. ASSUME NEW j \in Job, SweepNext(j) PROVE StoreTypeOK'
  BY <1>a, <1>b, <1>2, MethodsKeepTypes DEF SweepNext
<1>3. CASE SweepDone
  <2>1. swept \in Job
    BY <1>3, <1>a DEF SweepDone
  <2>2. QED
    BY <1>3, <1>a, <1>b, <2>1, MethodsKeepTypes DEF SweepDone
<1>4. ASSUME NEW j \in Job, StoreClaims(j) PROVE StoreTypeOK'
  BY <1>a, <1>4, MethodsKeepTypes DEF StoreClaims
<1>5. CASE Retain
  BY <1>a, <1>b, <1>5, MethodsKeepTypes DEF Retain
<1>6. CASE SweepList \/ SweepEnds \/ Ask \/ StoreFindsNone \/ Start \/ NoneLeft
  BY <1>b, <1>6 DEF SweepList, SweepEnds, Ask, StoreFindsNone, Start, NoneLeft
<1>7. CASE Woken \/ Tick \/ PollError \/ SleepOver
  BY <1>b, <1>7 DEF Woken, Tick, PollError, SleepOver
<1>8. ASSUME NEW t \in tasks, TaskStep(t) PROVE StoreTypeOK'
  <2>1. t.job \in Job
    BY <1>a DEF Task
  <2>2. CASE Settle(t)
    BY <1>a, <1>b, <2>1, <2>2, MethodsKeepTypes DEF Settle
  <2>3. CASE Return(t) \/ Discard(t)
    BY <1>b, <2>3 DEF Return, Discard
  <2>4. QED
    BY <1>8, <2>2, <2>3 DEF TaskStep
<1>9. CASE Stop \/ CallEnds \/ DrainEnds \/ Stopped
  BY <1>b, <1>9 DEF Stop, CallEnds, DrainEnds, Stopped
<1>10. ASSUME NEW j \in Job, Door(j) \/ Wake(j) \/ Withdraw(j) \/ Ready(j) \/ Lapse(j)
       PROVE  StoreTypeOK'
  <2>1. CASE Door(j)
    BY <1>a, <2>1, MethodsKeepTypes DEF Door
  <2>2. CASE Wake(j)
    BY <1>b, <2>2 DEF Wake
  <2>3. CASE Withdraw(j) \/ Ready(j) \/ Lapse(j)
    BY <1>a, <2>3, MethodsKeepTypes DEF Withdraw, Ready, Lapse
  <2>4. QED
    BY <1>10, <2>1, <2>2, <2>3
<1>11. QED
  BY <1>1, <1>2, <1>3, <1>4, <1>5, <1>6, <1>7, <1>8, <1>9, <1>10 DEF Next, Poll

\* What TypeOK says of the loop, its tasks and stop().
LoopTypeOK ==
  /\ pc \in {"sweep", "sweeping", "claim", "retain", "wait", "sleep", "ended"}
  /\ listed \in SUBSET Job
  /\ swept \in Job \cup {NoJob}
  /\ call \in {"idle", "asked", "empty", "claimed"}
  /\ got \in Job \cup {NoJob} /\ (got # NoJob <=> call = "claimed")
  /\ stop \in {"no", "drain", "gather", "stopped"} /\ (stop = "no" <=> pc # "ended")

TasksTypeOK ==
  /\ tasks \in SUBSET Task
  /\ inFlight \in [Job -> Nat]
  /\ gathered \in SUBSET (Job \X Nat)

FlagsTypeOK ==
  event \in BOOLEAN /\ saturated \in BOOLEAN /\ nudges \in SUBSET Job

LEMMA TypeParts ==
  TypeInv <=> StoreTypeOK /\ LoopTypeOK /\ TasksTypeOK /\ FlagsTypeOK
  BY DEF TypeInv, TypeOK, StoreTypeOK, LoopTypeOK, TasksTypeOK, FlagsTypeOK

LEMMA LoopTypeStep == LoopTypeOK /\ [Next]_vars => LoopTypeOK'
<1> SUFFICES ASSUME LoopTypeOK, [Next]_vars PROVE LoopTypeOK'
  OBVIOUS
<1>a. UNCHANGED <<loop, stop>> => LoopTypeOK'
  BY DEF loop, LoopTypeOK
<1>1. CASE UNCHANGED vars
  BY <1>a, <1>1 DEF vars
<1>2. CASE SweepList \/ (\E j \in Job : SweepNext(j)) \/ SweepDone \/ SweepEnds
  BY <1>2 DEF SweepList, SweepNext, SweepDone, SweepEnds, Goto, LoopTypeOK
<1>3. CASE Ask \/ \E j \in Job : StoreClaims(j)
  BY <1>3, LoopAssumption DEF Ask, StoreClaims, Goto, LoopTypeOK
<1>4. CASE StoreFindsNone \/ Start \/ NoneLeft
  BY <1>4, LoopAssumption DEF StoreFindsNone, Start, NoneLeft, LoopTypeOK
<1>5. CASE Retain \/ Woken \/ Tick \/ PollError \/ SleepOver
  BY <1>5 DEF Retain, Woken, Tick, PollError, SleepOver, Goto, LoopTypeOK
<1>6. ASSUME NEW t \in tasks, TaskStep(t) PROVE LoopTypeOK'
  BY <1>a, <1>6 DEF TaskStep, Settle, Return, Discard
<1>7. CASE Stop \/ CallEnds
  BY <1>7 DEF Stop, CallEnds, LoopTypeOK
<1>8. CASE DrainEnds \/ Stopped
  BY <1>8 DEF DrainEnds, Stopped, LoopTypeOK, loop
<1>9. ASSUME NEW j \in Job, Door(j) \/ Wake(j) \/ Withdraw(j) \/ Ready(j) \/ Lapse(j)
      PROVE  LoopTypeOK'
  BY <1>a, <1>9 DEF Door, Wake, Withdraw, Ready, Lapse
<1>10. QED
  BY <1>1, <1>2, <1>3, <1>4, <1>5, <1>6, <1>7, <1>8, <1>9 DEF Next, Poll

LEMMA TasksTypeStep ==
  StoreTypeOK /\ LoopTypeOK /\ TasksTypeOK /\ [Next]_vars => TasksTypeOK'
<1> SUFFICES ASSUME StoreTypeOK, LoopTypeOK, TasksTypeOK, [Next]_vars
             PROVE  TasksTypeOK'
  OBVIOUS
<1>a. UNCHANGED <<tasks, inFlight, gathered>> => TasksTypeOK'
  BY DEF TasksTypeOK
<1>1. CASE UNCHANGED vars
  BY <1>a, <1>1 DEF vars
<1>2. CASE SweepList \/ (\E j \in Job : SweepNext(j)) \/ SweepDone \/ SweepEnds
  BY <1>a, <1>2 DEF SweepList, SweepNext, SweepDone, SweepEnds
<1>3. CASE Ask
  BY <1>3 DEF Ask, Pruned, TasksTypeOK
<1>4. CASE Start
  <2>1. got \in Job
    BY <1>4 DEF Start, LoopTypeOK
  <2>2. jobs[got].attempt \in Nat
    BY <2>1 DEF StoreTypeOK, Ticket
  <2>3. QED
    BY <1>4, <2>1, <2>2 DEF Start, TasksTypeOK, Task
<1>5. CASE StoreFindsNone \/ NoneLeft \/ \E j \in Job : StoreClaims(j)
  BY <1>a, <1>5 DEF StoreFindsNone, NoneLeft, StoreClaims
<1>6. CASE Retain \/ Woken \/ Tick \/ PollError \/ SleepOver
  BY <1>a, <1>6 DEF Retain, Woken, Tick, PollError, SleepOver
<1>7. ASSUME NEW t \in tasks, TaskStep(t) PROVE TasksTypeOK'
  <2>1. t \in Task
    BY DEF TasksTypeOK
  <2>2. \A state \in {"exec", "settled", "done"} : [t EXCEPT !.state = state] \in Task
    BY <2>1 DEF Task
  <2>3. CASE Settle(t) \/ Return(t)
    BY <2>2, <2>3 DEF Settle, Return, Becomes, TasksTypeOK
  <2>4. CASE Discard(t)
    BY <2>1, <2>4 DEF Discard, TasksTypeOK, Task
  <2>5. QED
    BY <1>7, <2>3, <2>4 DEF TaskStep
<1>8. CASE Stop \/ CallEnds
  BY <1>a, <1>8 DEF Stop, CallEnds
<1>9. CASE DrainEnds
  BY <1>9 DEF DrainEnds, TasksTypeOK
<1>10. CASE Stopped
  BY <1>10 DEF Stopped, TasksTypeOK
<1>11. ASSUME NEW j \in Job, Door(j) \/ Wake(j) \/ Withdraw(j) \/ Ready(j) \/ Lapse(j)
       PROVE  TasksTypeOK'
  BY <1>a, <1>11 DEF Door, Wake, Withdraw, Ready, Lapse
<1>12. QED
  BY <1>1, <1>2, <1>3, <1>4, <1>5, <1>6, <1>7, <1>8, <1>9, <1>10, <1>11
  DEF Next, Poll

LEMMA FlagsTypeStep == FlagsTypeOK /\ [Next]_vars => FlagsTypeOK'
<1> SUFFICES ASSUME FlagsTypeOK, [Next]_vars PROVE FlagsTypeOK'
  OBVIOUS
<1>a. UNCHANGED <<event, saturated, nudges>> => FlagsTypeOK'
  BY DEF FlagsTypeOK
<1>1. CASE UNCHANGED vars
  BY <1>a, <1>1 DEF vars
<1>2. CASE SweepList \/ (\E j \in Job : SweepNext(j)) \/ SweepDone \/ SweepEnds
  BY <1>a, <1>2 DEF SweepList, SweepNext, SweepDone, SweepEnds
<1>3. CASE Ask \/ Woken \/ Stop
  BY <1>3 DEF Ask, Woken, Stop, FlagsTypeOK
<1>4. CASE StoreFindsNone \/ Start \/ NoneLeft \/ \E j \in Job : StoreClaims(j)
  BY <1>a, <1>4 DEF StoreFindsNone, Start, NoneLeft, StoreClaims
<1>5. CASE Retain \/ Tick \/ PollError \/ SleepOver
  BY <1>a, <1>5 DEF Retain, Tick, PollError, SleepOver
<1>6. ASSUME NEW t \in tasks, TaskStep(t) PROVE FlagsTypeOK'
  BY <1>a, <1>6 DEF TaskStep, Settle, Return, Discard, FlagsTypeOK
<1>7. CASE CallEnds \/ DrainEnds \/ Stopped
  BY <1>a, <1>7 DEF CallEnds, DrainEnds, Stopped
<1>8. ASSUME NEW j \in Job, Door(j) \/ Wake(j)
      PROVE  FlagsTypeOK'
  BY <1>8 DEF Door, Wake, FlagsTypeOK
<1>9. ASSUME NEW j \in Job, Withdraw(j) \/ Ready(j) \/ Lapse(j)
      PROVE  FlagsTypeOK'
  BY <1>a, <1>9 DEF Withdraw, Ready, Lapse
<1>10. QED
  BY <1>1, <1>2, <1>3, <1>4, <1>5, <1>6, <1>7, <1>8, <1>9 DEF Next, Poll

LEMMA TypeStep == TypeInv /\ [Next]_vars => TypeInv'
<1> SUFFICES ASSUME TypeInv, [Next]_vars PROVE TypeInv'
  OBVIOUS
<1>1. StoreTypeOK' /\ LoopTypeOK' /\ TasksTypeOK' /\ FlagsTypeOK'
  BY TypeParts, StoreStep, LoopTypeStep, TasksTypeStep, FlagsTypeStep
<1>2. QED
  BY <1>1 DEF TypeInv, TypeOK, StoreTypeOK, LoopTypeOK, TasksTypeOK, FlagsTypeOK

LEMMA TypeInit == Init => TypeInv
<1> SUFFICES ASSUME Init PROVE TypeInv
  OBVIOUS
<1>1. StoreTypeOK
  BY StoreInitTyped DEF Init
<1>2. LoopTypeOK /\ TasksTypeOK /\ FlagsTypeOK
  BY DEF Init, LoopTypeOK, TasksTypeOK, FlagsTypeOK
<1>3. QED
  BY <1>1, <1>2, TypeParts

\* Every state is well typed: the loop holds the result of a claim exactly while
\* the call is returning, it has ended exactly when stop() was called, and a
\* ticket is locked exactly while it is running.
THEOREM TypeCorrect == Spec => [](TypeOK /\ StoreTypeOK)
<1>1. QED
  BY TypeInit, TypeStep, PTL DEF Spec, TypeInv

-----------------------------------------------------------------------------
(* The loop, its tasks and the tickets *)

\* The loop is at one store call at a time.
LoopInv ==
  /\ swept # NoJob => pc \in {"sweeping", "ended"} /\ call = "idle"
  /\ call # "idle" => pc \in {"claim", "ended"}

\* No task is ahead of its ticket, and those of a ticket whose claim is
\* returning are behind it.
Fenced(t) ==
  /\ jobs[t.job].status # "absent"
  /\ t.attempt <= jobs[t.job].attempt \/ jobs[t.job].status = "deleted"
  /\ t.job = got => t.attempt < jobs[t.job].attempt

FenceInv ==
  /\ got # NoJob => jobs[got].status \notin {"absent", "deleted"}
  /\ \A t \in tasks : Fenced(t)

TicketInv == LoopInv /\ FenceInv

LEMMA LoopStep == TypeInv /\ LoopInv /\ [Next]_vars => LoopInv'
<1> SUFFICES ASSUME TypeInv, LoopInv, [Next]_vars PROVE LoopInv'
  OBVIOUS
<1>a. UNCHANGED loop => LoopInv'
  BY DEF loop, LoopInv
<1>1. CASE UNCHANGED vars
  BY <1>a, <1>1 DEF vars
<1>2. CASE SweepList \/ (\E j \in Job : SweepNext(j)) \/ SweepDone \/ SweepEnds
  BY <1>2 DEF SweepList, SweepNext, SweepDone, SweepEnds, Goto, LoopInv
<1>3. CASE Ask \/ StoreFindsNone \/ Start \/ NoneLeft \/ \E j \in Job : StoreClaims(j)
  BY <1>3 DEF Ask, StoreFindsNone, Start, NoneLeft, StoreClaims, Goto, LoopInv
<1>4. CASE Retain \/ Woken \/ Tick \/ PollError \/ SleepOver
  BY <1>4 DEF Retain, Woken, Tick, PollError, SleepOver, Goto, LoopInv
<1>5. ASSUME NEW t \in tasks, TaskStep(t) PROVE LoopInv'
  BY <1>a, <1>5 DEF TaskStep, Settle, Return, Discard
<1>6. CASE Stop \/ CallEnds \/ DrainEnds \/ Stopped
  BY <1>6 DEF Stop, CallEnds, DrainEnds, Stopped, LoopInv, loop
<1>7. ASSUME NEW j \in Job, Door(j) \/ Wake(j) \/ Withdraw(j) \/ Ready(j) \/ Lapse(j)
      PROVE  LoopInv'
  BY <1>a, <1>7 DEF Door, Wake, Withdraw, Ready, Lapse
<1>8. QED
  BY <1>1, <1>2, <1>3, <1>4, <1>5, <1>6, <1>7 DEF Next, Poll

\* Every step but a claim and a cleanup leaves the attempts alone, and only a
\* start makes a task.
Quiet ==
  /\ \A k \in Job : AttemptStays(k)
  /\ got' \in {got, NoJob}
  /\ \A t \in tasks' : \E u \in tasks : u.job = t.job /\ u.attempt = t.attempt

LEMMA StepsAreQuiet ==
  ASSUME TypeInv, [Next]_vars
  PROVE  Quiet \/ Start \/ Retain \/ \E j \in Job : StoreClaims(j)
<1>a. /\ StoreTypeOK /\ tasks \in SUBSET Task /\ swept \in Job \cup {NoJob}
      /\ Self \in Worker
  BY LoopAssumption DEF TypeInv, TypeOK
<1>b. jobs' = jobs => \A k \in Job : AttemptStays(k)
  BY <1>a, MethodsKeepAttempts
<1>c. ASSUME UNCHANGED <<loop, tasks>>, \A k \in Job : AttemptStays(k) PROVE Quiet
  BY <1>c DEF loop, Quiet
<1>1. CASE UNCHANGED vars
  BY <1>b, <1>c, <1>1 DEF vars
<1>2. ASSUME NEW j \in Job, SweepNext(j) PROVE Quiet
  <2>1. AcquireSweep(Self, j) \/ jobs' = jobs
    BY <1>2 DEF SweepNext
  <2>2. \A k \in Job : AttemptStays(k)
    BY <1>a, <2>1, MethodsKeepAttempts
  <2>3. QED
    BY <1>2, <2>2 DEF SweepNext, Quiet
<1>3. CASE SweepDone
  <2>1. swept \in Job
    BY <1>3, <1>a DEF SweepDone
  <2>2. (\E status : SettleSweptJob(Self, swept, status)) \/ jobs' = jobs
    BY <1>3 DEF SweepDone
  <2>3. \A k \in Job : AttemptStays(k)
    BY <1>a, <2>1, <2>2, MethodsKeepAttempts
  <2>4. QED
    BY <1>3, <2>3 DEF SweepDone, Quiet
<1>4. CASE SweepList \/ SweepEnds \/ Ask \/ StoreFindsNone \/ NoneLeft
  BY <1>b, <1>4
  DEF SweepList, SweepEnds, Ask, StoreFindsNone, NoneLeft, Goto, Quiet
<1>5. CASE Woken \/ Tick \/ PollError \/ SleepOver
  BY <1>b, <1>5 DEF Woken, Tick, PollError, SleepOver, Goto, Quiet
<1>6. ASSUME NEW t \in tasks, TaskStep(t) PROVE Quiet
  <2>1. t \in Task /\ t.job \in Job
    BY <1>a DEF Task
  <2>2. \A state : /\ [t EXCEPT !.state = state].job = t.job
                   /\ [t EXCEPT !.state = state].attempt = t.attempt
    BY <2>1 DEF Task
  <2>3. \A u \in tasks' : \E v \in tasks : v.job = u.job /\ v.attempt = u.attempt
    BY <1>6, <2>2 DEF TaskStep, Settle, Return, Discard, Becomes
  <2>4. \A k \in Job : AttemptStays(k)
    <3>1. \/ \E status : CompleteJob(Self, t.job, t.attempt, status)
          \/ \E due \in BOOLEAN : RetryOrFailJob(Self, t.job, t.attempt, due)
          \/ jobs' = jobs
      BY <1>6 DEF TaskStep, Settle, Return, Discard
    <3>2. CASE \E status : CompleteJob(Self, t.job, t.attempt, status)
      BY <1>a, <2>1, <3>2, MethodsKeepAttempts
    <3>3. CASE \E due \in BOOLEAN : RetryOrFailJob(Self, t.job, t.attempt, due)
      BY <1>a, <2>1, <3>3, MethodsKeepAttempts
    <3>4. QED
      BY <1>b, <3>1, <3>2, <3>3
  <2>5. UNCHANGED loop
    BY <1>6 DEF TaskStep, Settle, Return, Discard
  <2>6. QED
    BY <2>3, <2>4, <2>5 DEF Quiet, loop
<1>7. CASE Stop \/ CallEnds \/ DrainEnds \/ Stopped
  BY <1>b, <1>7 DEF Stop, CallEnds, DrainEnds, Stopped, Quiet, loop
<1>8. ASSUME NEW j \in Job, Door(j) \/ Wake(j) \/ Withdraw(j) \/ Ready(j) \/ Lapse(j)
      PROVE  Quiet
  <2>1. UNCHANGED <<loop, tasks>>
    BY <1>8 DEF Door, Wake, Withdraw, Ready, Lapse
  <2>2. \A k \in Job : AttemptStays(k)
    <3>1. CASE Door(j)
      BY <1>a, <3>1, MethodsKeepAttempts DEF Door
    <3>2. CASE Withdraw(j)
      BY <1>a, <3>2, MethodsKeepAttempts DEF Withdraw
    <3>3. CASE Wake(j) \/ Ready(j) \/ Lapse(j)
      BY <1>a, <3>3, MethodsKeepAttempts DEF Wake, Ready, Lapse
    <3>4. QED
      BY <1>8, <3>1, <3>2, <3>3
  <2>3. QED
    BY <1>c, <2>1, <2>2
<1>9. QED
  BY <1>1, <1>2, <1>3, <1>4, <1>5, <1>6, <1>7, <1>8 DEF Next, Poll

LEMMA FenceStep == TypeInv /\ TicketInv /\ [Next]_vars => FenceInv'
<1> SUFFICES ASSUME TypeInv, TicketInv, [Next]_vars PROVE FenceInv'
  OBVIOUS
<1>a. /\ \A t \in tasks : t.job \in Job /\ t.attempt \in Nat
      /\ got \in Job \cup {NoJob} /\ (got # NoJob <=> call = "claimed")
      /\ jobs \in [Job -> Ticket] /\ NoJob \notin Job
  BY LoopAssumption DEF TypeInv, TypeOK, Task
<1>b. \A k \in Job : jobs[k].attempt \in Nat
  BY <1>a DEF Ticket
<1>1. CASE Quiet
  <2>1. got' # NoJob => jobs'[got'].status \notin {"absent", "deleted"}
    BY <1>1, <1>a DEF Quiet, AttemptStays, TicketInv, FenceInv
  <2>2. ASSUME NEW t \in tasks' PROVE Fenced(t)'
    <3>1. PICK u \in tasks : u.job = t.job /\ u.attempt = t.attempt
      BY <1>1, <2>2 DEF Quiet
    <3>2. Fenced(u) /\ u.job \in Job
      BY <1>a DEF TicketInv, FenceInv
    <3>3. t.job # NoJob
      BY <1>a, <3>1, <3>2
    <3>4. /\ jobs'[t.job].status # "absent"
          /\ jobs'[t.job].attempt = jobs[t.job].attempt
          /\ jobs[t.job].status = "deleted" \/ t.attempt <= jobs'[t.job].attempt
      BY <1>1, <3>1, <3>2 DEF Quiet, AttemptStays, Fenced
    <3>5. t.job = got' => t.attempt < jobs'[t.job].attempt
      BY <1>1, <3>1, <3>2, <3>3, <3>4 DEF Quiet, Fenced
    <3>6. QED
      BY <1>1, <3>1, <3>2, <3>4, <3>5 DEF Quiet, AttemptStays, Fenced
  <2>3. QED
    BY <2>1, <2>2 DEF FenceInv
<1>2. CASE Start
  <2>1. /\ jobs' = jobs /\ got' = NoJob /\ got \in Job
        /\ jobs[got].status \notin {"absent", "deleted"}
    BY <1>2, <1>a DEF Start, TicketInv, FenceInv
  <2>2. PICK n : n = [job |-> got, attempt |-> jobs[got].attempt, state |-> "exec"]
    OBVIOUS
  <2>3. tasks' = tasks \cup {n}
    BY <1>2, <2>2 DEF Start
  <2>4. Fenced(n)'
    BY <2>1, <2>2, <1>a, <1>b DEF Fenced
  <2>5. ASSUME NEW t \in tasks PROVE Fenced(t)'
    BY <2>1, <2>5, <1>a DEF TicketInv, FenceInv, Fenced
  <2>6. QED
    BY <2>1, <2>3, <2>4, <2>5 DEF FenceInv
<1>3. CASE Retain
  <2>1. got = NoJob /\ UNCHANGED <<tasks, got>>
    BY <1>3, <1>a DEF Retain, Goto, TicketInv, LoopInv
  <2>2. ASSUME NEW k \in Job
        PROVE  jobs'[k] = jobs[k] \/ jobs'[k].status = "deleted"
    BY <1>3, <1>a DEF Retain, CleanupJobs, NoTicket
  <2>3. ASSUME NEW t \in tasks PROVE Fenced(t)'
    <3>1. Fenced(t) /\ t.job \in Job /\ t.job # got'
      BY <1>a, <2>1 DEF TicketInv, FenceInv
    <3>2. QED
      BY <2>1, <2>2, <3>1 DEF Fenced
  <2>4. QED
    BY <2>1, <2>3 DEF FenceInv
<1>4. ASSUME NEW j \in Job, StoreClaims(j) PROVE FenceInv'
  <2>1. got = NoJob /\ got' = j /\ tasks' = tasks
    BY <1>4, <1>a DEF StoreClaims
  <2>2. /\ jobs[j].status \in {"queued", "running"}
        /\ jobs' = [jobs EXCEPT ![j] = Claimed(j, Self)]
    BY <1>4 DEF StoreClaims, ClaimJob, Candidate, Reclaimable
  <2>3. Claimed(j, Self).attempt = jobs[j].attempt + 1 /\ Claimed(j, Self).status = "running"
    BY <1>a DEF Claimed, Ticket
  <2>4. ASSUME NEW t \in tasks PROVE Fenced(t)'
    <3>1. Fenced(t) /\ t.job \in Job /\ t.attempt \in Nat
      BY <1>a DEF TicketInv, FenceInv
    <3>2. CASE t.job = j
      <4>1. jobs'[j] = Claimed(j, Self)
        BY <1>a, <2>2
      <4>2. t.attempt < jobs'[j].attempt
        BY <3>1, <3>2, <4>1, <2>2, <2>3, <1>b DEF Fenced
      <4>3. QED
        BY <3>1, <3>2, <4>1, <4>2, <2>3, <1>b DEF Fenced
    <3>3. CASE t.job # j
      BY <3>1, <3>3, <2>1, <2>2, <1>a DEF Fenced
    <3>4. QED
      BY <3>2, <3>3
  <2>5. QED
    BY <2>1, <2>2, <2>3, <2>4, <1>a DEF FenceInv
<1>5. QED
  BY <1>1, <1>2, <1>3, <1>4, StepsAreQuiet

-----------------------------------------------------------------------------
(* The refinement *)

\* The methods of the store are the same under the mapping.
LEMMA QueueStore ==
  /\ Queue!StoreInit <=> StoreInit
  /\ \A j, created : Queue!EnqueueJob(j, created) <=> EnqueueJob(j, created)
  /\ \A w, j : Queue!ClaimJob(w, j) <=> ClaimJob(w, j)
  /\ \A w, j, attempt, status :
       Queue!CompleteJob(w, j, attempt, status) <=> CompleteJob(w, j, attempt, status)
  /\ \A w, j, attempt, due :
       Queue!RetryOrFailJob(w, j, attempt, due) <=> RetryOrFailJob(w, j, attempt, due)
  /\ \A w, j : Queue!AcquireSweep(w, j) <=> AcquireSweep(w, j)
  /\ \A w, j, status :
       Queue!SettleSweptJob(w, j, status) <=> SettleSweptJob(w, j, status)
  /\ \A j : /\ Queue!CancelJob(j) <=> CancelJob(j)
            /\ Queue!RequeueJob(j) <=> RequeueJob(j)
            /\ Queue!ContinueJob(j) <=> ContinueJob(j)
            /\ Queue!LeaseLapses(j) <=> LeaseLapses(j)
            /\ Queue!BackoffEnds(j) <=> BackoffEnds(j)
  /\ \A j, status : Queue!SettlePausedJob(j, status) <=> SettlePausedJob(j, status)
  /\ \A old : Queue!CleanupJobs(old) <=> CleanupJobs(old)
<1>1. /\ \A status : Queue!NoTicket(status) = NoTicket(status)
      /\ \A j : /\ Queue!IsSerialized(j) <=> IsSerialized(j)
                /\ Queue!Reclaimable(j) <=> Reclaimable(j)
                /\ Queue!Sweepable(j) <=> Sweepable(j)
                /\ Queue!Granted(j) = Granted(j)
      /\ \A j, k : /\ Queue!Before(k, j) <=> Before(k, j)
                   /\ Queue!Older(j, k) <=> Older(j, k)
      /\ \A j, w : Queue!Claimed(j, w) = Claimed(j, w)
      /\ \A j, status : Queue!Settled(j, status) = Settled(j, status)
      /\ \A w, j, attempt : Queue!OwnsLease(w, j, attempt) <=> OwnsLease(w, j, attempt)
      /\ Queue!Terminal = Terminal /\ Queue!Live = Live /\ Queue!Holding = Holding
      /\ Queue!QueuedJobs = QueuedJobs /\ Queue!Seqs = Seqs
  BY DEF Queue!NoTicket, NoTicket, Queue!IsSerialized, IsSerialized,
         Queue!Reclaimable, Reclaimable, Queue!Sweepable, Sweepable,
         Queue!Granted, Granted, Queue!Before, Before, Queue!Older, Older,
         Queue!Claimed, Claimed, Queue!Settled, Settled, Queue!OwnsLease,
         OwnsLease, Queue!Terminal, Terminal, Queue!Live, Live, Queue!Holding, Holding,
         Queue!QueuedJobs, QueuedJobs, Queue!Seqs, Seqs
<1>2. \A j : Queue!SameSession(j) = SameSession(j)
  BY <1>1 DEF Queue!SameSession, SameSession
<1>3. \A j : Queue!SessionBlocked(j) <=> SessionBlocked(j)
  BY <1>1, <1>2 DEF Queue!SessionBlocked, SessionBlocked
<1>4. \A w, j : Queue!Candidate(w, j) <=> Candidate(w, j)
  BY <1>1, <1>3 DEF Queue!Candidate, Candidate
<1>5. \A j, s : Queue!NextSessionSeq(j, s) <=> NextSessionSeq(j, s)
  BY <1>1, <1>2 DEF Queue!NextSessionSeq, NextSessionSeq
<1>6. Queue!BelowDepth <=> BelowDepth
  <2>1. Queue!Cardinality(QueuedJobs) = Cardinality(QueuedJobs)
    BY DEF Queue!Cardinality, Cardinality
  <2>2. QED
    BY <1>1, <2>1 DEF Queue!BelowDepth, BelowDepth
<1>7. Queue!StoreInit <=> StoreInit
  BY <1>1 DEF Queue!StoreInit, StoreInit
<1>8. \A j, created : Queue!EnqueueJob(j, created) <=> EnqueueJob(j, created)
  BY <1>1, <1>5, <1>6 DEF Queue!EnqueueJob, EnqueueJob
<1>9. \A w, j : Queue!ClaimJob(w, j) <=> ClaimJob(w, j)
  BY <1>1, <1>4 DEF Queue!ClaimJob, ClaimJob
<1>10. \A w, j, attempt, status :
         Queue!CompleteJob(w, j, attempt, status) <=> CompleteJob(w, j, attempt, status)
  BY <1>1 DEF Queue!CompleteJob, CompleteJob
<1>11. \A w, j, attempt, due :
         Queue!RetryOrFailJob(w, j, attempt, due) <=> RetryOrFailJob(w, j, attempt, due)
  BY <1>1 DEF Queue!RetryOrFailJob, RetryOrFailJob
<1>12. \A w, j : Queue!AcquireSweep(w, j) <=> AcquireSweep(w, j)
  BY <1>1 DEF Queue!AcquireSweep, AcquireSweep
<1>13. \A w, j, status : Queue!SettleSweptJob(w, j, status) <=> SettleSweptJob(w, j, status)
  BY <1>1 DEF Queue!SettleSweptJob, SettleSweptJob
<1>14. \A j : /\ Queue!CancelJob(j) <=> CancelJob(j)
              /\ Queue!ContinueJob(j) <=> ContinueJob(j)
              /\ Queue!LeaseLapses(j) <=> LeaseLapses(j)
  BY <1>1 DEF Queue!CancelJob, CancelJob, Queue!ContinueJob, ContinueJob,
              Queue!LeaseLapses, LeaseLapses
<1>15. \A j : Queue!RequeueJob(j) <=> RequeueJob(j)
  BY <1>1, <1>5 DEF Queue!RequeueJob, RequeueJob
<1>16. \A j : Queue!BackoffEnds(j) <=> BackoffEnds(j)
  BY DEF Queue!BackoffEnds, BackoffEnds
<1>17. \A j, status : Queue!SettlePausedJob(j, status) <=> SettlePausedJob(j, status)
  BY <1>1 DEF Queue!SettlePausedJob, SettlePausedJob
<1>18. \A old : Queue!CleanupJobs(old) <=> CleanupJobs(old)
  BY <1>1 DEF Queue!CleanupJobs, CleanupJobs
<1>19. QED
  BY <1>7, <1>8, <1>9, <1>10, <1>11, <1>12, <1>13, <1>14, <1>15,
     <1>16, <1>17, <1>18

\* The legs and the sweep as JobQueue sees them.
ExecLegs == {Leg(t) : t \in {u \in tasks : u.state = "exec"}}

GotLegs ==
  {[worker |-> Self, job |-> j, attempt |-> jobs[j].attempt] : j \in {got} \ {NoJob}}

TicketLegs ==
  {Leg(t) : t \in {u \in tasks : u.state = "exec"}}
    \cup {[worker |-> Self, job |-> j, attempt |-> jobs[j].attempt] :
            j \in {got} \ {NoJob}}

TicketSweeps == [w \in Worker |-> IF w = Self THEN swept ELSE NoJob]

GotLeg == [worker |-> Self, job |-> got, attempt |-> jobs[got].attempt]

LEMMA LegsAre ==
  /\ TicketLegs = ExecLegs \cup GotLegs
  /\ GotLegs = IF got = NoJob THEN {} ELSE {GotLeg}
  /\ \A c : c \in ExecLegs <=> \E t \in tasks : t.state = "exec" /\ c = Leg(t)
  BY DEF TicketLegs, ExecLegs, GotLegs, GotLeg

LEMMA LegsWillBe ==
  /\ TicketLegs' = ExecLegs' \cup GotLegs'
  /\ GotLegs' = IF got' = NoJob THEN {} ELSE {GotLeg'}
  /\ \A c : c \in ExecLegs' <=> \E t \in tasks' : t.state = "exec" /\ c = Leg(t)
  BY DEF TicketLegs, ExecLegs, GotLegs, GotLeg, Leg

LEMMA QueueVars ==
  UNCHANGED <<jobs, TicketLegs, TicketSweeps>> => UNCHANGED Queue!vars
  BY DEF Queue!vars, TicketLegs, TicketSweeps

\* A step that leaves the attempt of the ticket being returned alone, and the
\* tasks, keeps the legs.
LEMMA LegsStay ==
  ASSUME TypeInv, TicketInv, UNCHANGED <<tasks, got>>,
         \A k \in Job : AttemptStays(k)
  PROVE  TicketLegs' = TicketLegs
<1>1. got = NoJob \/ jobs'[got].attempt = jobs[got].attempt
  BY DEF TypeInv, TypeOK, TicketInv, FenceInv, AttemptStays
<1>2. GotLegs' = GotLegs
  BY <1>1, LegsAre, LegsWillBe DEF GotLeg
<1>3. ExecLegs' = ExecLegs
  BY DEF ExecLegs, Leg
<1>4. QED
  BY <1>2, <1>3, LegsAre, LegsWillBe

LEMMA RefineSweep ==
  ASSUME TypeInv, TicketInv, SweepDone \/ \E j \in Job : SweepNext(j)
  PROVE  [Queue!Next]_Queue!vars
<1>a. Self \in Worker /\ StoreTypeOK /\ swept \in Job \cup {NoJob} /\ NoJob \notin Job
  BY LoopAssumption DEF TypeInv, TypeOK
<1>b. UNCHANGED <<tasks, got>>
  BY DEF SweepDone, SweepNext
<1>c. /\ TicketSweeps[Self] = swept
      /\ TicketSweeps' = [TicketSweeps EXCEPT ![Self] = swept']
  BY <1>a DEF TicketSweeps
<1>1. ASSUME NEW j \in Job, SweepNext(j), AcquireSweep(Self, j), swept' = j
      PROVE  Queue!Next
  <2>1. TicketLegs' = TicketLegs
    BY <1>1, <1>a, <1>b, LegsStay, MethodsKeepAttempts
  <2>2. swept = NoJob
    BY <1>1 DEF SweepNext
  <2>3. Queue!Sweep(Self, j)
    BY <1>1, <1>a, <1>c, <2>1, <2>2, QueueStore
    DEF Queue!Sweep, TicketLegs, TicketSweeps
  <2>4. QED
    BY <1>a, <2>3 DEF Queue!Next
<1>2. ASSUME UNCHANGED <<jobs, swept>> PROVE UNCHANGED Queue!vars
  <2>1. TicketLegs' = TicketLegs
    BY <1>2, <1>a, <1>b, LegsStay, MethodsKeepAttempts
  <2>2. QED
    BY <1>2, <2>1, QueueVars DEF TicketSweeps
<1>3. CASE SweepDone
  <2>1. swept \in Job /\ swept' = NoJob
    BY <1>3, <1>a DEF SweepDone
  <2>2. ASSUME NEW status \in {"completed", "cancelled", "paused", "failed"},
               SettleSweptJob(Self, swept, status)
        PROVE  Queue!EndSweep(Self)
    <3>1. TicketLegs' = TicketLegs
      BY <1>a, <1>b, <2>1, <2>2, LegsStay, MethodsKeepAttempts
    <3>2. Queue!SettleSwept(Self, status)
      BY <1>a, <1>c, <2>1, <2>2, <3>1, QueueStore
      DEF Queue!SettleSwept, TicketLegs, TicketSweeps
    <3>3. QED
      BY <3>2 DEF Queue!EndSweep
  <2>3. ASSUME UNCHANGED jobs PROVE Queue!EndSweep(Self)
    <3>1. TicketLegs' = TicketLegs
      BY <1>a, <1>b, <2>3, LegsStay, MethodsKeepAttempts
    <3>2. Queue!LeaveSwept(Self)
      BY <1>a, <1>c, <2>1, <2>3, <3>1 DEF Queue!LeaveSwept, TicketLegs, TicketSweeps
    <3>3. QED
      BY <3>2 DEF Queue!EndSweep
  <2>4. Queue!EndSweep(Self)
    BY <1>3, <2>2, <2>3 DEF SweepDone
  <2>5. QED
    BY <1>a, <2>4 DEF Queue!Next
<1>4. QED
  BY <1>1, <1>2, <1>3 DEF SweepNext

LEMMA RefineClaim ==
  ASSUME TypeInv, TicketInv, NEW j \in Job, StoreClaims(j)
  PROVE  Queue!Next
<1>1. /\ got = NoJob /\ got' = j /\ j # NoJob /\ tasks' = tasks /\ swept' = swept
      /\ swept = NoJob /\ Self \in Worker
  BY LoopAssumption DEF StoreClaims, TypeInv, TypeOK, TicketInv, LoopInv
<1>2. jobs' = [jobs EXCEPT ![j] = Claimed(j, Self)] /\ ClaimJob(Self, j)
  BY DEF StoreClaims, ClaimJob
<1>3. jobs'[j].attempt = jobs[j].attempt + 1
  BY <1>2 DEF Claimed, TypeInv, TypeOK, Ticket
<1> DEFINE c == [worker |-> Self, job |-> j, attempt |-> jobs[j].attempt + 1]
<1>4. TicketLegs' = TicketLegs \cup {c}
  <2>1. GotLegs' = {c} /\ GotLegs = {}
    BY <1>1, <1>3, LegsAre, LegsWillBe DEF GotLeg
  <2>2. ExecLegs' = ExecLegs
    BY <1>1 DEF ExecLegs, Leg
  <2>3. QED
    BY <2>1, <2>2, LegsAre, LegsWillBe
<1>5. TicketSweeps' = TicketSweeps /\ TicketSweeps[Self] = NoJob
  BY <1>1 DEF TicketSweeps
<1>6. Queue!Claim(Self, j)
  BY <1>1, <1>2, <1>4, <1>5, QueueStore DEF Queue!Claim, TicketLegs, TicketSweeps
<1>7. QED
  BY <1>1, <1>6 DEF Queue!Next

\* A claim whose result is lost is a leg that leaves its claim.
LEMMA RefineLoss ==
  ASSUME TypeInv, TicketInv, got' = NoJob, UNCHANGED <<jobs, tasks, swept>>
  PROVE  [Queue!Next]_Queue!vars
<1>1. TicketSweeps' = TicketSweeps /\ ExecLegs' = ExecLegs
  BY DEF TicketSweeps, ExecLegs, Leg
<1>2. CASE got = NoJob
  BY <1>1, <1>2, LegsAre, LegsWillBe, QueueVars
<1>3. CASE got # NoJob
  <2>1. GotLegs = {GotLeg} /\ GotLegs' = {}
    BY <1>3, LegsAre, LegsWillBe
  <2>2. GotLeg \notin ExecLegs
    <3>1. ASSUME NEW t \in tasks PROVE Leg(t) # GotLeg
      <4>1. Fenced(t) /\ got \in Job /\ jobs[got].attempt \in Nat
        BY <1>3 DEF TicketInv, FenceInv, TypeInv, TypeOK, Ticket
      <4>2. QED
        BY <4>1 DEF Fenced, Leg, GotLeg
    <3>2. QED
      BY <3>1, LegsAre
  <2>3. GotLeg \in TicketLegs /\ TicketLegs' = TicketLegs \ {GotLeg}
    BY <1>1, <2>1, <2>2, LegsAre, LegsWillBe
  <2>4. PICK c : c = GotLeg
    OBVIOUS
  <2>5. Queue!LeaveClaim(c)
    BY <1>1, <2>3, <2>4 DEF Queue!LeaveClaim, TicketLegs, TicketSweeps
  <2>6. Queue!EndLeg(c)
    BY <2>5 DEF Queue!EndLeg
  <2>7. QED
    BY <2>3, <2>4, <2>6 DEF Queue!Next, TicketLegs
<1>4. QED
  BY <1>2, <1>3

LEMMA RefineStart ==
  ASSUME TypeInv, TicketInv, Start
  PROVE  UNCHANGED Queue!vars
<1>1. /\ UNCHANGED <<jobs, swept>> /\ got # NoJob /\ got' = NoJob
      /\ tasks' = tasks \cup
           {[job |-> got, attempt |-> jobs[got].attempt, state |-> "exec"]}
  BY DEF Start, TypeInv, TypeOK
<1>2. Leg([job |-> got, attempt |-> jobs[got].attempt, state |-> "exec"]) = GotLeg
  BY DEF Leg, GotLeg
<1>3. \A c : c \in TicketLegs' <=> c \in TicketLegs
  BY <1>1, <1>2, LegsAre, LegsWillBe
<1>4. TicketLegs' = TicketLegs
  BY <1>3 DEF TicketLegs
<1>5. QED
  BY <1>1, <1>4, QueueVars DEF TicketSweeps

LEMMA RefineTask ==
  ASSUME TypeInv, TicketInv, NEW t \in tasks, TaskStep(t)
  PROVE  [Queue!Next]_Queue!vars
<1>a. /\ t \in Task /\ \A u \in tasks : u \in Task
      /\ UNCHANGED <<got, swept>>
  BY DEF TaskStep, Settle, Return, Discard, loop, TypeInv, TypeOK
<1>b. TicketSweeps' = TicketSweeps
  BY <1>a DEF TicketSweeps
<1>1. CASE Return(t) \/ Discard(t)
  <2>1. /\ jobs' = jobs
        /\ \A u : u.state = "exec" => (u \in tasks' <=> u \in tasks)
    <3>1. [t EXCEPT !.state = "done"].state = "done"
      BY <1>a DEF Task
    <3>2. QED
      BY <1>1, <3>1 DEF Return, Discard, Becomes
  <2>2. ExecLegs' = ExecLegs /\ GotLegs' = GotLegs
    BY <1>a, <2>1 DEF ExecLegs, GotLegs, Leg
  <2>3. QED
    BY <1>b, <2>1, <2>2, LegsAre, LegsWillBe, QueueVars
<1>2. CASE Settle(t)
  <2>1. t.state = "exec" /\ tasks' = (tasks \ {t}) \cup {[t EXCEPT !.state = "settled"]}
    BY <1>2 DEF Settle, Becomes
  <2>2. [t EXCEPT !.state = "settled"].state = "settled"
    BY <1>a DEF Task
  <2>3. \A u \in tasks : u.state = "exec" /\ Leg(u) = Leg(t) => u = t
    BY <1>a, <2>1 DEF Task, Leg
  <2>4. \A c : c \in ExecLegs' <=> c \in ExecLegs \ {Leg(t)}
    BY <2>1, <2>2, <2>3, LegsAre, LegsWillBe
  <2>5. \A k \in Job : AttemptStays(k)
    <3>1. t.job \in Job /\ StoreTypeOK
      BY <1>a DEF Task, TypeInv
    <3>2. \/ \E status : CompleteJob(Self, t.job, t.attempt, status)
          \/ \E due \in BOOLEAN : RetryOrFailJob(Self, t.job, t.attempt, due)
          \/ jobs' = jobs
      BY <1>2 DEF Settle
    <3>3. CASE \E status : CompleteJob(Self, t.job, t.attempt, status)
      BY <3>1, <3>3, MethodsKeepAttempts
    <3>4. CASE \E due \in BOOLEAN : RetryOrFailJob(Self, t.job, t.attempt, due)
      BY <3>1, <3>4, MethodsKeepAttempts
    <3>5. CASE jobs' = jobs
      BY <3>1, <3>5, MethodsKeepAttempts
    <3>6. QED
      BY <3>2, <3>3, <3>4, <3>5
  <2>6. got # NoJob =>
          /\ got \in Job /\ jobs'[got].attempt = jobs[got].attempt
          /\ GotLeg # Leg(t)
    <3>1. got # NoJob => got \in Job /\ jobs'[got].attempt = jobs[got].attempt
      BY <2>5 DEF TypeInv, TypeOK, TicketInv, FenceInv, AttemptStays
    <3>2. Fenced(t) /\ t.attempt \in Nat
      BY <1>a DEF TicketInv, FenceInv, Task
    <3>3. got # NoJob => jobs[got].attempt \in Nat
      BY <3>1 DEF TypeInv, TypeOK, Ticket
    <3>4. got # NoJob => GotLeg # Leg(t)
      BY <3>2, <3>3 DEF Fenced, GotLeg, Leg
    <3>5. QED
      BY <3>1, <3>4
  <2>7. GotLegs' = GotLegs /\ Leg(t) \notin GotLegs
    BY <1>a, <2>6, LegsAre, LegsWillBe DEF GotLeg
  <2>8. Leg(t) \in TicketLegs /\ TicketLegs' = TicketLegs \ {Leg(t)}
    <3>1. Leg(t) \in ExecLegs
      BY <2>1, LegsAre
    <3>2. \A c : c \in TicketLegs' <=> c \in TicketLegs \ {Leg(t)}
      BY <2>4, <2>7, LegsAre, LegsWillBe
    <3>3. QED
      BY <3>1, <3>2, LegsAre DEF TicketLegs
  <2>9. PICK c : c = Leg(t)
    OBVIOUS
  <2>10. c.worker = Self /\ c.job = t.job /\ c.attempt = t.attempt
    BY <2>9 DEF Leg
  <2>11. c \in TicketLegs /\ TicketLegs' = TicketLegs \ {c}
    BY <2>8, <2>9
  <2>12. ASSUME NEW status \in {"completed", "cancelled", "failed", "paused"},
                CompleteJob(Self, t.job, t.attempt, status)
         PROVE  Queue!Complete(c, status)
    BY <1>b, <2>10, <2>11, <2>12, QueueStore DEF Queue!Complete, TicketLegs, TicketSweeps
  <2>13. ASSUME NEW due \in BOOLEAN, RetryOrFailJob(Self, t.job, t.attempt, due)
         PROVE  Queue!RetryOrFail(c, due)
    BY <1>b, <2>10, <2>11, <2>13, QueueStore
    DEF Queue!RetryOrFail, TicketLegs, TicketSweeps
  <2>14. ASSUME UNCHANGED jobs PROVE Queue!LeaveClaim(c)
    BY <1>b, <2>11, <2>14 DEF Queue!LeaveClaim, TicketLegs, TicketSweeps
  <2>15. Queue!EndLeg(c)
    BY <1>2, <2>12, <2>13, <2>14 DEF Settle, Queue!EndLeg
  <2>16. QED
    BY <2>11, <2>15 DEF Queue!Next, TicketLegs
<1>3. QED
  BY <1>1, <1>2 DEF TaskStep

LEMMA RefineRetain ==
  ASSUME TypeInv, TicketInv, Retain
  PROVE  [Queue!Next]_Queue!vars
<1>1. got = NoJob /\ UNCHANGED <<tasks, got, swept>>
  BY DEF Retain, Goto, TypeInv, TypeOK, TicketInv, LoopInv
<1>2. TicketSweeps' = TicketSweeps /\ ExecLegs' = ExecLegs
  BY <1>1 DEF TicketSweeps, ExecLegs, Leg
<1>3. TicketLegs' = TicketLegs
  BY <1>1, <1>2, LegsAre, LegsWillBe
<1>4. CASE UNCHANGED jobs
  BY <1>2, <1>3, <1>4, QueueVars
<1>5. CASE \E old \in SUBSET Job : CleanupJobs(old)
  <2>1. Queue!Cleanup
    BY <1>2, <1>3, <1>5, QueueStore DEF Queue!Cleanup, TicketLegs, TicketSweeps
  <2>2. QED
    BY <2>1 DEF Queue!Next
<1>6. QED
  BY <1>4, <1>5 DEF Retain

LEMMA RefineDoors ==
  ASSUME TypeInv, TicketInv, NEW j \in Job,
         Door(j) \/ Wake(j) \/ Withdraw(j) \/ Ready(j) \/ Lapse(j)
  PROVE  [Queue!Next]_Queue!vars
<1>a. StoreTypeOK
  BY DEF TypeInv
<1>b. UNCHANGED <<tasks, got, swept>>
  BY DEF Door, Wake, Withdraw, Ready, Lapse, loop
<1>c. TicketSweeps' = TicketSweeps
  BY <1>b DEF TicketSweeps
<1>d. ASSUME \A k \in Job : AttemptStays(k)
      PROVE  UNCHANGED <<TicketLegs, TicketSweeps>>
  BY <1>b, <1>c, <1>d, LegsStay
<1>1. ASSUME NEW created \in Stamps, EnqueueJob(j, created) PROVE Queue!Enqueue(j)
  <2>1. UNCHANGED <<TicketLegs, TicketSweeps>>
    BY <1>a, <1>d, <1>1, MethodsKeepAttempts
  <2>2. QED
    BY <1>1, <2>1, QueueStore DEF Queue!Enqueue, TicketLegs, TicketSweeps
<1>2. ASSUME jobs[j].attempt < MaxBudget, RequeueJob(j),
             \A k \in Job : jobs[k].seq < MaxSeq
      PROVE  Queue!Requeue(j)
  <2>1. UNCHANGED <<TicketLegs, TicketSweeps>>
    BY <1>a, <1>d, <1>2, MethodsKeepAttempts
  <2>2. QED
    BY <1>2, <2>1, QueueStore DEF Queue!Requeue, TicketLegs, TicketSweeps
<1>3. ASSUME jobs[j].attempt < MaxBudget, ContinueJob(j) PROVE Queue!Continue(j)
  <2>1. UNCHANGED <<TicketLegs, TicketSweeps>>
    BY <1>a, <1>d, <1>3, MethodsKeepAttempts
  <2>2. QED
    BY <1>3, <2>1, QueueStore DEF Queue!Continue, TicketLegs, TicketSweeps
<1>4. ASSUME CancelJob(j) PROVE Queue!Cancel(j)
  <2>1. UNCHANGED <<TicketLegs, TicketSweeps>>
    BY <1>a, <1>d, <1>4, MethodsKeepAttempts
  <2>2. QED
    BY <1>4, <2>1, QueueStore DEF Queue!Cancel, TicketLegs, TicketSweeps
<1>5. ASSUME NEW status \in Terminal, SettlePausedJob(j, status) PROVE Queue!SettlePaused(j)
  <2>1. UNCHANGED <<TicketLegs, TicketSweeps>>
    BY <1>a, <1>d, <1>5, MethodsKeepAttempts
  <2>2. Queue!Terminal = Terminal
    BY DEF Queue!Terminal, Terminal
  <2>3. QED
    BY <1>5, <2>1, <2>2, QueueStore DEF Queue!SettlePaused, TicketLegs, TicketSweeps
<1>6. ASSUME LeaseLapses(j) PROVE Queue!Lapse(j)
  <2>1. UNCHANGED <<TicketLegs, TicketSweeps>>
    BY <1>a, <1>d, <1>6, MethodsKeepAttempts
  <2>2. QED
    BY <1>6, <2>1, QueueStore DEF Queue!Lapse, TicketLegs, TicketSweeps
<1>7. ASSUME BackoffEnds(j) PROVE Queue!Ready(j)
  <2>1. UNCHANGED <<TicketLegs, TicketSweeps>>
    BY <1>a, <1>d, <1>7, MethodsKeepAttempts
  <2>2. QED
    BY <1>7, <2>1, QueueStore DEF Queue!Ready, TicketLegs, TicketSweeps
<1>8. CASE Wake(j)
  <2>1. UNCHANGED <<jobs, TicketLegs, TicketSweeps>>
    BY <1>a, <1>d, <1>8, MethodsKeepAttempts DEF Wake
  <2>2. QED
    BY <2>1, QueueVars
<1>9. CASE Door(j)
  BY <1>1, <1>2, <1>3, <1>9 DEF Door, Queue!Next
<1>10. CASE Withdraw(j)
  BY <1>4, <1>5, <1>10 DEF Withdraw, Queue!Next
<1>11. CASE Ready(j) \/ Lapse(j)
  BY <1>6, <1>7, <1>11 DEF Ready, Lapse, Queue!Next
<1>12. QED
  BY <1>8, <1>9, <1>10, <1>11

LEMMA RefineStep ==
  ASSUME TypeInv, TicketInv, [Next]_vars
  PROVE  [Queue!Next]_Queue!vars
<1>a. ASSUME UNCHANGED <<jobs, tasks, got, swept>> PROVE UNCHANGED Queue!vars
  <2>1. UNCHANGED <<TicketLegs, TicketSweeps>>
    BY <1>a DEF TicketLegs, TicketSweeps, Leg
  <2>2. QED
    BY <1>a, <2>1, QueueVars
<1>1. CASE UNCHANGED vars
  BY <1>1, <1>a DEF vars, loop
<1>2. CASE SweepDone \/ \E j \in Job : SweepNext(j)
  BY <1>2, RefineSweep
<1>3. CASE \E j \in Job : StoreClaims(j)
  BY <1>3, RefineClaim
<1>4. CASE PollError \/ CallEnds
  BY <1>4, RefineLoss DEF PollError, CallEnds
<1>5. CASE Start
  BY <1>5, RefineStart
<1>6. CASE Retain
  BY <1>6, RefineRetain
<1>7. CASE SweepList \/ SweepEnds \/ Ask \/ StoreFindsNone \/ NoneLeft
  BY <1>a, <1>7 DEF SweepList, SweepEnds, Ask, StoreFindsNone, NoneLeft, Goto
<1>8. CASE Woken \/ Tick \/ SleepOver
  BY <1>a, <1>8 DEF Woken, Tick, SleepOver, Goto
<1>9. CASE Stop \/ DrainEnds \/ Stopped
  BY <1>a, <1>9 DEF Stop, DrainEnds, Stopped, loop
<1>10. CASE \E t \in tasks : TaskStep(t)
  BY <1>10, RefineTask
<1>11. CASE \E j \in Job : Door(j) \/ Wake(j) \/ Withdraw(j) \/ Ready(j) \/ Lapse(j)
  BY <1>11, RefineDoors
<1>12. QED
  BY <1>1, <1>2, <1>3, <1>4, <1>5, <1>6, <1>7, <1>8, <1>9, <1>10, <1>11
  DEF Next, Poll

LEMMA RefineInit == Init => Queue!Init
<1> SUFFICES ASSUME Init PROVE Queue!Init
  OBVIOUS
<1>1. TicketLegs = {}
  BY LegsAre DEF Init
<1>2. TicketSweeps = [w \in Worker |-> NoJob]
  BY DEF Init, TicketSweeps
<1>3. QED
  BY <1>1, <1>2, QueueStore DEF Init, Queue!Init, TicketLegs, TicketSweeps

LEMMA TicketInit == Init => TicketInv
  BY LoopAssumption DEF Init, TicketInv, LoopInv, FenceInv

\* A claim whose answer is on its way, one whose answer is lost and a leg still
\* running when the process is told to stop are each a leg of JobQueue: whatever
\* the loop, its tasks and stop() do, and however soon a ticket is claimable
\* again, the tickets behave as JobQueue says.
THEOREM TicketsRefine == Spec => QueueTickets
<1>1. TypeInv /\ TicketInv /\ [Next]_vars => (TypeInv /\ TicketInv)'
  BY TypeStep, LoopStep, FenceStep DEF TicketInv
<1>2. Init => TypeInv /\ TicketInv
  BY TypeInit, TicketInit
<1>3. TypeInv /\ TicketInv /\ [Next]_vars => [Queue!Next]_Queue!vars
  BY RefineStep
<1>4. QED
  BY <1>1, <1>2, <1>3, RefineInit, PTL DEF Spec, QueueTickets, Queue!Spec

-----------------------------------------------------------------------------
(* The table of runs in flight *)

\* The ticket cannot be claimed or swept.
Resting(j) ==
  /\ jobs[j].status = "queued" => ~jobs[j].due
  /\ jobs[j].status = "running" => ~jobs[j].stale

\* A task that has not returned is in the table, and its ticket rests.
Held(t) ==
  /\ t.attempt > 0
  /\ t.job # swept /\ t.job # got
  /\ t.state # "done" => Listed(t)
  /\ t.state = "exec" => OwnsLease(Self, t.job, t.attempt)
  /\ Resting(t.job)

\* A claim that is returning holds its ticket.
GotInv ==
  got # NoJob => /\ jobs[got].attempt > 0
                 /\ OwnsLease(Self, got, jobs[got].attempt)
                 /\ ~jobs[got].stale

OneTask == \A t, u \in tasks : t.job = u.job => t = u

HolderInv == GotInv /\ OneTask /\ \A t \in tasks : Held(t)

\* What stop() waits for is all that is left.
DrainInv ==
  /\ stop = "gather" =>
       \A t \in tasks : t.state # "done" => <<t.job, t.attempt>> \in gathered
  /\ StoppedIsQuiet

\* A ticket with a task is not touched, or comes to an end.
Untouched(k) ==
  \/ jobs'[k] = jobs[k]
  \/ jobs[k].status # "running" /\ jobs'[k].status \notin {"queued", "running"}

\* A step of the store that touches no ticket with a task.
LEMMA HolderByStore ==
  ASSUME HolderInv, UNCHANGED <<tasks, inFlight>>, GotInv',
         \A t \in tasks : /\ Untouched(t.job)
                          /\ t.job # swept' /\ t.job # got'
  PROVE  HolderInv'
<1>1. OneTask'
  BY DEF HolderInv, OneTask
<1>2. ASSUME NEW t \in tasks PROVE Held(t)'
  <2>1. Held(t)
    BY DEF HolderInv
  <2>2. t.job # swept' /\ t.job # got'
    OBVIOUS
  <2>3. CASE jobs'[t.job] = jobs[t.job]
    BY <2>1, <2>2, <2>3 DEF Held, Listed, OwnsLease, Resting
  <2>4. CASE jobs[t.job].status # "running" /\ jobs'[t.job].status \notin {"queued", "running"}
    BY <2>1, <2>2, <2>4 DEF Held, Listed, OwnsLease, Resting
  <2>5. QED
    BY <2>3, <2>4 DEF Untouched
<1>3. QED
  BY <1>1, <1>2 DEF HolderInv

\* The ticket that is being returned stays held while nobody writes it.
LEMMA GotStays ==
  ASSUME GotInv, got' \in {got, NoJob}, got' # NoJob => jobs'[got] = jobs[got]
  PROVE  GotInv'
  BY DEF GotInv, OwnsLease

LEMMA HolderBySweep ==
  ASSUME TypeInv, TicketInv, HolderInv, SweepDone \/ \E j \in Job : SweepNext(j)
  PROVE  HolderInv'
<1>1. /\ got = NoJob /\ got' = NoJob /\ UNCHANGED <<tasks, inFlight>>
      /\ jobs \in [Job -> Ticket] /\ NoJob \notin Job
      /\ \A t \in tasks : t.job \in Job /\ Held(t)
      /\ swept \in Job \cup {NoJob}
  BY LoopAssumption
  DEF SweepDone, SweepNext, TypeInv, TypeOK, Task, TicketInv, LoopInv, HolderInv
<1>2. GotInv'
  BY <1>1 DEF GotInv
<1>3. ASSUME NEW j \in Job, SweepNext(j), AcquireSweep(Self, j), swept' = j
      PROVE  HolderInv'
  <2>1. \A k \in Job \ {j} : jobs'[k] = jobs[k]
    BY <1>1, <1>3 DEF AcquireSweep
  <2>2. \A t \in tasks : t.job # j
    BY <1>1, <1>3 DEF Held, Resting, AcquireSweep, Sweepable
  <2>3. QED
    BY <1>1, <1>2, <1>3, <2>1, <2>2, HolderByStore DEF Untouched
<1>4. ASSUME UNCHANGED <<jobs, swept>> PROVE HolderInv'
  BY <1>1, <1>2, <1>4, HolderByStore DEF Untouched, Held
<1>5. CASE SweepDone
  <2>1. swept \in Job /\ swept' = NoJob
    BY <1>1, <1>5 DEF SweepDone
  <2>2. \A k \in Job \ {swept} : jobs'[k] = jobs[k]
    BY <1>1, <1>5, <2>1 DEF SweepDone, SettleSweptJob
  <2>3. \A t \in tasks : t.job # swept
    BY <1>1 DEF Held
  <2>4. QED
    BY <1>1, <1>2, <2>1, <2>2, <2>3, HolderByStore DEF Untouched
<1>6. QED
  BY <1>3, <1>4, <1>5 DEF SweepNext

LEMMA HolderByClaim ==
  ASSUME TypeInv, TicketInv, HolderInv, NEW j \in Job, StoreClaims(j)
  PROVE  HolderInv'
<1>1. /\ got' = j /\ swept = NoJob /\ UNCHANGED <<tasks, inFlight, swept>>
      /\ jobs \in [Job -> Ticket] /\ Self \in Worker /\ NoJob \notin Job
      /\ \A t \in tasks : t.job \in Job /\ Held(t)
  BY LoopAssumption
  DEF StoreClaims, TypeInv, TypeOK, Task, TicketInv, LoopInv, HolderInv
<1>2. Candidate(Self, j) /\ jobs' = [jobs EXCEPT ![j] = Claimed(j, Self)]
  BY DEF StoreClaims, ClaimJob
<1>3. /\ jobs'[j] = Claimed(j, Self) /\ \A k \in Job \ {j} : jobs'[k] = jobs[k]
  BY <1>1, <1>2
<1>4. /\ Claimed(j, Self).status = "running" /\ Claimed(j, Self).lockedBy = Self
      /\ Claimed(j, Self).stale = FALSE /\ Claimed(j, Self).attempt > 0
  BY <1>1 DEF Claimed, Ticket
<1>5. GotInv'
  BY <1>1, <1>3, <1>4 DEF GotInv, OwnsLease
<1>6. \A t \in tasks : t.job # j
  BY <1>1, <1>2 DEF Held, Resting, Candidate, Reclaimable
<1>7. QED
  BY <1>1, <1>3, <1>5, <1>6, HolderByStore DEF Untouched

LEMMA HolderByStart ==
  ASSUME TypeInv, TicketInv, HolderInv, Start
  PROVE  HolderInv'
<1>1. /\ got \in Job /\ got' = NoJob /\ UNCHANGED <<jobs, swept>> /\ swept = NoJob
      /\ inFlight' = [inFlight EXCEPT ![got] = jobs[got].attempt]
      /\ inFlight \in [Job -> Nat] /\ NoJob \notin Job
      /\ \A t \in tasks : t.job \in Job /\ Held(t)
      /\ GotInv /\ OneTask
  BY LoopAssumption
  DEF Start, TypeInv, TypeOK, Task, TicketInv, LoopInv, HolderInv
<1>2. PICK n : n = [job |-> got, attempt |-> jobs[got].attempt, state |-> "exec"]
  OBVIOUS
<1>3. /\ tasks' = tasks \cup {n} /\ n.job = got /\ n.attempt = jobs[got].attempt
      /\ n.state = "exec"
  BY <1>2 DEF Start
<1>4. \A t \in tasks : t.job # got
  BY <1>1 DEF Held
<1>5. Held(n)'
  BY <1>1, <1>3 DEF Held, Listed, GotInv, OwnsLease, Resting
<1>6. ASSUME NEW t \in tasks PROVE Held(t)'
  <2>1. Held(t) /\ t.job \in Job /\ t.job # got /\ t.job # NoJob
    BY <1>1, <1>4
  <2>2. QED
    BY <1>1, <2>1 DEF Held, Listed, OwnsLease, Resting
<1>7. OneTask'
  BY <1>1, <1>3, <1>4 DEF OneTask
<1>8. GotInv'
  BY <1>1 DEF GotInv
<1>9. QED
  BY <1>3, <1>5, <1>6, <1>7, <1>8 DEF HolderInv

\* Pruning only drops entries of tasks that are done.
LEMMA HolderByAsk ==
  ASSUME TypeInv, HolderInv, Ask
  PROVE  HolderInv'
<1>1. /\ inFlight' = Pruned /\ UNCHANGED <<jobs, tasks, swept, got>>
      /\ \A t \in tasks : t.job \in Job /\ Held(t)
  BY DEF Ask, Goto, HolderInv, TypeInv, TypeOK, Task
<1>2. ASSUME NEW t \in tasks PROVE Held(t)'
  <2>1. Held(t)
    BY <1>1
  <2>2. t.state # "done" => inFlight'[t.job] = inFlight[t.job]
    BY <1>1 DEF Pruned, HolderInv, OneTask
  <2>3. QED
    BY <1>1, <2>1, <2>2 DEF Held, Listed, OwnsLease, Resting
<1>3. QED
  BY <1>1, <1>2 DEF HolderInv, OneTask, GotInv, OwnsLease

LEMMA HolderByTask ==
  ASSUME "quick" \notin Env, TypeInv, TicketInv, HolderInv,
         NEW t \in tasks, TaskStep(t)
  PROVE  HolderInv'
<1>a. /\ \A u \in tasks : u \in Task /\ u.job \in Job /\ Held(u)
      /\ UNCHANGED <<swept, got>> /\ OneTask /\ GotInv
      /\ inFlight \in [Job -> Nat] /\ jobs \in [Job -> Ticket]
  BY DEF TaskStep, Settle, Return, Discard, loop, HolderInv, TypeInv, TypeOK, Task
<1>b. \A u \in tasks \ {t} : u.job # t.job
  BY <1>a DEF OneTask
<1>c. Held(t) /\ t.job \in Job
  BY <1>a
<1>1. CASE Discard(t)
  <2>1. /\ tasks' = tasks \ {t} /\ jobs' = jobs
        /\ inFlight' = [inFlight EXCEPT ![t.job] = 0]
    BY <1>1 DEF Discard
  <2>2. ASSUME NEW u \in tasks \ {t} PROVE Held(u)'
    <3>1. Held(u) /\ u.job # t.job /\ inFlight'[u.job] = inFlight[u.job]
      BY <1>a, <1>b, <2>1
    <3>2. QED
      BY <1>a, <2>1, <3>1 DEF Held, Listed, OwnsLease, Resting
  <2>3. OneTask' /\ GotInv'
    BY <1>a, <2>1 DEF OneTask, GotInv, OwnsLease
  <2>4. QED
    BY <2>1, <2>2, <2>3 DEF HolderInv
<1>2. ASSUME NEW state \in {"settled", "done"}, Becomes(t, state), inFlight' = inFlight,
             t.state # "done" \/ state = "done",
             \A k \in Job \ {t.job} : jobs'[k] = jobs[k],
             Resting(t.job)'
      PROVE  HolderInv'
  <2>1. PICK n : n = [t EXCEPT !.state = state]
    OBVIOUS
  <2>2. /\ tasks' = (tasks \ {t}) \cup {n} /\ n.job = t.job /\ n.attempt = t.attempt
        /\ n.state = state
    BY <1>2, <1>a, <2>1 DEF Becomes, Task
  <2>3. Held(n)'
    BY <1>2, <1>a, <1>c, <2>2 DEF Held, Listed, Resting
  <2>4. ASSUME NEW u \in tasks \ {t} PROVE Held(u)'
    <3>1. Held(u) /\ jobs'[u.job] = jobs[u.job]
      BY <1>a, <1>b, <1>2
    <3>2. QED
      BY <1>a, <1>2, <3>1 DEF Held, Listed, OwnsLease, Resting
  <2>5. OneTask'
    BY <1>a, <1>b, <2>2 DEF OneTask
  <2>6. GotInv'
    <3>1. got # NoJob => got \in Job \ {t.job}
      BY <1>c DEF Held, TypeInv, TypeOK
    <3>2. QED
      BY <1>a, <1>2, <3>1 DEF GotInv, OwnsLease
  <2>7. QED
    BY <2>2, <2>3, <2>4, <2>5, <2>6 DEF HolderInv
<1>3. CASE Return(t)
  BY <1>2, <1>3, <1>c DEF Return, Held, Resting
<1>4. CASE Settle(t)
  <2>1. \A k \in Job \ {t.job} : jobs'[k] = jobs[k]
    BY <1>4, <1>a, <1>c DEF Settle, CompleteJob, RetryOrFailJob
  <2>2. CASE UNCHANGED jobs
    BY <1>2, <1>4, <1>c, <2>1, <2>2 DEF Settle, Held, Resting
  <2>3. ASSUME NEW status \in {"completed", "cancelled", "failed", "paused"},
               CompleteJob(Self, t.job, t.attempt, status)
        PROVE  HolderInv'
    <3>1. jobs'[t.job].status = status
      BY <1>a, <1>c, <2>3 DEF CompleteJob, Settled, Ticket
    <3>2. Resting(t.job)'
      BY <3>1 DEF Resting
    <3>3. QED
      BY <1>2, <1>4, <2>1, <3>2 DEF Settle
  <2>4. ASSUME NEW due \in BOOLEAN, due => "quick" \in Env,
               RetryOrFailJob(Self, t.job, t.attempt, due)
        PROVE  HolderInv'
    <3>1. ~due
      BY <2>4
    <3>2. CASE jobs[t.job].attempt < jobs[t.job].maxAttempts
      <4>1. jobs'[t.job] = [Settled(t.job, "queued") EXCEPT !.due = due]
        BY <1>a, <1>c, <2>4, <3>2 DEF RetryOrFailJob
      <4>2. jobs'[t.job].status = "queued" /\ jobs'[t.job].due = due
        BY <1>a, <1>c, <4>1 DEF Settled, Ticket
      <4>3. Resting(t.job)'
        BY <3>1, <4>2 DEF Resting
      <4>4. QED
        BY <1>2, <1>4, <2>1, <4>3 DEF Settle
    <3>3. CASE ~(jobs[t.job].attempt < jobs[t.job].maxAttempts)
      <4>1. jobs'[t.job] = Settled(t.job, "failed")
        BY <1>a, <1>c, <2>4, <3>3 DEF RetryOrFailJob
      <4>2. jobs'[t.job].status = "failed"
        BY <1>a, <1>c, <4>1 DEF Settled, Ticket
      <4>3. Resting(t.job)'
        BY <4>2 DEF Resting
      <4>4. QED
        BY <1>2, <1>4, <2>1, <4>3 DEF Settle
    <3>4. QED
      BY <3>2, <3>3
  <2>5. QED
    BY <1>4, <2>2, <2>3, <2>4 DEF Settle
<1>5. QED
  BY <1>1, <1>3, <1>4 DEF TaskStep

LEMMA HolderByRetain ==
  ASSUME TypeInv, TicketInv, HolderInv, Retain
  PROVE  HolderInv'
<1>1. /\ got = NoJob /\ UNCHANGED <<tasks, inFlight, got, swept>>
      /\ jobs \in [Job -> Ticket] /\ \A t \in tasks : t.job \in Job /\ Held(t)
  BY DEF Retain, Goto, TypeInv, TypeOK, Task, TicketInv, LoopInv, HolderInv
<1>2. GotInv'
  BY <1>1 DEF GotInv
<1>3. \A k \in Job : Untouched(k)
  BY <1>1 DEF Retain, CleanupJobs, NoTicket, Untouched, Terminal
<1>4. QED
  BY <1>1, <1>2, <1>3, HolderByStore DEF Held

LEMMA HolderByDoor ==
  ASSUME "quick" \notin Env, TypeInv, TicketInv, HolderInv, NEW j \in Job,
         Door(j) \/ Wake(j) \/ Withdraw(j) \/ Ready(j) \/ Lapse(j)
  PROVE  HolderInv'
<1>1. /\ UNCHANGED <<tasks, inFlight, got, swept>>
      /\ jobs \in [Job -> Ticket] /\ got \in Job \cup {NoJob}
      /\ GotInv
      /\ \A t \in tasks : t.job \in Job /\ Held(t) /\ Fenced(t)
  BY DEF Door, Wake, Withdraw, Ready, Lapse, loop, TypeInv, TypeOK, Task, HolderInv,
         TicketInv, FenceInv
<1>2. ASSUME \A k \in Job \ {j} : jobs'[k] = jobs[k],
             got # j, \A t \in tasks : t.job = j => Untouched(j)
      PROVE  HolderInv'
  <2>1. GotInv'
    BY <1>1, <1>2, GotStays
  <2>2. QED
    BY <1>1, <1>2, <2>1, HolderByStore DEF Untouched, Held
<1>3. ASSUME jobs' = jobs PROVE HolderInv'
  <2>1. GotInv'
    BY <1>1, <1>3, GotStays
  <2>2. QED
    BY <1>1, <1>3, <2>1, HolderByStore DEF Untouched, Held
<1>4. got = j => jobs[j].status = "running"
  BY <1>1, LoopAssumption DEF GotInv, OwnsLease
<1>5. \A t \in tasks : t.job = j => jobs[j].status # "absent"
  BY <1>1 DEF Fenced
<1>6. CASE Door(j)
  <2>1. \A k \in Job \ {j} : jobs'[k] = jobs[k]
    BY <1>1, <1>6 DEF Door, EnqueueJob, RequeueJob, ContinueJob
  <2>2. jobs[j].status # "running"
    BY <1>6 DEF Door, EnqueueJob, RequeueJob, ContinueJob
  <2>3. \A t \in tasks : t.job # j
    BY <1>5, <1>6 DEF Door, EnqueueJob, Returned
  <2>4. QED
    BY <1>2, <1>4, <2>1, <2>2, <2>3
<1>7. CASE Withdraw(j)
  <2>1. /\ \A k \in Job \ {j} : jobs'[k] = jobs[k]
        /\ jobs[j].status # "running"
    BY <1>1, <1>7 DEF Withdraw, CancelJob, SettlePausedJob
  <2>2. jobs'[j].status \notin {"queued", "running"}
    <3>1. CASE CancelJob(j)
      BY <1>1, <3>1 DEF CancelJob, Ticket
    <3>2. CASE \E status \in Terminal : SettlePausedJob(j, status)
      BY <1>1, <3>2 DEF SettlePausedJob, Settled, Ticket, Terminal
    <3>3. QED
      BY <1>7, <3>1, <3>2 DEF Withdraw
  <2>3. QED
    BY <1>2, <1>4, <2>1, <2>2 DEF Untouched
<1>8. CASE Ready(j)
  <2>1. /\ \A k \in Job \ {j} : jobs'[k] = jobs[k]
        /\ jobs[j].status # "running" /\ \A t \in tasks : t.job # j
    BY <1>1, <1>8 DEF Ready, BackoffEnds, Returned
  <2>2. QED
    BY <1>2, <1>4, <2>1
<1>9. CASE Lapse(j)
  <2>1. \A k \in Job \ {j} : jobs'[k] = jobs[k]
    BY <1>1, <1>9 DEF Lapse, LeaseLapses
  <2>2. got # j /\ \A t \in tasks : t.job # j
    BY <1>1, <1>9 DEF Lapse, Held, Listed
  <2>3. QED
    BY <1>2, <2>1, <2>2
<1>10. CASE Wake(j)
  BY <1>3, <1>10 DEF Wake
<1>11. QED
  BY <1>6, <1>7, <1>8, <1>9, <1>10

LEMMA HolderStep ==
  ASSUME "quick" \notin Env, TypeInv, TicketInv, HolderInv, DrainInv, [Next]_vars
  PROVE  HolderInv'
<1>a. ASSUME UNCHANGED <<jobs, tasks, inFlight, swept>>, got' \in {got, NoJob}
      PROVE  HolderInv'
  <2>1. GotInv'
    BY <1>a, GotStays DEF HolderInv
  <2>2. \A t \in tasks : Untouched(t.job) /\ t.job # swept' /\ t.job # got'
    BY <1>a, LoopAssumption
    DEF HolderInv, Held, Untouched, TypeInv, TypeOK, Task
  <2>3. QED
    BY <1>a, <2>1, <2>2, HolderByStore
<1>1. CASE UNCHANGED vars
  BY <1>1, <1>a DEF vars, loop
<1>2. CASE SweepDone \/ \E j \in Job : SweepNext(j)
  BY <1>2, HolderBySweep
<1>3. CASE \E j \in Job : StoreClaims(j)
  BY <1>3, HolderByClaim
<1>4. CASE PollError \/ CallEnds
  BY <1>4, <1>a DEF PollError, CallEnds
<1>5. CASE Start \/ Retain \/ Ask
  BY <1>5, HolderByStart, HolderByRetain, HolderByAsk
<1>6. CASE SweepList \/ SweepEnds \/ StoreFindsNone \/ NoneLeft
  BY <1>a, <1>6 DEF SweepList, SweepEnds, StoreFindsNone, NoneLeft, Goto
<1>7. CASE Woken \/ Tick \/ SleepOver
  BY <1>a, <1>7 DEF Woken, Tick, SleepOver, Goto
<1>8. CASE Stop \/ DrainEnds
  BY <1>a, <1>8 DEF Stop, DrainEnds, loop
<1>9. CASE Stopped
  <2>1. /\ UNCHANGED <<jobs, tasks, got, swept>> /\ stop = "gather"
        /\ \A t \in tasks : <<t.job, t.attempt>> \in gathered => t.state = "done"
    BY <1>9 DEF Stopped, loop
  <2>2. \A t \in tasks : t.state = "done"
    BY <2>1 DEF DrainInv
  <2>3. ASSUME NEW t \in tasks PROVE Held(t)'
    BY <2>1, <2>2, <2>3 DEF HolderInv, Held, Resting
  <2>4. QED
    BY <2>1, <2>3 DEF HolderInv, OneTask, GotInv, OwnsLease
<1>10. CASE \E t \in tasks : TaskStep(t)
  BY <1>10, HolderByTask
<1>11. CASE \E j \in Job : Door(j) \/ Wake(j) \/ Withdraw(j) \/ Ready(j) \/ Lapse(j)
  BY <1>11, HolderByDoor
<1>12. QED
  BY <1>1, <1>2, <1>3, <1>4, <1>5, <1>6, <1>7, <1>8, <1>9, <1>10, <1>11
  DEF Next, Poll

LEMMA DrainStep ==
  ASSUME TypeInv, LoopInv, HolderInv, DrainInv, [Next]_vars
  PROVE  DrainInv'
<1>a. ASSUME UNCHANGED <<gathered, stop>>,
             \A t \in tasks' : t.state # "done" =>
               \E u \in tasks : /\ u.state # "done"
                                /\ u.job = t.job /\ u.attempt = t.attempt
      PROVE  DrainInv'
  BY <1>a DEF DrainInv, StoppedIsQuiet
<1>b. UNCHANGED <<stop, gathered, tasks>> => DrainInv'
  BY DEF DrainInv, StoppedIsQuiet
<1>1. CASE UNCHANGED vars
  BY <1>1, <1>b DEF vars
<1>2. CASE SweepList \/ (\E j \in Job : SweepNext(j)) \/ SweepDone \/ SweepEnds
  BY <1>b, <1>2 DEF SweepList, SweepNext, SweepDone, SweepEnds
<1>3. CASE Ask \/ StoreFindsNone \/ NoneLeft \/ \E j \in Job : StoreClaims(j)
  BY <1>b, <1>3 DEF Ask, StoreFindsNone, NoneLeft, StoreClaims
<1>4. CASE Start
  <2>1. stop = "no" /\ stop' = "no"
    BY <1>4 DEF Start, TypeInv, TypeOK
  <2>2. QED
    BY <2>1 DEF DrainInv, StoppedIsQuiet
<1>5. CASE Retain \/ Woken \/ Tick \/ PollError \/ SleepOver
  BY <1>b, <1>5 DEF Retain, Woken, Tick, PollError, SleepOver
<1>6. ASSUME NEW t \in tasks, TaskStep(t) PROVE DrainInv'
  <2>1. t \in Task
    BY DEF TypeInv, TypeOK
  <2>2. \A state : /\ [t EXCEPT !.state = state].job = t.job
                   /\ [t EXCEPT !.state = state].attempt = t.attempt
                   /\ [t EXCEPT !.state = state].state = state
    BY <2>1 DEF Task
  <2>3. \A u \in tasks' : u.state # "done" =>
          \E v \in tasks : /\ v.state # "done"
                           /\ v.job = u.job /\ v.attempt = u.attempt
    <3>1. CASE Settle(t)
      <4>1. /\ t.state # "done"
            /\ tasks' = (tasks \ {t}) \cup {[t EXCEPT !.state = "settled"]}
        BY <3>1 DEF Settle, Becomes
      <4>2. PICK n : n = [t EXCEPT !.state = "settled"]
        OBVIOUS
      <4>3. n.job = t.job /\ n.attempt = t.attempt
        BY <2>2, <4>2
      <4>4. tasks' = (tasks \ {t}) \cup {n}
        BY <4>1, <4>2
      <4>5. QED
        BY <4>1, <4>3, <4>4
    <3>2. CASE Return(t)
      BY <2>2, <3>2 DEF Return, Becomes
    <3>3. CASE Discard(t)
      BY <3>3 DEF Discard
    <3>4. QED
      BY <1>6, <3>1, <3>2, <3>3 DEF TaskStep
  <2>4. UNCHANGED <<stop, gathered>>
    BY <1>6 DEF TaskStep, Settle, Return, Discard
  <2>5. QED
    BY <1>a, <2>3, <2>4
<1>7. CASE Stop \/ CallEnds
  BY <1>7, <1>b DEF Stop, CallEnds, DrainInv, StoppedIsQuiet
<1>8. CASE DrainEnds
  <2>1. ASSUME NEW t \in tasks, t.state # "done"
        PROVE  <<t.job, t.attempt>> \in gathered'
    <3>1. t.job \in Job /\ inFlight[t.job] = t.attempt /\ t.attempt > 0 /\ t.attempt \in Nat
      BY <2>1 DEF HolderInv, Held, Listed, TypeInv, TypeOK, Task
    <3>2. t.job \in {k \in Job : inFlight[k] # 0}
      BY <3>1
    <3>3. QED
      BY <1>8, <3>1, <3>2 DEF DrainEnds
  <2>2. tasks' = tasks /\ stop' = "gather"
    BY <1>8 DEF DrainEnds
  <2>3. QED
    BY <2>1, <2>2 DEF DrainInv, StoppedIsQuiet
<1>9. CASE Stopped
  BY <1>9 DEF Stopped, DrainInv, StoppedIsQuiet
<1>10. ASSUME NEW j \in Job, Door(j) \/ Wake(j) \/ Withdraw(j) \/ Ready(j) \/ Lapse(j)
       PROVE  DrainInv'
  BY <1>b, <1>10 DEF Door, Wake, Withdraw, Ready, Lapse
<1>11. QED
  BY <1>1, <1>2, <1>3, <1>4, <1>5, <1>6, <1>7, <1>8, <1>9, <1>10 DEF Next, Poll

LEMMA HolderInit == Init => HolderInv /\ DrainInv
  BY DEF Init, HolderInv, GotInv, OneTask, DrainInv, StoppedIsQuiet

LEMMA HolderHolds ==
  ASSUME "quick" \notin Env
  PROVE  Spec => [](TypeInv /\ TicketInv /\ HolderInv /\ DrainInv)
<1>1. Init => TypeInv /\ TicketInv /\ HolderInv /\ DrainInv
  BY TypeInit, TicketInit, HolderInit
<1>2. TypeInv /\ TicketInv /\ HolderInv /\ DrainInv /\ [Next]_vars
        => (TypeInv /\ TicketInv /\ HolderInv /\ DrainInv)'
  BY TypeStep, LoopStep, FenceStep, HolderStep, DrainStep DEF TicketInv
<1>3. QED
  BY <1>1, <1>2, PTL DEF Spec

\* A leg that holds its ticket is in _in_flight, for any number of tickets and
\* any cap, as long as no ticket is claimable again before its task has returned:
\* then the done callback, which removes the entry of its run whichever task that
\* is for, removes its own.
THEOREM HoldersAreListed ==
  ASSUME "quick" \notin Env
  PROVE  Spec => []HolderIsInFlight
<1>1. HolderInv => HolderIsInFlight
  BY DEF HolderInv, Held, HolderIsInFlight
<1>2. QED
  BY <1>1, HolderHolds, PTL

\* Under the same condition stop() returns with no run executing: every task that
\* was not done when the drain ended is among those it gathers.
THEOREM StopIsQuiet ==
  ASSUME "quick" \notin Env
  PROVE  Spec => []StoppedIsQuiet
<1>1. DrainInv => StoppedIsQuiet
  BY DEF DrainInv
<1>2. QED
  BY <1>1, HolderHolds, PTL
=============================================================================
