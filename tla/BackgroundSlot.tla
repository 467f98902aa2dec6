--------------------------- MODULE BackgroundSlot ---------------------------
(***************************************************************************)
(* The execution slot of a background run: background_run_slot of          *)
(* agno/run/concurrency.py.  A run races the acquire of an asyncio         *)
(* semaphore, made in a task of its own, against its cancellation, which   *)
(* it polls; whoever stops waiting gives back what the acquire may have    *)
(* won in the meantime.  The tasks share one event loop: an action is what *)
(* one of them does between two awaits.  The semaphore is the library's    *)
(* (CPython 3.11): its value, and its line of waiters in which a release   *)
(* grants the first that is not done.                                      *)
(***************************************************************************)
EXTENDS Naturals, FiniteSets

CONSTANTS
  Run,            \* background runs
  Limits,         \* the limits set_background_max_concurrency is called with
  Env,            \* what the environment may do, see below
  MaxSemaphores   \* bound: semaphores made, one per change of the limit seen

\* cancel      cancel_run stores the intent of a run
\* interrupt   the task of a run is cancelled
\* checkFault  the cancellation manager raises
EnvElement == {"cancel", "interrupt", "checkFault"}

ASSUME SlotAssumption ==
  /\ IsFiniteSet(Run)
  /\ Limits \subseteq Nat
  /\ Env \subseteq EnvElement
  /\ MaxSemaphores \in Nat

Sem == 1 .. MaxSemaphores

VARIABLES
  limit,     \* get_background_max_concurrency(), 0 when limiting is disabled
  latest,    \* the semaphore cached for the event loop, 0 for none
  capacity,  \* what a semaphore was made with
  value,     \* Semaphore._value
  pc,        \* where the run is in background_run_slot
  sem,       \* the semaphore it uses, 0 when it needs none
  acq,       \* its acquire task
  ahead,     \* who was in the line (Semaphore._waiters) when it joined
  intents    \* the runs whose cancellation is stored

semaphores == <<limit, latest, capacity>>
vars == <<semaphores, value, pc, sem, acq, ahead, intents>>

\* new       not started           dropped    cancelled before it started
\* pending   its future waits      withdrawn  cancelled while it waited
\* granted   its future has a      revoked    cancelled after the grant
\*           result, it has not resumed
\* won       it is done            void       it is done: cancelled
Acquire ==
  {"none", "new", "dropped", "pending", "withdrawn", "granted", "revoked", "won", "void"}

TypeOK ==
  /\ limit \in Nat
  /\ latest \in 0 .. MaxSemaphores
  /\ capacity \in [Sem -> Nat]
  /\ value \in [Sem -> Nat]
  /\ pc \in [Run -> {"out", "checking", "racing", "polling", "undoing", "running", "left"}]
  /\ sem \in [Run -> 0 .. MaxSemaphores]
  /\ acq \in [Run -> Acquire]
  /\ ahead \in [Run -> SUBSET Run]
  /\ intents \in SUBSET Run

Init ==
  /\ limit \in Limits
  /\ latest = 0
  /\ capacity = [s \in Sem |-> 0] /\ value = [s \in Sem |-> 0]
  /\ pc = [r \in Run |-> "out"]
  /\ sem = [r \in Run |-> 0]
  /\ acq = [r \in Run |-> "none"]
  /\ ahead = [r \in Run |-> {}]
  /\ intents = {}

-----------------------------------------------------------------------------
(* asyncio.Semaphore *)

InLine(s) ==
  {r \in Run : sem[r] = s /\ acq[r] \in {"pending", "withdrawn", "granted", "revoked"}}

\* A waiter whose future was cancelled does not count, a granted one does.
Locked(s) == value[s] = 0 \/ \E r \in InLine(s) : acq[r] # "withdrawn"

\* _wake_up_next of a semaphore whose value is v, the acquire tasks being a
WakeUpNext(s, v, a) ==
  LET waiting == {r \in Run : sem[r] = s /\ a[r] = "pending"}
  IN  \/ /\ waiting = {}
         /\ value' = [value EXCEPT ![s] = v]
         /\ acq' = a
      \/ \E r \in waiting :
           /\ ahead[r] \cap waiting = {}
           /\ value' = [value EXCEPT ![s] = v - 1]
           /\ acq' = [a EXCEPT ![r] = "granted"]

\* Mutant: a release leaves the waiters asleep.
ReleaseWithoutWake(r, next) ==
  /\ value' = [value EXCEPT ![sem[r]] = @ + 1]
  /\ acq' = [acq EXCEPT ![r] = next]

\* release() of the permit of r, whose acquire task goes on to `next`
Release(r, next) ==
  WakeUpNext(sem[r], value[sem[r]] + 1, [acq EXCEPT ![r] = next])

\* The first step of the acquire task.
AcquireStarts(r) ==
  /\ acq[r] = "new"
  /\ \/ /\ Locked(sem[r])
        /\ acq' = [acq EXCEPT ![r] = "pending"]
        /\ ahead' = [ahead EXCEPT ![r] = InLine(sem[r])]
        /\ UNCHANGED value
     \/ /\ ~Locked(sem[r])
        /\ acq' = [acq EXCEPT ![r] = "won"]
        /\ value' = [value EXCEPT ![sem[r]] = @ - 1]
        /\ UNCHANGED ahead
  /\ UNCHANGED <<semaphores, pc, sem, intents>>

\* It resumes with a permit, and wakes the next waiter if there are more.
AcquireResumes(r) ==
  LET s == sem[r]
      resumed == [acq EXCEPT ![r] = "won"]
  IN  /\ acq[r] = "granted"
      /\ \/ value[s] > 0 /\ WakeUpNext(s, value[s], resumed)
         \/ value[s] = 0 /\ acq' = resumed /\ UNCHANGED value
      /\ UNCHANGED <<semaphores, pc, sem, ahead, intents>>

\* Mutant: an acquire that is cancelled after the grant keeps the permit.
AcquireForgets(r) ==
  /\ acq[r] \in {"revoked", "withdrawn", "dropped"}
  /\ acq' = [acq EXCEPT ![r] = "void"]
  /\ UNCHANGED <<semaphores, value, pc, sem, ahead, intents>>

\* It resumes with CancelledError: after a grant the permit goes back.
AcquireCancelled(r) ==
  /\ \/ acq[r] = "revoked" /\ Release(r, "void")
     \/ /\ acq[r] \in {"withdrawn", "dropped"}
        /\ acq' = [acq EXCEPT ![r] = "void"]
        /\ UNCHANGED value
  /\ UNCHANGED <<semaphores, pc, sem, ahead, intents>>

-----------------------------------------------------------------------------
(* background_run_slot *)

SetLimit(n) ==
  /\ n # limit /\ limit' = n
  /\ UNCHANGED <<latest, capacity, value, pc, sem, acq, ahead, intents>>

\* Limiting is disabled: no semaphore, and no look at the intent.
EnterUnlimited(r) ==
  /\ pc[r] = "out" /\ limit = 0
  /\ pc' = [pc EXCEPT ![r] = "running"]
  /\ UNCHANGED <<semaphores, value, sem, acq, ahead, intents>>

\* The cached semaphore, or a new one if the limit is no longer the one it
\* was made with.
Enter(r) ==
  /\ pc[r] = "out" /\ limit > 0
  /\ \/ /\ latest \in Sem /\ capacity[latest] = limit
        /\ UNCHANGED <<latest, capacity, value>>
     \/ /\ latest < MaxSemaphores
        /\ latest \in Sem => capacity[latest] # limit
        /\ latest' = latest + 1
        /\ capacity' = [capacity EXCEPT ![latest'] = limit]
        /\ value' = [value EXCEPT ![latest'] = limit]
  /\ sem' = [sem EXCEPT ![r] = latest']
  /\ pc' = [pc EXCEPT ![r] = "checking"]
  /\ UNCHANGED <<limit, acq, ahead, intents>>

\* The await of ais_cancelled ends in an exception, the check's own or not.
CheckRaises(r) == r \in intents \/ {"checkFault", "interrupt"} \cap Env # {}

\* The first check; then ensure_future(semaphore.acquire()).
Check(r) ==
  /\ pc[r] = "checking" /\ r \notin intents
  /\ pc' = [pc EXCEPT ![r] = "racing"]
  /\ acq' = [acq EXCEPT ![r] = "new"]
  /\ UNCHANGED <<semaphores, value, sem, ahead, intents>>

CheckFails(r) ==
  /\ pc[r] = "checking" /\ CheckRaises(r)
  /\ pc' = [pc EXCEPT ![r] = "left"]
  /\ UNCHANGED <<semaphores, value, sem, acq, ahead, intents>>

\* asyncio.wait returns with the acquire task done.
Won(r) ==
  /\ pc[r] = "racing" /\ acq[r] = "won"
  /\ pc' = [pc EXCEPT ![r] = "running"]
  /\ UNCHANGED <<semaphores, value, sem, acq, ahead, intents>>

\* asyncio.wait times out: the intent is polled.
TimesOut(r) ==
  /\ pc[r] = "racing" /\ acq[r] # "won"
  /\ pc' = [pc EXCEPT ![r] = "polling"]
  /\ UNCHANGED <<semaphores, value, sem, acq, ahead, intents>>

\* Mutant: the intent is checked only before the wait.
PollsOnRegardless(r) ==
  /\ pc[r] = "polling"
  /\ pc' = [pc EXCEPT ![r] = "racing"]
  /\ UNCHANGED <<semaphores, value, sem, acq, ahead, intents>>

PollsOn(r) ==
  /\ pc[r] = "polling" /\ r \notin intents
  /\ pc' = [pc EXCEPT ![r] = "racing"]
  /\ UNCHANGED <<semaphores, value, sem, acq, ahead, intents>>

\* What cancelling the acquire task does to it, by where it is.
CancelledAt ==
  [new |-> "dropped", pending |-> "withdrawn", granted |-> "revoked"]

\* Mutant: an acquire that has won is only cancelled, which does nothing.
GiveUpWithoutRelease(r) ==
  /\ \/ pc[r] = "polling" /\ CheckRaises(r)
     \/ pc[r] = "racing" /\ "interrupt" \in Env
  /\ acq' = [acq EXCEPT ![r] = IF @ = "won" THEN "none" ELSE CancelledAt[@]]
  /\ pc' = [pc EXCEPT ![r] = IF acq[r] = "won" THEN "left" ELSE "undoing"]
  /\ UNCHANGED <<semaphores, value, sem, ahead, intents>>

\* Mutant: the cancelled acquire task is not awaited.
GiveUpWithoutAwait(r) ==
  /\ \/ pc[r] = "polling" /\ CheckRaises(r)
     \/ pc[r] = "racing" /\ "interrupt" \in Env
  /\ \/ acq[r] = "won" /\ Release(r, "none")
     \/ acq[r] # "won" /\ acq' = [acq EXCEPT ![r] = CancelledAt[@]] /\ UNCHANGED value
  /\ pc' = [pc EXCEPT ![r] = "left"]
  /\ UNCHANGED <<semaphores, sem, ahead, intents>>

\* except BaseException: the permit the acquire has won is released, an
\* acquire that is not done is cancelled and awaited.
GiveUp(r) ==
  /\ \/ pc[r] = "polling" /\ CheckRaises(r)
     \/ pc[r] = "racing" /\ "interrupt" \in Env
  /\ \/ /\ acq[r] = "won"
        /\ Release(r, "none")
        /\ pc' = [pc EXCEPT ![r] = "left"]
     \/ /\ acq[r] # "won"
        /\ acq' = [acq EXCEPT ![r] = CancelledAt[acq[r]]]
        /\ pc' = [pc EXCEPT ![r] = "undoing"]
        /\ UNCHANGED value
  /\ UNCHANGED <<semaphores, sem, ahead, intents>>

\* Mutant: a slot is given back whether or not it was won.
GivenUpWithRelease(r) ==
  /\ pc[r] = "undoing" /\ acq[r] \in {"void", "won"}
  /\ pc' = [pc EXCEPT ![r] = "left"]
  /\ Release(r, "none")
  /\ UNCHANGED <<semaphores, sem, ahead, intents>>

\* The await of the cancelled acquire task is over.  The code allows for an
\* acquire that succeeds after all; with this semaphore none does.
GivenUp(r) ==
  /\ pc[r] = "undoing" /\ acq[r] \in {"void", "won"}
  /\ pc' = [pc EXCEPT ![r] = "left"]
  /\ IF acq[r] = "won"
       THEN Release(r, "none")
       ELSE acq' = [acq EXCEPT ![r] = "none"] /\ UNCHANGED value
  /\ UNCHANGED <<semaphores, sem, ahead, intents>>

\* The body ends, by an exception or not: finally.
Finish(r) ==
  /\ pc[r] = "running"
  /\ pc' = [pc EXCEPT ![r] = "left"]
  /\ \/ sem[r] = 0 /\ UNCHANGED <<value, acq>>
     \/ sem[r] # 0 /\ Release(r, "none")
  /\ UNCHANGED <<semaphores, sem, ahead, intents>>

\* The cancellation manager of agno/run/cancel.py.  What it stores for
\* a run that executes or has left is not read here.
CancelRun(r) ==
  /\ "cancel" \in Env /\ pc[r] \notin {"running", "left"}
  /\ intents' = intents \cup {r}
  /\ UNCHANGED <<semaphores, value, pc, sem, acq, ahead>>

AcquireTask(r) == AcquireStarts(r) \/ AcquireResumes(r) \/ AcquireCancelled(r)

Waiter(r) ==
  \/ EnterUnlimited(r) \/ Enter(r) \/ Check(r) \/ CheckFails(r) \/ Won(r)
  \/ TimesOut(r) \/ PollsOn(r) \/ GiveUp(r) \/ GivenUp(r)

Next ==
  \/ \E r \in Run : AcquireTask(r) \/ Waiter(r) \/ Finish(r) \/ CancelRun(r)
  \/ \E n \in Limits : SetLimit(n)

Spec == Init /\ [][Next]_vars

-----------------------------------------------------------------------------
(* Properties *)

\* The runs a permit of the semaphore is out with.
Holders(s) == {r \in Run : sem[r] = s /\ acq[r] \in {"granted", "revoked", "won"}}

\* Whatever a cancellation, a failing check or an interruption of the task
\* meets the acquire at, a permit of a semaphore is either in it or with one
\* run: none is lost and none is released twice.
PermitsConserved ==
  \A s \in Sem : value[s] + Cardinality(Holders(s)) = capacity[s]

\* At most as many runs execute under a semaphore as it was made for, and a
\* run that executes under a limit holds a permit.
WithinLimit ==
  \A s \in Sem :
    LET executing == {r \in Run : pc[r] = "running" /\ sem[r] = s}
    IN  executing \subseteq Holders(s) /\ Cardinality(executing) <= capacity[s]

\* A run that has left background_run_slot has no acquire task behind it that
\* could still take a permit.
LeavesNothingBehind ==
  \A r \in Run : pc[r] \in {"out", "checking", "left"} => acq[r] = "none"

\* No waiter sleeps beside a free permit, unless a granted one is about to
\* resume and wakes the next.
NoWaitInVain ==
  \A r \in Run : acq[r] = "pending" /\ value[sem[r]] > 0 =>
    \E q \in Run : sem[q] = sem[r] /\ acq[q] \in {"granted", "revoked"}

\* The tasks are scheduled and a poll returns.  Nothing is assumed of the
\* environment, nor that a run ever ends.
Fairness ==
  \A r \in Run :
    /\ WF_vars(AcquireTask(r))
    /\ WF_vars(Check(r) \/ CheckFails(r))
    /\ WF_vars(Won(r))
    /\ WF_vars(TimesOut(r))
    /\ WF_vars(PollsOn(r) \/ (pc[r] = "polling" /\ GiveUp(r)))
    /\ WF_vars(GivenUp(r))

FairSpec == Spec /\ Fairness

\* A run that is cancelled while it waits does not need a free slot to come
\* out: it leaves, or starts because its slot came first.
CancelEndsTheWait ==
  \A r \in Run :
    (r \in intents /\ pc[r] # "out") ~> pc[r] \in {"running", "left"}

\* If every run that executes ends, every run that waits gets a slot or leaves:
\* no permit and no wake is lost on the way.
SlotComes ==
  (\A r \in Run : pc[r] = "running" ~> pc[r] = "left") =>
    \A r \in Run : pc[r] = "checking" ~> pc[r] \in {"running", "left"}
=============================================================================
