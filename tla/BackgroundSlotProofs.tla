------------------------ MODULE BackgroundSlotProofs ------------------------
(***************************************************************************)
(* Proofs about BackgroundSlot, for any finite set of runs, any limits and *)
(* any number of semaphores.                                               *)
(***************************************************************************)
EXTENDS BackgroundSlot, FiniteSetTheorems, TLAPS

\* Where a run is tells what its acquire task can be.
Place(r) ==
  /\ acq[r] # "none" => sem[r] \in Sem
  /\ sem[r] <= latest
  /\ pc[r] = "out" => sem[r] = 0
  /\ pc[r] \in {"out", "checking", "left"} => acq[r] = "none"
  /\ pc[r] = "checking" => sem[r] \in Sem
  /\ pc[r] \in {"racing", "polling"} => acq[r] \in {"new", "pending", "granted", "won"}
  /\ pc[r] = "undoing" => acq[r] \in {"dropped", "withdrawn", "revoked", "void"}
  /\ pc[r] = "running" => acq[r] = IF sem[r] = 0 THEN "none" ELSE "won"

PlaceInv == \A r \in Run : Place(r)

\* A semaphore that is not made yet has no permits.
FreshInv == \A s \in Sem : s > latest => capacity[s] = 0 /\ value[s] = 0

SlotInv == TypeOK /\ PlaceInv /\ FreshInv /\ PermitsConserved

-----------------------------------------------------------------------------
(* Counting permits *)

HeldBy(a, s) == {r \in Run : sem[r] = s /\ a[r] \in {"granted", "revoked", "won"}}

\* One run more, or one fewer, holds a permit of a semaphore.
LEMMA OneHolder ==
  ASSUME NEW H \in SUBSET Run, NEW r \in Run
  PROVE  /\ Cardinality(H) \in Nat
         /\ r \notin H => Cardinality(H \cup {r}) = Cardinality(H) + 1
         /\ r \in H => /\ Cardinality(H \ {r}) = Cardinality(H) - 1
                       /\ Cardinality(H) > 0
<1>1. IsFiniteSet(H)
  BY FS_Subset, SlotAssumption
<1>2. Cardinality(H) \in Nat
  BY <1>1, FS_CardinalityType
<1>3. r \notin H => Cardinality(H \cup {r}) = Cardinality(H) + 1
  BY <1>1, FS_AddElement
<1>4. r \in H => Cardinality(H \ {r}) = Cardinality(H) - 1
  BY <1>1, FS_RemoveElement
<1>5. Cardinality(H \ {r}) \in Nat
  BY <1>1, FS_RemoveElement, FS_CardinalityType
<1>6. QED
  BY <1>2, <1>3, <1>4, <1>5

\* _wake_up_next keeps what is in the semaphore and with its runs together,
\* leaves the other semaphores alone and only grants a waiter.
LEMMA WakeKeeps ==
  ASSUME NEW s \in Sem, NEW v \in Nat \ {0}, NEW a \in [Run -> Acquire],
         value \in [Sem -> Nat], sem \in [Run -> 0 .. MaxSemaphores],
         WakeUpNext(s, v, a)
  PROVE  /\ value' \in [Sem -> Nat] /\ acq' \in [Run -> Acquire]
         /\ \A r \in Run :
              acq'[r] = a[r] \/ (a[r] = "pending" /\ acq'[r] = "granted")
         /\ value'[s] + Cardinality(HeldBy(acq', s)) = v + Cardinality(HeldBy(a, s))
         /\ \A t \in Sem \ {s} : value'[t] = value[t] /\ HeldBy(acq', t) = HeldBy(a, t)
<1> DEFINE waiting == {r \in Run : sem[r] = s /\ a[r] = "pending"}
<1>1. CASE /\ value' = [value EXCEPT ![s] = v]
           /\ acq' = a
  <2>1. Cardinality(HeldBy(a, s)) \in Nat
    BY FS_Subset, FS_CardinalityType, SlotAssumption DEF HeldBy
  <2>2. QED
    BY <1>1, <2>1
<1>2. CASE \E r \in waiting : /\ value' = [value EXCEPT ![s] = v - 1]
                              /\ acq' = [a EXCEPT ![r] = "granted"]
  <2>1. PICK r \in waiting : /\ value' = [value EXCEPT ![s] = v - 1]
                             /\ acq' = [a EXCEPT ![r] = "granted"]
    BY <1>2
  <2>2. r \in Run /\ sem[r] = s /\ a[r] = "pending"
    OBVIOUS
  <2>3. value' \in [Sem -> Nat] /\ acq' \in [Run -> Acquire]
    BY <2>1, <2>2 DEF Acquire
  <2>4. HeldBy(acq', s) = HeldBy(a, s) \cup {r} /\ r \notin HeldBy(a, s)
    BY <2>1, <2>2 DEF HeldBy
  <2>5. Cardinality(HeldBy(a, s)) \in Nat
        /\ Cardinality(HeldBy(acq', s)) = Cardinality(HeldBy(a, s)) + 1
    <3>1. HeldBy(a, s) \in SUBSET Run
      BY DEF HeldBy
    <3>2. QED
      BY <2>2, <2>4, <3>1, OneHolder
  <2>6. \A t \in Sem \ {s} : value'[t] = value[t] /\ HeldBy(acq', t) = HeldBy(a, t)
    BY <2>1, <2>2 DEF HeldBy
  <2>7. \A q \in Run : acq'[q] = a[q] \/ (a[q] = "pending" /\ acq'[q] = "granted")
    BY <2>1, <2>2
  <2>8. value'[s] + Cardinality(HeldBy(acq', s)) = v + Cardinality(HeldBy(a, s))
    BY <2>1, <2>5
  <2>9. QED
    BY <2>3, <2>6, <2>7, <2>8
<1>3. QED
  BY <1>1, <1>2 DEF WakeUpNext

\* The account of a step in which only the acquire task of r changes.
LEMMA OneTaskChanges ==
  ASSUME NEW r \in Run, NEW x \in Acquire,
         acq \in [Run -> Acquire], sem \in [Run -> 0 .. MaxSemaphores],
         NEW s \in Sem
  PROVE  LET a == [acq EXCEPT ![r] = x]
             held == {"granted", "revoked", "won"}
             before == Cardinality(HeldBy(acq, s))
             after == Cardinality(HeldBy(a, s))
         IN  /\ a \in [Run -> Acquire]
             /\ before \in Nat /\ after \in Nat
             /\ (sem[r] # s \/ (x \in held <=> acq[r] \in held)) => after = before
             /\ (sem[r] = s /\ x \in held /\ acq[r] \notin held) => after = before + 1
             /\ (sem[r] = s /\ x \notin held /\ acq[r] \in held) => after = before - 1
<1> DEFINE a == [acq EXCEPT ![r] = x]
           held == {"granted", "revoked", "won"}
           H == HeldBy(acq, s)
           K == HeldBy(a, s)
<1>1. a \in [Run -> Acquire] /\ H \in SUBSET Run /\ K \in SUBSET Run
  BY DEF HeldBy
<1>2. Cardinality(H) \in Nat /\ Cardinality(K) \in Nat
  BY <1>1, OneHolder
<1>3. (sem[r] # s \/ (x \in held <=> acq[r] \in held)) => K = H
  BY DEF HeldBy
<1>4. (sem[r] = s /\ x \in held /\ acq[r] \notin held) => K = H \cup {r} /\ r \notin H
  BY DEF HeldBy
<1>5. (sem[r] = s /\ x \notin held /\ acq[r] \in held) => K = H \ {r} /\ r \in H
  BY DEF HeldBy
<1> HIDE DEF a, H, K, held
<1>6. (sem[r] = s /\ x \in held /\ acq[r] \notin held) => Cardinality(K) = Cardinality(H) + 1
  BY <1>1, <1>4, OneHolder
<1>7. (sem[r] = s /\ x \notin held /\ acq[r] \in held) => Cardinality(K) = Cardinality(H) - 1
  BY <1>1, <1>5, OneHolder
<1>8. QED
  BY <1>1, <1>2, <1>3, <1>6, <1>7 DEF a, H, K, held

-----------------------------------------------------------------------------
(* The invariant *)

\* A step of another run, or of the semaphore, leaves a run in its place.
LEMMA OthersKeepPlace ==
  ASSUME NEW q \in Run, Place(q), TypeOK, latest' \in Nat, latest' >= latest,
         pc'[q] = pc[q], sem'[q] = sem[q],
         acq'[q] = acq[q] \/ (acq[q] = "pending" /\ acq'[q] = "granted")
  PROVE  Place(q)'
BY SMTT(60) DEF Place, TypeOK, Acquire, Sem

\* release() by a run whose permit is out, in whichever action.
LEMMA ReleaseKeeps ==
  ASSUME SlotInv, NEW r \in Run, NEW next \in {"none", "void"},
         acq[r] \in {"granted", "revoked", "won"}, Release(r, next),
         UNCHANGED <<semaphores, sem>>
  PROVE  /\ value' \in [Sem -> Nat] /\ acq' \in [Run -> Acquire]
         /\ acq'[r] = next
         /\ \A q \in Run \ {r} :
              acq'[q] = acq[q] \/ (acq[q] = "pending" /\ acq'[q] = "granted")
         /\ FreshInv'
         /\ PermitsConserved'
<1> DEFINE a == [acq EXCEPT ![r] = next]
           s == sem[r]
<1>1. /\ acq \in [Run -> Acquire] /\ value \in [Sem -> Nat]
      /\ sem \in [Run -> 0 .. MaxSemaphores] /\ s \in Sem
      /\ next \in Acquire /\ capacity \in [Sem -> Nat]
      /\ s <= latest /\ latest \in Nat
  BY DEF SlotInv, TypeOK, PlaceInv, Place, Acquire
<1>2. a \in [Run -> Acquire]
  BY <1>1
<1>3. WakeUpNext(s, value[s] + 1, a) /\ value[s] + 1 \in Nat \ {0}
  BY <1>1 DEF Release
<1>4. /\ value' \in [Sem -> Nat] /\ acq' \in [Run -> Acquire]
      /\ \A q \in Run : acq'[q] = a[q] \/ (a[q] = "pending" /\ acq'[q] = "granted")
      /\ value'[s] + Cardinality(HeldBy(acq', s)) = value[s] + 1 + Cardinality(HeldBy(a, s))
      /\ \A t \in Sem \ {s} : value'[t] = value[t] /\ HeldBy(acq', t) = HeldBy(a, t)
  BY <1>1, <1>2, <1>3, WakeKeeps
<1>5. acq'[r] = next
  BY <1>1, <1>4
<1>6. \A q \in Run \ {r} : acq'[q] = acq[q] \/ (acq[q] = "pending" /\ acq'[q] = "granted")
  BY <1>1, <1>4
<1>7. FreshInv'
  BY <1>1, <1>4 DEF SlotInv, FreshInv, semaphores, Sem
<1>8. ASSUME NEW t \in Sem
      PROVE  value'[t] + Cardinality(HeldBy(acq', t)) = capacity[t]
  <2>1. value[t] + Cardinality(HeldBy(acq, t)) = capacity[t]
    BY DEF SlotInv, PermitsConserved, Holders, HeldBy
  <2>2. /\ Cardinality(HeldBy(acq, t)) \in Nat
        /\ s = t => Cardinality(HeldBy(a, t)) = Cardinality(HeldBy(acq, t)) - 1
        /\ s # t => Cardinality(HeldBy(a, t)) = Cardinality(HeldBy(acq, t))
    BY <1>1, OneTaskChanges
  <2>3. QED
    BY <1>1, <1>4, <2>1, <2>2
<1>9. PermitsConserved'
  BY <1>8 DEF PermitsConserved, Holders, HeldBy, semaphores
<1>10. QED
  BY <1>4, <1>5, <1>6, <1>7, <1>9

\* A step that changes the acquire task of r between two places that both hold
\* a permit, or both hold none, and no value.
LEMMA TaskMoves ==
  ASSUME SlotInv, NEW r \in Run, NEW x \in Acquire,
         x \in {"granted", "revoked", "won"} <=> acq[r] \in {"granted", "revoked", "won"},
         acq' = [acq EXCEPT ![r] = x], UNCHANGED <<semaphores, value, sem>>
  PROVE  acq' \in [Run -> Acquire] /\ FreshInv' /\ PermitsConserved'
<1>1. /\ acq \in [Run -> Acquire] /\ value \in [Sem -> Nat]
      /\ sem \in [Run -> 0 .. MaxSemaphores]
  BY DEF SlotInv, TypeOK
<1>2. \A s \in Sem : Cardinality(HeldBy(acq', s)) = Cardinality(HeldBy(acq, s))
  BY <1>1, OneTaskChanges
<1>3. PermitsConserved'
  BY <1>2 DEF SlotInv, PermitsConserved, Holders, HeldBy, semaphores
<1>4. QED
  BY <1>1, <1>3 DEF SlotInv, FreshInv, semaphores

\* What is left of a step of r once its permits are accounted for.
LEMMA StepOfRun ==
  ASSUME SlotInv, NEW r \in Run,
         NEW p \in {"out", "checking", "racing", "polling", "undoing", "running", "left"},
         pc' = [pc EXCEPT ![r] = p],
         value' \in [Sem -> Nat], acq' \in [Run -> Acquire],
         \A q \in Run \ {r} :
           acq'[q] = acq[q] \/ (acq[q] = "pending" /\ acq'[q] = "granted"),
         UNCHANGED <<semaphores, sem, intents>>, ahead' \in [Run -> SUBSET Run],
         Place(r)', FreshInv', PermitsConserved'
  PROVE  SlotInv'
<1>1. TypeOK'
  BY DEF SlotInv, TypeOK, semaphores
<1>2. ASSUME NEW q \in Run
      PROVE  Place(q)'
  <2>1. CASE q = r
    BY <2>1
  <2>2. CASE q # r
    <3>1. Place(q) /\ TypeOK
      BY DEF SlotInv, PlaceInv
    <3>2. /\ latest' \in Nat /\ latest' >= latest
          /\ pc'[q] = pc[q] /\ sem'[q] = sem[q]
      BY <2>2, <3>1 DEF TypeOK, semaphores
    <3>3. acq'[q] = acq[q] \/ (acq[q] = "pending" /\ acq'[q] = "granted")
      BY <2>2
    <3>4. QED
      BY <3>1, <3>2, <3>3, OthersKeepPlace
  <2>3. QED
    BY <2>1, <2>2
<1>3. QED
  BY <1>1, <1>2 DEF SlotInv, PlaceInv

LEMMA SlotInit == Init => SlotInv
<1> SUFFICES ASSUME Init PROVE SlotInv
  OBVIOUS
<1>1. TypeOK
  BY SlotAssumption DEF Init, TypeOK, Acquire
<1>2. PlaceInv
  BY SlotAssumption DEF Init, PlaceInv, Place
<1>3. FreshInv
  BY DEF Init, FreshInv
<1>4. \A s \in Sem : Holders(s) = {}
  BY DEF Init, Holders
<1>5. PermitsConserved
  BY <1>4, FS_EmptySet DEF Init, PermitsConserved
<1>6. QED
  BY <1>1, <1>2, <1>3, <1>5 DEF SlotInv

\* The steps of an acquire task.
LEMMA AcquireKeeps ==
  ASSUME SlotInv, NEW r \in Run, AcquireTask(r)
  PROVE  SlotInv'
<1> DEFINE s == sem[r]
<1>1. /\ acq \in [Run -> Acquire] /\ value \in [Sem -> Nat]
      /\ sem \in [Run -> 0 .. MaxSemaphores] /\ pc' = [pc EXCEPT ![r] = pc[r]]
      /\ pc[r] \in {"out", "checking", "racing", "polling", "undoing", "running", "left"}
      /\ Place(r) /\ acq[r] # "none" /\ s \in Sem /\ s <= latest /\ latest \in Nat
      /\ UNCHANGED <<semaphores, sem, intents>> /\ ahead \in [Run -> SUBSET Run]
  BY DEF SlotInv, TypeOK, PlaceInv, Place, AcquireTask, AcquireStarts, AcquireResumes,
         AcquireCancelled
<1>2. CASE AcquireStarts(r) /\ Locked(s)
  <2>1. acq' = [acq EXCEPT ![r] = "pending"] /\ UNCHANGED value /\ acq[r] = "new"
    BY <1>2 DEF AcquireStarts
  <2>2. acq' \in [Run -> Acquire] /\ FreshInv' /\ PermitsConserved'
    BY <1>1, <2>1, TaskMoves DEF Acquire
  <2>3. ahead' \in [Run -> SUBSET Run]
    BY <1>1, <1>2 DEF AcquireStarts, InLine
  <2>4. Place(r)'
    BY <1>1, <2>1 DEF Place, semaphores
  <2>5. QED
    BY <1>1, <2>1, <2>2, <2>3, <2>4, StepOfRun
<1>3. CASE AcquireStarts(r) /\ ~Locked(s)
  <2>1. /\ acq' = [acq EXCEPT ![r] = "won"] /\ acq[r] = "new"
        /\ value' = [value EXCEPT ![s] = value[s] - 1] /\ value[s] # 0
        /\ UNCHANGED ahead
    BY <1>3 DEF AcquireStarts, Locked
  <2>2. value' \in [Sem -> Nat] /\ acq' \in [Run -> Acquire]
    BY <1>1, <2>1 DEF Acquire
  <2>3. FreshInv'
    BY <1>1, <2>1 DEF SlotInv, FreshInv, semaphores, Sem
  <2>4. ASSUME NEW t \in Sem
        PROVE  value'[t] + Cardinality(HeldBy(acq', t)) = capacity[t]
    <3>1. value[t] + Cardinality(HeldBy(acq, t)) = capacity[t]
      BY DEF SlotInv, PermitsConserved, Holders, HeldBy
    <3>2. /\ Cardinality(HeldBy(acq, t)) \in Nat
          /\ s = t => Cardinality(HeldBy(acq', t)) = Cardinality(HeldBy(acq, t)) + 1
          /\ s # t => Cardinality(HeldBy(acq', t)) = Cardinality(HeldBy(acq, t))
      BY <1>1, <2>1, OneTaskChanges DEF Acquire
    <3>3. QED
      BY <1>1, <2>1, <3>1, <3>2
  <2>5. PermitsConserved'
    BY <1>1, <2>4 DEF PermitsConserved, Holders, HeldBy, semaphores
  <2>6. Place(r)'
    BY <1>1, <2>1 DEF Place, semaphores
  <2>7. QED
    BY <1>1, <2>1, <2>2, <2>3, <2>5, <2>6, StepOfRun
<1>4. CASE AcquireResumes(r) /\ value[s] > 0
  <2> DEFINE a == [acq EXCEPT ![r] = "won"]
  <2>1. WakeUpNext(s, value[s], a) /\ acq[r] = "granted" /\ UNCHANGED ahead
    BY <1>1, <1>4 DEF AcquireResumes
  <2>2. a \in [Run -> Acquire] /\ value[s] \in Nat \ {0} /\ "won" \in Acquire
        /\ s \in Sem /\ value \in [Sem -> Nat] /\ sem \in [Run -> 0 .. MaxSemaphores]
    BY <1>1, <1>4 DEF Acquire
  <2>3. /\ value' \in [Sem -> Nat] /\ acq' \in [Run -> Acquire]
        /\ \A q \in Run : acq'[q] = a[q] \/ (a[q] = "pending" /\ acq'[q] = "granted")
        /\ value'[s] + Cardinality(HeldBy(acq', s)) = value[s] + Cardinality(HeldBy(a, s))
        /\ \A t \in Sem \ {s} : value'[t] = value[t] /\ HeldBy(acq', t) = HeldBy(a, t)
    <3> HIDE DEF s, a
    <3>1. QED
      BY <2>1, <2>2, WakeKeeps
  <2>4. acq'[r] = "won"
    BY <1>1, <2>3
  <2>5. \A q \in Run \ {r} : acq'[q] = acq[q] \/ (acq[q] = "pending" /\ acq'[q] = "granted")
    BY <1>1, <2>3
  <2>6. ASSUME NEW t \in Sem
        PROVE  value'[t] + Cardinality(HeldBy(acq', t)) = capacity[t]
    <3>1. value[t] + Cardinality(HeldBy(acq, t)) = capacity[t]
      BY DEF SlotInv, PermitsConserved, Holders, HeldBy
    <3>2. Cardinality(HeldBy(a, t)) = Cardinality(HeldBy(acq, t))
      <4>1. acq[r] \in {"granted", "revoked", "won"}
        BY <2>1
      <4>2. QED
        BY <1>1, <2>2, <4>1, OneTaskChanges
    <3>3. QED
      BY <1>1, <2>3, <3>1, <3>2
  <2>7. PermitsConserved'
    BY <1>1, <2>6 DEF PermitsConserved, Holders, HeldBy, semaphores
  <2>8. FreshInv'
    BY <1>1, <2>3 DEF SlotInv, FreshInv, semaphores, Sem
  <2>9. Place(r)'
    BY <1>1, <2>1, <2>4 DEF Place, semaphores
  <2>10. QED
    BY <1>1, <2>1, <2>3, <2>5, <2>7, <2>8, <2>9, StepOfRun
<1>5. CASE AcquireResumes(r) /\ value[s] = 0
  <2>1. acq' = [acq EXCEPT ![r] = "won"] /\ UNCHANGED <<value, ahead>> /\ acq[r] = "granted"
    BY <1>1, <1>5 DEF AcquireResumes
  <2>2. acq' \in [Run -> Acquire] /\ FreshInv' /\ PermitsConserved'
    BY <1>1, <2>1, TaskMoves DEF Acquire
  <2>3. Place(r)'
    BY <1>1, <2>1 DEF Place, semaphores
  <2>4. QED
    BY <1>1, <2>1, <2>2, <2>3, StepOfRun
<1>6. CASE AcquireCancelled(r) /\ acq[r] = "revoked"
  <2>1. Release(r, "void") /\ UNCHANGED ahead
    BY <1>6 DEF AcquireCancelled
  <2>2. /\ value' \in [Sem -> Nat] /\ acq' \in [Run -> Acquire] /\ acq'[r] = "void"
        /\ \A q \in Run \ {r} :
             acq'[q] = acq[q] \/ (acq[q] = "pending" /\ acq'[q] = "granted")
        /\ FreshInv' /\ PermitsConserved'
    BY <1>1, <1>6, <2>1, ReleaseKeeps
  <2>3. Place(r)'
    BY <1>1, <1>6, <2>2 DEF Place, semaphores
  <2>4. QED
    BY <1>1, <2>1, <2>2, <2>3, StepOfRun
<1>7. CASE AcquireCancelled(r) /\ acq[r] # "revoked"
  <2>1. /\ acq' = [acq EXCEPT ![r] = "void"] /\ UNCHANGED <<value, ahead>>
        /\ acq[r] \in {"withdrawn", "dropped"}
    BY <1>7 DEF AcquireCancelled
  <2>2. acq' \in [Run -> Acquire] /\ FreshInv' /\ PermitsConserved'
    BY <1>1, <2>1, TaskMoves DEF Acquire
  <2>3. Place(r)'
    BY <1>1, <2>1 DEF Place, semaphores
  <2>4. QED
    BY <1>1, <2>1, <2>2, <2>3, StepOfRun
<1>8. value[s] > 0 \/ value[s] = 0
  BY <1>1
<1>9. QED
  BY <1>2, <1>3, <1>4, <1>5, <1>6, <1>7, <1>8 DEF AcquireTask

\* The steps of background_run_slot that leave the semaphores alone.
LEMMA WaiterKeeps ==
  ASSUME SlotInv, NEW r \in Run,
         \/ EnterUnlimited(r) \/ Check(r) \/ CheckFails(r) \/ Won(r) \/ TimesOut(r)
         \/ PollsOn(r)
  PROVE  SlotInv'
<1>1. /\ acq \in [Run -> Acquire] /\ value \in [Sem -> Nat]
      /\ ahead \in [Run -> SUBSET Run] /\ Place(r)
      /\ UNCHANGED <<semaphores, sem, intents, value, ahead>>
  BY DEF SlotInv, TypeOK, PlaceInv, EnterUnlimited, Check, CheckFails, Won, TimesOut,
         PollsOn
<1>2. ASSUME UNCHANGED acq
      PROVE  FreshInv' /\ PermitsConserved'
  BY <1>1, <1>2 DEF SlotInv, FreshInv, PermitsConserved, Holders, semaphores
<1>3. CASE Check(r)
  <2>1. acq[r] = "none" /\ acq' = [acq EXCEPT ![r] = "new"] /\ pc' = [pc EXCEPT ![r] = "racing"]
    BY <1>1, <1>3 DEF Check, Place
  <2>2. acq' \in [Run -> Acquire] /\ FreshInv' /\ PermitsConserved'
    BY <1>1, <2>1, TaskMoves DEF Acquire
  <2>3. Place(r)'
    BY <1>1, <1>3, <2>1 DEF Check, Place, semaphores, SlotInv, TypeOK
  <2>4. QED
    BY <1>1, <2>1, <2>2, <2>3, StepOfRun
<1>4. ASSUME UNCHANGED acq,
             NEW p \in {"left", "running", "polling", "racing"},
             pc' = [pc EXCEPT ![r] = p], Place(r)'
      PROVE  SlotInv'
  BY <1>1, <1>2, <1>4, StepOfRun
<1>5. CASE EnterUnlimited(r)
  <2>1. UNCHANGED acq /\ pc' = [pc EXCEPT ![r] = "running"] /\ pc[r] = "out"
    BY <1>5 DEF EnterUnlimited
  <2>2. Place(r)'
    BY <1>1, <2>1 DEF Place, semaphores, SlotInv, TypeOK
  <2>3. QED
    BY <1>4, <2>1, <2>2
<1>6. CASE CheckFails(r)
  <2>1. UNCHANGED acq /\ pc' = [pc EXCEPT ![r] = "left"] /\ pc[r] = "checking"
    BY <1>6 DEF CheckFails
  <2>2. Place(r)'
    BY <1>1, <2>1 DEF Place, semaphores, SlotInv, TypeOK
  <2>3. QED
    BY <1>4, <2>1, <2>2
<1>7. CASE Won(r)
  <2>1. UNCHANGED acq /\ pc' = [pc EXCEPT ![r] = "running"] /\ acq[r] = "won"
    BY <1>7 DEF Won
  <2>2. sem[r] # 0
    BY <1>1, <2>1 DEF Place, Sem
  <2>3. Place(r)'
    BY <1>1, <2>1, <2>2 DEF Place, semaphores, SlotInv, TypeOK
  <2>4. QED
    BY <1>4, <2>1, <2>3
<1>8. CASE TimesOut(r)
  <2>1. UNCHANGED acq /\ pc' = [pc EXCEPT ![r] = "polling"] /\ pc[r] = "racing"
    BY <1>8 DEF TimesOut
  <2>2. Place(r)'
    BY <1>1, <2>1 DEF Place, semaphores, SlotInv, TypeOK
  <2>3. QED
    BY <1>4, <2>1, <2>2
<1>9. CASE PollsOn(r)
  <2>1. UNCHANGED acq /\ pc' = [pc EXCEPT ![r] = "racing"] /\ pc[r] = "polling"
    BY <1>9 DEF PollsOn
  <2>2. Place(r)'
    BY <1>1, <2>1 DEF Place, semaphores, SlotInv, TypeOK
  <2>3. QED
    BY <1>4, <2>1, <2>2
<1>10. QED
  BY <1>3, <1>5, <1>6, <1>7, <1>8, <1>9

\* The steps that give a permit back, or the acquire up.
LEMMA EndKeeps ==
  ASSUME SlotInv, NEW r \in Run, GiveUp(r) \/ GivenUp(r) \/ Finish(r)
  PROVE  SlotInv'
<1>1. /\ acq \in [Run -> Acquire] /\ value \in [Sem -> Nat]
      /\ ahead \in [Run -> SUBSET Run] /\ Place(r)
      /\ sem \in [Run -> 0 .. MaxSemaphores] /\ pc \in [Run -> {"out", "checking", "racing", "polling", "undoing", "running", "left"}]
      /\ UNCHANGED <<semaphores, sem, intents, ahead>>
  BY DEF SlotInv, TypeOK, PlaceInv, GiveUp, GivenUp, Finish
<1>2. ASSUME acq[r] = "won", Release(r, "none"), pc' = [pc EXCEPT ![r] = "left"]
      PROVE  SlotInv'
  <2>1. /\ value' \in [Sem -> Nat] /\ acq' \in [Run -> Acquire] /\ acq'[r] = "none"
        /\ \A q \in Run \ {r} :
             acq'[q] = acq[q] \/ (acq[q] = "pending" /\ acq'[q] = "granted")
        /\ FreshInv' /\ PermitsConserved'
    BY <1>1, <1>2, ReleaseKeeps
  <2>2. Place(r)'
    BY <1>1, <1>2, <2>1 DEF Place, semaphores
  <2>3. QED
    BY <1>1, <1>2, <2>1, <2>2, StepOfRun
<1>3. CASE GiveUp(r) /\ acq[r] # "won"
  <2>1. /\ acq[r] \in {"new", "pending", "granted"}
        /\ acq' = [acq EXCEPT ![r] = CancelledAt[acq[r]]] /\ UNCHANGED value
        /\ pc' = [pc EXCEPT ![r] = "undoing"]
    BY <1>1, <1>3 DEF GiveUp, Place
  <2>2. /\ acq[r] = "new" => CancelledAt[acq[r]] = "dropped"
        /\ acq[r] = "pending" => CancelledAt[acq[r]] = "withdrawn"
        /\ acq[r] = "granted" => CancelledAt[acq[r]] = "revoked"
    BY DEF CancelledAt
  <2>3. acq' \in [Run -> Acquire] /\ FreshInv' /\ PermitsConserved'
    <3>1. PICK x \in Acquire : x = CancelledAt[acq[r]]
      BY <2>1, <2>2 DEF Acquire
    <3>2. x \in {"granted", "revoked", "won"} <=> acq[r] \in {"granted", "revoked", "won"}
      BY <2>1, <2>2, <3>1
    <3>3. QED
      BY <1>1, <2>1, <3>1, <3>2, TaskMoves
  <2>4. Place(r)'
    <3>1. acq'[r] \in {"dropped", "withdrawn", "revoked"} /\ pc'[r] = "undoing"
      BY <1>1, <2>1, <2>2
    <3>2. QED
      BY <1>1, <2>1, <3>1 DEF Place, semaphores
  <2>5. QED
    BY <1>1, <2>1, <2>3, <2>4, StepOfRun
<1>4. CASE GiveUp(r) /\ acq[r] = "won"
  BY <1>2, <1>4 DEF GiveUp
<1>5. CASE GivenUp(r)
  <2>1. acq[r] = "void" /\ acq' = [acq EXCEPT ![r] = "none"] /\ UNCHANGED value
        /\ pc' = [pc EXCEPT ![r] = "left"]
    BY <1>1, <1>5 DEF GivenUp, Place
  <2>2. acq' \in [Run -> Acquire] /\ FreshInv' /\ PermitsConserved'
    BY <1>1, <2>1, TaskMoves DEF Acquire
  <2>3. Place(r)'
    BY <1>1, <2>1 DEF Place, semaphores
  <2>4. QED
    BY <1>1, <2>1, <2>2, <2>3, StepOfRun
<1>6. CASE Finish(r) /\ sem[r] # 0
  <2>1. acq[r] = "won" /\ Release(r, "none") /\ pc' = [pc EXCEPT ![r] = "left"]
    BY <1>1, <1>6 DEF Finish, Place
  <2>2. QED
    BY <1>2, <2>1
<1>7. CASE Finish(r) /\ sem[r] = 0
  <2>1. /\ acq[r] = "none" /\ UNCHANGED <<acq, value>>
        /\ pc' = [pc EXCEPT ![r] = "left"]
    BY <1>1, <1>7 DEF Finish, Place
  <2>2. FreshInv' /\ PermitsConserved'
    BY <1>1, <2>1 DEF SlotInv, FreshInv, PermitsConserved, Holders, semaphores
  <2>3. Place(r)'
    BY <1>1, <2>1 DEF Place, semaphores
  <2>4. QED
    BY <1>1, <2>1, <2>2, <2>3, StepOfRun
<1>8. QED
  BY <1>3, <1>4, <1>5, <1>6, <1>7

\* The first use of the slot by a run, which may make a new semaphore.
LEMMA EnterKeeps ==
  ASSUME SlotInv, NEW r \in Run, Enter(r)
  PROVE  SlotInv'
<1>1. /\ TypeOK /\ PlaceInv /\ FreshInv /\ PermitsConserved
      /\ pc[r] = "out" /\ limit > 0 /\ limit \in Nat /\ acq[r] = "none" /\ sem[r] = 0
      /\ UNCHANGED <<limit, acq, ahead, intents>>
      /\ sem' = [sem EXCEPT ![r] = latest']
      /\ pc' = [pc EXCEPT ![r] = "checking"]
  BY DEF SlotInv, TypeOK, PlaceInv, Place, Enter
<1>2. /\ latest' \in Sem /\ latest' >= latest
      /\ capacity' \in [Sem -> Nat] /\ value' \in [Sem -> Nat]
      /\ \A s \in Sem : \/ capacity'[s] = capacity[s] /\ value'[s] = value[s]
                        \/ /\ s > latest /\ s = latest'
                           /\ capacity'[s] = limit /\ value'[s] = limit
      /\ latest' = latest \/ latest' = latest + 1
  <2>1. CASE latest \in Sem /\ UNCHANGED <<latest, capacity, value>>
    BY <1>1, <2>1 DEF TypeOK, Sem
  <2>2. CASE /\ latest < MaxSemaphores /\ latest' = latest + 1
             /\ capacity' = [capacity EXCEPT ![latest'] = limit]
             /\ value' = [value EXCEPT ![latest'] = limit]
    <3>1. latest + 1 \in Sem /\ latest + 1 > latest
      BY <1>1, <2>2, SlotAssumption DEF TypeOK, Sem
    <3>2. QED
      BY <1>1, <2>2, <3>1 DEF TypeOK
  <2>3. QED
    BY <2>1, <2>2 DEF Enter
<1>3. TypeOK'
  <2>1. latest' \in 0 .. MaxSemaphores
    BY <1>2, SlotAssumption DEF Sem
  <2>2. sem' \in [Run -> 0 .. MaxSemaphores]
    BY <1>1, <2>1 DEF TypeOK
  <2>3. pc' \in [Run -> {"out", "checking", "racing", "polling", "undoing", "running", "left"}]
    BY <1>1 DEF TypeOK
  <2>4. QED
    BY <1>1, <1>2, <2>1, <2>2, <2>3 DEF TypeOK
<1>4. ASSUME NEW q \in Run
      PROVE  Place(q)'
  BY <1>1, <1>2, SMTT(60) DEF TypeOK, PlaceInv, Place, Sem
<1>5. FreshInv'
  BY <1>1, <1>2 DEF TypeOK, FreshInv, Sem
<1>6. \A s \in Sem : Holders(s)' = Holders(s)
  BY <1>1 DEF Holders, TypeOK
<1>7. ASSUME NEW s \in Sem
      PROVE  value'[s] + Cardinality(Holders(s)') = capacity'[s]
  <2>1. value[s] + Cardinality(Holders(s)) = capacity[s]
    BY <1>1 DEF PermitsConserved
  <2>2. Cardinality(Holders(s)) \in Nat
    BY FS_Subset, FS_CardinalityType, SlotAssumption DEF Holders
  <2>3. CASE capacity'[s] = capacity[s] /\ value'[s] = value[s]
    BY <1>6, <2>1, <2>3
  <2>4. CASE s > latest /\ capacity'[s] = limit /\ value'[s] = limit
    <3>1. capacity[s] = 0 /\ value[s] = 0
      BY <1>1, <2>4 DEF FreshInv
    <3>2. QED
      BY <1>1, <1>6, <2>1, <2>2, <2>4, <3>1
  <2>5. QED
    BY <1>2, <2>3, <2>4
<1>8. PermitsConserved'
  BY <1>7 DEF PermitsConserved
<1>9. QED
  BY <1>3, <1>4, <1>5, <1>8 DEF SlotInv, PlaceInv

\* The invariant is inductive.
LEMMA SlotStep == SlotInv /\ [Next]_vars => SlotInv'
<1> SUFFICES ASSUME SlotInv, [Next]_vars PROVE SlotInv'
  OBVIOUS
<1>1. ASSUME NEW r \in Run, AcquireTask(r) PROVE SlotInv'
  BY <1>1, AcquireKeeps
<1>2. ASSUME NEW r \in Run, Waiter(r) PROVE SlotInv'
  BY <1>2, WaiterKeeps, EndKeeps, EnterKeeps DEF Waiter
<1>3. ASSUME NEW r \in Run, Finish(r) PROVE SlotInv'
  BY <1>3, EndKeeps
<1>4. ASSUME NEW r \in Run, CancelRun(r) PROVE SlotInv'
  BY <1>4 DEF CancelRun, SlotInv, TypeOK, PlaceInv, Place, FreshInv, PermitsConserved,
              Holders, semaphores
<1>5. ASSUME NEW n \in Limits, SetLimit(n) PROVE SlotInv'
  BY <1>5, SlotAssumption DEF SetLimit, SlotInv, TypeOK, PlaceInv, Place, FreshInv,
                              PermitsConserved, Holders
<1>6. CASE UNCHANGED vars
  BY <1>6 DEF vars, semaphores, SlotInv, TypeOK, PlaceInv, Place, FreshInv,
              PermitsConserved, Holders
<1>7. QED
  BY <1>1, <1>2, <1>3, <1>4, <1>5, <1>6 DEF Next

-----------------------------------------------------------------------------
(* The theorems *)

\* background_run_slot: no permit of a semaphore is lost or released twice, at
\* whatever point an acquire meets a cancellation, and however often the limit
\* is changed.
THEOREM PermitsAreConserved == Spec => [](TypeOK /\ PermitsConserved)
<1>1. SlotInv => TypeOK /\ PermitsConserved
  BY DEF SlotInv
<1>2. QED
  BY <1>1, SlotInit, SlotStep, PTL DEF Spec

\* A run that has left has no acquire task behind it, whoever cancelled it.
THEOREM NothingIsLeftBehind == Spec => []LeavesNothingBehind
<1>1. SlotInv => LeavesNothingBehind
  BY DEF SlotInv, PlaceInv, Place, LeavesNothingBehind
<1>2. QED
  BY <1>1, SlotInit, SlotStep, PTL DEF Spec

\* Never do more runs execute under a semaphore than the limit it was made for.
THEOREM LimitHolds == Spec => []WithinLimit
<1>1. ASSUME SlotInv, NEW s \in Sem
      PROVE  LET executing == {r \in Run : pc[r] = "running" /\ sem[r] = s}
             IN  executing \subseteq Holders(s) /\ Cardinality(executing) <= capacity[s]
  <2> DEFINE executing == {r \in Run : pc[r] = "running" /\ sem[r] = s}
  <2>1. executing \subseteq Holders(s)
    BY <1>1 DEF SlotInv, PlaceInv, Place, Holders, Sem
  <2>2. IsFiniteSet(Holders(s)) /\ Cardinality(Holders(s)) \in Nat
    BY FS_Subset, FS_CardinalityType, SlotAssumption DEF Holders
  <2>3. Cardinality(executing) <= Cardinality(Holders(s)) /\ Cardinality(executing) \in Nat
    BY <2>1, <2>2, FS_Subset, FS_CardinalityType
  <2>4. value[s] + Cardinality(Holders(s)) = capacity[s] /\ value[s] \in Nat
        /\ capacity[s] \in Nat
    BY <1>1 DEF SlotInv, TypeOK, PermitsConserved
  <2>5. QED
    BY <2>1, <2>2, <2>3, <2>4
<1>2. SlotInv => WithinLimit
  BY <1>1 DEF WithinLimit
<1>3. QED
  BY <1>2, SlotInit, SlotStep, PTL DEF Spec

\* After _wake_up_next nobody waits, or somebody has been granted.
LEMMA WakeFindsAWaiter ==
  ASSUME NEW s \in Sem, NEW v \in Nat, NEW a \in [Run -> Acquire],
         sem \in [Run -> 0 .. MaxSemaphores], UNCHANGED sem,
         value \in [Sem -> Nat], WakeUpNext(s, v, a),
         \A r \in Run : sem[r] # s => a[r] = acq[r],
         NoWaitInVain
  PROVE  NoWaitInVain'
<1> DEFINE waiting == {r \in Run : sem[r] = s /\ a[r] = "pending"}
<1>1. CASE waiting = {} /\ value' = [value EXCEPT ![s] = v] /\ acq' = a
  BY <1>1 DEF NoWaitInVain
<1>2. CASE \E r \in waiting : /\ value' = [value EXCEPT ![s] = v - 1]
                              /\ acq' = [a EXCEPT ![r] = "granted"]
  <2>1. PICK r \in waiting : /\ value' = [value EXCEPT ![s] = v - 1]
                             /\ acq' = [a EXCEPT ![r] = "granted"]
    BY <1>2
  <2>2. r \in Run /\ sem'[r] = s /\ acq'[r] = "granted"
    BY <2>1
  <2>3. ASSUME NEW q \in Run, acq'[q] = "pending", value'[sem'[q]] > 0, sem[q] # s
        PROVE  \E p \in Run : sem'[p] = sem'[q] /\ acq'[p] \in {"granted", "revoked"}
    <3>1. acq[q] = "pending" /\ value'[sem[q]] = value[sem[q]]
      BY <2>1, <2>3
    <3>2. PICK p \in Run : sem[p] = sem[q] /\ acq[p] \in {"granted", "revoked"}
      BY <2>3, <3>1 DEF NoWaitInVain
    <3>3. acq'[p] = acq[p]
      BY <2>1, <2>3, <3>2
    <3>4. QED
      BY <3>2, <3>3
  <2>4. QED
    BY <2>2, <2>3 DEF NoWaitInVain
<1>3. QED
  BY <1>1, <1>2 DEF WakeUpNext

\* No wake is lost: a waiter that sleeps beside a free permit will be woken by
\* one that has been granted and has not resumed.
THEOREM NoWakeIsLost == Spec => []NoWaitInVain
<1>1. Init => NoWaitInVain
  BY DEF Init, NoWaitInVain
<1>2. ASSUME SlotInv, NoWaitInVain, [Next]_vars
      PROVE  NoWaitInVain'
  <2>1. /\ acq \in [Run -> Acquire] /\ value \in [Sem -> Nat]
        /\ sem \in [Run -> 0 .. MaxSemaphores] /\ TypeOK
        /\ \A r \in Run : Place(r)
    BY <1>2 DEF SlotInv, TypeOK, PlaceInv
  <2>2. ASSUME NEW r \in Run, NEW next \in {"none", "void"}, Release(r, next),
               acq[r] \in {"granted", "revoked", "won"}, UNCHANGED sem
        PROVE  NoWaitInVain'
    <3> DEFINE s == sem[r]
               a == [acq EXCEPT ![r] = next]
               v == value[s] + 1
    <3>1. s \in Sem /\ a \in [Run -> Acquire] /\ v \in Nat
      BY <2>1, <2>2 DEF Place, Acquire
    <3>2. \A q \in Run : sem[q] # s => a[q] = acq[q]
      BY <2>1
    <3>3. WakeUpNext(s, v, a)
      BY <2>2 DEF Release
    <3> HIDE DEF s, a, v
    <3>4. QED
      BY <1>2, <2>1, <2>2, <3>1, <3>2, <3>3, WakeFindsAWaiter
  <2>3. ASSUME NEW r \in Run, NEW x \in {"void", "dropped", "withdrawn", "revoked", "new", "none"},
               x = "revoked" \/ acq[r] \notin {"granted", "revoked"},
               acq' = [acq EXCEPT ![r] = x], UNCHANGED <<value, sem>>
        PROVE  NoWaitInVain'
    <3>1. ASSUME NEW q \in Run, acq'[q] = "pending", value'[sem'[q]] > 0
          PROVE  \E p \in Run : sem'[p] = sem'[q] /\ acq'[p] \in {"granted", "revoked"}
      <4>1. acq[q] = "pending"
        BY <2>1, <2>3, <3>1
      <4>2. PICK p \in Run : sem[p] = sem[q] /\ acq[p] \in {"granted", "revoked"}
        BY <1>2, <2>3, <3>1, <4>1 DEF NoWaitInVain
      <4>3. acq'[p] \in {"granted", "revoked"}
        BY <2>1, <2>3, <4>2
      <4>4. QED
        BY <2>3, <4>2, <4>3
    <3>2. QED
      BY <3>1 DEF NoWaitInVain
  <2>4. ASSUME NEW r \in Run, AcquireStarts(r)
        PROVE  NoWaitInVain'
    <3>1. CASE ~Locked(sem[r])
      <4>1. /\ acq[r] = "new" /\ acq' = [acq EXCEPT ![r] = "won"] /\ UNCHANGED sem
            /\ value' = [value EXCEPT ![sem[r]] = @ - 1]
            /\ sem[r] \in Sem
        BY <2>1, <2>4, <3>1 DEF AcquireStarts, Place
      <4>2. ASSUME NEW q \in Run, acq'[q] = "pending", value'[sem'[q]] > 0
            PROVE  \E p \in Run : sem'[p] = sem'[q] /\ acq'[p] \in {"granted", "revoked"}
        <5>1. acq[q] = "pending" /\ sem[q] \in Sem
          BY <2>1, <4>1, <4>2 DEF Place
        <5>2. value[sem[q]] > 0
          BY <2>1, <4>1, <4>2, <5>1
        <5>3. PICK p \in Run : sem[p] = sem[q] /\ acq[p] \in {"granted", "revoked"}
          BY <1>2, <5>1, <5>2 DEF NoWaitInVain
        <5>4. acq'[p] \in {"granted", "revoked"}
          BY <2>1, <4>1, <5>3
        <5>5. QED
          BY <4>1, <5>3, <5>4
      <4>3. QED
        BY <4>2 DEF NoWaitInVain
    <3>2. CASE Locked(sem[r])
      <4>1. acq[r] = "new" /\ acq' = [acq EXCEPT ![r] = "pending"] /\ UNCHANGED <<sem, value>>
        BY <2>4, <3>2 DEF AcquireStarts
      <4>2. ASSUME value[sem[r]] > 0
            PROVE  \E p \in Run : sem[p] = sem[r] /\ acq[p] \in {"granted", "revoked"}
        BY <1>2, <3>2, <4>2 DEF Locked, InLine, NoWaitInVain
      <4>3. ASSUME NEW q \in Run, acq'[q] = "pending", value'[sem'[q]] > 0
            PROVE  \E p \in Run : sem'[p] = sem'[q] /\ acq'[p] \in {"granted", "revoked"}
        <5>1. PICK p \in Run : sem[p] = sem[q] /\ acq[p] \in {"granted", "revoked"}
          BY <1>2, <2>1, <4>1, <4>2, <4>3 DEF NoWaitInVain
        <5>2. acq'[p] \in {"granted", "revoked"}
          BY <2>1, <4>1, <5>1
        <5>3. QED
          BY <4>1, <5>1, <5>2
      <4>4. QED
        BY <4>3 DEF NoWaitInVain
    <3>3. QED
      BY <3>1, <3>2
  <2>5. ASSUME NEW r \in Run, AcquireResumes(r)
        PROVE  NoWaitInVain'
    <3> DEFINE s == sem[r]
               a == [acq EXCEPT ![r] = "won"]
               v == value[s]
    <3>1. s \in Sem /\ a \in [Run -> Acquire] /\ v \in Nat /\ UNCHANGED sem
      BY <2>1, <2>5 DEF Place, Acquire, AcquireResumes
    <3>2. \A q \in Run : sem[q] # s => a[q] = acq[q]
      BY <2>1
    <3>3. CASE WakeUpNext(s, v, a)
      <4> HIDE DEF s, a, v
      <4>1. QED
        BY <1>2, <2>1, <3>1, <3>2, <3>3, WakeFindsAWaiter
    <3>4. CASE v = 0 /\ acq' = a /\ UNCHANGED value
      <4>1. ASSUME NEW q \in Run, acq'[q] = "pending", value'[sem'[q]] > 0
            PROVE  \E p \in Run : sem'[p] = sem'[q] /\ acq'[p] \in {"granted", "revoked"}
        <5>1. sem[q] # s /\ acq[q] = "pending"
          BY <2>1, <3>1, <3>4, <4>1
        <5>2. PICK p \in Run : sem[p] = sem[q] /\ acq[p] \in {"granted", "revoked"}
          BY <1>2, <3>1, <3>4, <4>1, <5>1 DEF NoWaitInVain
        <5>3. acq'[p] = acq[p]
          BY <2>1, <3>4, <5>1, <5>2
        <5>4. QED
          BY <3>1, <5>2, <5>3
      <4>2. QED
        BY <4>1 DEF NoWaitInVain
    <3>5. QED
      BY <2>5, <3>3, <3>4 DEF AcquireResumes
  <2>6. ASSUME NEW r \in Run, AcquireCancelled(r)
        PROVE  NoWaitInVain'
    BY <2>2, <2>3, <2>6 DEF AcquireCancelled
  <2>7. ASSUME NEW r \in Run, GiveUp(r)
        PROVE  NoWaitInVain'
    <3>1. CASE acq[r] = "won"
      BY <2>2, <2>7, <3>1 DEF GiveUp
    <3>2. CASE acq[r] # "won"
      <4>1. acq[r] \in {"new", "pending", "granted"}
        BY <2>1, <2>7, <3>2 DEF GiveUp, Place
      <4>2. acq' = [acq EXCEPT ![r] = CancelledAt[acq[r]]] /\ UNCHANGED <<value, sem>>
        BY <2>7, <3>2 DEF GiveUp
      <4>3. /\ acq[r] = "new" => CancelledAt[acq[r]] = "dropped"
            /\ acq[r] = "pending" => CancelledAt[acq[r]] = "withdrawn"
            /\ acq[r] = "granted" => CancelledAt[acq[r]] = "revoked"
        BY DEF CancelledAt
      <4>4. CASE acq[r] = "new"
        BY <2>3, <4>2, <4>3, <4>4
      <4>5. CASE acq[r] = "pending"
        BY <2>3, <4>2, <4>3, <4>5
      <4>6. CASE acq[r] = "granted"
        BY <2>3, <4>2, <4>3, <4>6
      <4>7. QED
        BY <4>1, <4>4, <4>5, <4>6
    <3>3. QED
      BY <3>1, <3>2
  <2>8. ASSUME NEW r \in Run, GivenUp(r)
        PROVE  NoWaitInVain'
    <3>1. acq[r] = "void" /\ acq' = [acq EXCEPT ![r] = "none"] /\ UNCHANGED <<value, sem>>
      BY <2>1, <2>8 DEF GivenUp, Place
    <3>2. QED
      BY <2>3, <3>1
  <2>9. ASSUME NEW r \in Run, Finish(r)
        PROVE  NoWaitInVain'
    <3>1. CASE sem[r] = 0
      <4>1. UNCHANGED <<acq, value, sem>>
        BY <2>1, <2>9, <3>1 DEF Finish, Place
      <4>2. QED
        BY <1>2, <4>1 DEF NoWaitInVain
    <3>2. CASE sem[r] # 0
      BY <2>1, <2>2, <2>9, <3>2 DEF Finish, Place
    <3>3. QED
      BY <3>1, <3>2
  <2>10. ASSUME NEW r \in Run, Check(r)
         PROVE  NoWaitInVain'
    <3>1. acq[r] = "none" /\ acq' = [acq EXCEPT ![r] = "new"] /\ UNCHANGED <<value, sem>>
      BY <2>1, <2>10 DEF Check, Place
    <3>2. QED
      BY <2>3, <3>1
  <2>11. ASSUME NEW r \in Run, Enter(r)
         PROVE  NoWaitInVain'
    <3>1. /\ acq[r] = "none" /\ UNCHANGED acq
          /\ sem' = [sem EXCEPT ![r] = latest']
          /\ \A q \in Run : acq[q] # "none" => sem[q] \in Sem /\ sem[q] <= latest
      BY <2>1, <2>11 DEF Enter, Place
    <3>2. \A s \in Sem : s <= latest => value'[s] = value[s]
      <4>1. CASE UNCHANGED value
        BY <4>1
      <4>2. CASE latest' = latest + 1 /\ value' = [value EXCEPT ![latest'] = limit]
        BY <2>1, <4>2 DEF TypeOK, Sem
      <4>3. QED
        BY <2>11, <4>1, <4>2 DEF Enter
    <3>3. ASSUME NEW q \in Run, acq'[q] = "pending", value'[sem'[q]] > 0
          PROVE  \E p \in Run : sem'[p] = sem'[q] /\ acq'[p] \in {"granted", "revoked"}
      <4>1. q # r /\ sem'[q] = sem[q] /\ acq[q] = "pending" /\ value[sem[q]] > 0
        BY <2>1, <3>1, <3>2, <3>3
      <4>2. PICK p \in Run : sem[p] = sem[q] /\ acq[p] \in {"granted", "revoked"}
        BY <1>2, <4>1 DEF NoWaitInVain
      <4>3. p # r /\ sem'[p] = sem[p]
        BY <2>1, <3>1, <4>2
      <4>4. QED
        BY <3>1, <4>1, <4>2, <4>3
    <3>4. QED
      BY <3>3 DEF NoWaitInVain
  <2>12. ASSUME UNCHANGED <<acq, value, sem>>
         PROVE  NoWaitInVain'
    BY <1>2, <2>12 DEF NoWaitInVain
  <2>13. ASSUME NEW r \in Run, Waiter(r)
         PROVE  NoWaitInVain'
    <3>1. CASE EnterUnlimited(r) \/ CheckFails(r) \/ Won(r) \/ TimesOut(r) \/ PollsOn(r)
      BY <2>12, <3>1 DEF EnterUnlimited, CheckFails, Won, TimesOut, PollsOn
    <3>2. QED
      BY <2>7, <2>8, <2>10, <2>11, <2>13, <3>1 DEF Waiter
  <2>14. ASSUME NEW r \in Run, CancelRun(r)
         PROVE  NoWaitInVain'
    BY <2>12, <2>14 DEF CancelRun
  <2>15. ASSUME NEW n \in Limits, SetLimit(n)
         PROVE  NoWaitInVain'
    BY <2>12, <2>15 DEF SetLimit
  <2>16. CASE UNCHANGED vars
    BY <2>12, <2>16 DEF vars
  <2>17. QED
    BY <1>2, <2>4, <2>5, <2>6, <2>9, <2>13, <2>14, <2>15, <2>16 DEF Next, AcquireTask
<1>3. QED
  BY <1>1, <1>2, SlotInit, SlotStep, PTL DEF Spec
=============================================================================
