--------------------------- MODULE RunStreamProofs ---------------------------
(***************************************************************************)
(* Proofs about RunStream, for any sets of workers and clients, any        *)
(* endings and any bounds: types, the order of the log, what stands in     *)
(* front of a leg that executes, what a tail that a sentinel ends has been *)
(* given, and what is new to a client.  Each layer has an inductive        *)
(* invariant of its own: TypeInv; OrderInv; LeaseInv, AbortInv, RowInv and *)
(* OpenInv; TailInv; DoorInv, StampInv and CountInv.                       *)
(***************************************************************************)
EXTENDS RunStream, JobStoreProofs, FiniteSetTheorems, WellFoundedInduction,
        TLAPS

-----------------------------------------------------------------------------
(* What a leg has yet to do *)

\* b may come after a in what l has to do.
Successor(l, a, b) ==
  \/ a = "stamp" /\ b = "begin"
  \/ a = "begin" /\ b = IF l.cont THEN "reopen"
                        ELSE IF l.attempt > 1 THEN "reset" ELSE "start"
  \/ a \in {"reopen", "reset"} /\ b = "start"
  \/ a = "start" /\ b = IF l.cont THEN "enter" ELSE "exec"
  \/ a = "enter" /\ b = "exec"
  \/ a = "append" /\ b \in IF l.result = "none" THEN {"exec"} ELSE {"close", "settle"}
  \/ a = "tell" /\ b \in {"close", "settle"}
  \/ a \in {"close", "persist", "settle", "terminate"}
       /\ b \in {"persist", "settle", "terminate", "honor"}

\* What the user's cancel leaves a leg to do.
Aborted ==
  {<<"close", "settle", "persist", "terminate">>, <<"settle", "persist", "terminate">>,
   <<"persist", "terminate">>, <<"terminate">>}

\* The steps of a leg come in order, a result is there from the end of the component
\* on, and of the steps that follow the ticket write there is but one, unless the
\* user's cancel ended the leg.
WellOrdered(l) ==
  /\ Len(l.todo) > 0
  /\ \A i \in 1 .. Len(l.todo) :
       /\ i < Len(l.todo) => Successor(l, l.todo[i], l.todo[i + 1])
       /\ l.todo[i] = "settle" /\ i < Len(l.todo) =>
            \/ i + 1 = Len(l.todo) /\ l.todo[i + 1] \in {"honor", "terminate"}
            \/ l.result = "aborted"
       /\ l.todo[i] \in {"reopen", "enter"} => l.cont
       /\ l.todo[i] = "reset" => ~l.cont
       /\ l.todo[i] \in {"stamp", "begin", "reset", "reopen", "start", "enter", "exec"} =>
            l.result = "none"
       /\ l.todo[i] \in {"tell", "close", "persist", "terminate"} => l.result # "none"
  /\ l.result = "aborted" => l.todo \in Aborted

Executing == {"exec", "append", "tell"}

Terminates(l) == \E i \in 1 .. Len(l.todo) : l.todo[i] = "terminate"

LegInv(l) ==
  /\ WellOrdered(l)
  /\ l.worker \in alive
  /\ l.attempt \in 1 .. jobs[Run].attempt
  /\ Head(l.todo) \in Executing \cup {"enter"} => status # "none"
  /\ Head(l.todo) = "append" => l.idx < counter
  /\ (\E i \in 1 .. Len(l.todo) : l.todo[i] = "honor") => row.status \in Finished

\* The index of every event is one that the counter has passed.
Counted == \A i \in 1 .. Len(log) : log[i].kind = "event" => log[i].idx < counter

TypeInv ==
  /\ TypeOK /\ StoreTypeOK
  /\ Counted
  /\ \A l \in legs : LegInv(l)
  /\ \A l, m \in legs : l.attempt = m.attempt => l = m
  /\ legs # {} => jobs[Run].status # "absent"
  /\ sweep.pc # "idle" => sweep.worker \in alive
  /\ sweep.pc = "idle" => sweep = NoSweep

-----------------------------------------------------------------------------
(* The order of the log *)

\* No entry of the log is of an attempt that the leg has displaced.
Fresh(l) == \A i \in 1 .. Len(log) : log[i].gen = 0 \/ log[i].gen >= l.attempt

WriterInv(l) ==
  /\ Head(l.todo) \in Executing \cup {"reset", "reopen", "start", "enter"} =>
       l.attempt <= gen
  /\ Head(l.todo) = "append" /\ gen = l.attempt =>
       \A i \in 1 .. Len(log) : log[i].kind = "event" => log[i].idx < l.idx
  /\ Head(l.todo) \in Executing \cup {"start"} /\ ~l.cont =>
       gen > l.attempt \/ Fresh(l)

LogOrdered ==
  \A i, k \in 1 .. Len(log) :
    log[i].kind = "event" /\ log[k].kind = "event" /\ i < k => log[i].idx < log[k].idx

OrderInv ==
  /\ LogOrdered
  /\ \A i \in 1 .. Len(log) : log[i].gen <= gen
  /\ \A l \in legs : WriterInv(l)

-----------------------------------------------------------------------------
(* The lease, when none lapses under a leg that lives *)

\* All that is left of a leg that has written its ticket.
Trailing(l) ==
  \/ Len(l.todo) = 1 /\ Head(l.todo) \in {"honor", "terminate"}
  \/ l.result = "aborted" /\ Head(l.todo) = "persist"

Leased(w, attempt) == OwnsLease(w, Run, attempt) /\ ~jobs[Run].stale

LeaseInv ==
  /\ \A l \in legs :
       ~Trailing(l) => Leased(l.worker, l.attempt) /\ sweep.pc = "idle"
  /\ sweep.pc # "idle" => Leased(sweep.worker, sweep.attempt)
  /\ gen <= jobs[Run].attempt
  /\ cont /\ jobs[Run].status = "running" =>
       jobs[Run].maxAttempts <= jobs[Run].attempt
  /\ cont /\ jobs[Run].status = "queued" =>
       jobs[Run].maxAttempts <= jobs[Run].attempt + 1
  /\ jobs[Run].status = "absent" => jobs[Run].attempt = 0 /\ ~cont

\* A leg that the user's cancel ended has written its ticket, which nobody puts back
\* before the leg has written its row.
AbortInv ==
  \A l \in legs :
    l.result = "aborted" /\ Head(l.todo) = "persist" =>
      jobs[Run].status = "cancelled" /\ jobs[Run].attempt = l.attempt

\* The row beside a leg: not finished while the leg executes, then what the leg made
\* of it.  Only the user's cancel may meet a row that was complete before.
LegRow(l) ==
  /\ row.attempt <= l.attempt
  /\ l.cont = cont
  /\ l.result = "none" /\ Head(l.todo) \in {"exec", "append"} =>
       row.status \notin Finished
  /\ ~l.cont /\ Head(l.todo) \in {"begin", "reset", "start"} =>
       row.status \notin Finished
  /\ l.cont /\ Head(l.todo) \in {"stamp", "begin", "reopen", "start", "enter"} =>
       row.status # "completed"
  /\ l.result = "completed" => row.status = "completed"
  /\ l.result \notin {"none", "completed"} /\ (l.result = "aborted" => l.cont) =>
       row.status # "completed"
  /\ l.result = "cancelled" => row.status = "cancelled"
  /\ l.result = "none" /\ Head(l.todo) = "settle" => row.status \in Finished

RowInv ==
  /\ row.attempt <= jobs[Run].attempt
  /\ \A l \in legs : ~Trailing(l) => LegRow(l)
  /\ \A l \in legs : Terminates(l) => l.result \notin {"completed", "cancelled"}
  /\ \A l \in legs : l.result = "aborted" /\ Head(l.todo) = "terminate" =>
       row.status \in Finished
  /\ cont /\ jobs[Run].status \in {"queued", "paused", "failed", "cancelled"} =>
       row.status # "completed"
  /\ sweep.pc \in {"fail", "failed"} => row.status # "completed"
  /\ sweep.pc \in {"completed", "cancelled", "paused"} => row.status = sweep.pc

\* No sentinel of an attempt is the last thing in the log.
Quiet ==
  Len(log) > 0 /\ log[Len(log)].kind = "terminal" => log[Len(log)].gen = 0

OpenLeg(l) ==
  /\ Head(l.todo) \in {"stamp", "begin", "reset", "reopen"} =>
       \A i \in 1 .. Len(log) : log[i].gen < l.attempt
  /\ Head(l.todo) \in Executing \cup {"start", "enter"} =>
       \/ Quiet
       \/ Head(l.todo) \in {"start", "enter"} /\ row.status = "cancelled"

\* The user's cancel ended the leg, which its row may not say yet.
Cancelling(l) == l.result = "aborted" /\ Head(l.todo) \in {"settle", "persist"}

Excused == row.status \in Finished \/ \E l \in legs : Cancelling(l)

OpenInv ==
  /\ \A l \in legs : OpenLeg(l)
  /\ ~Quiet => status \in {"paused", "error"} \/ Excused
  /\ status = "completed" => row.status = "completed"

-----------------------------------------------------------------------------
(* What a leg does next *)

\* What may come before a step.
LEMMA Predecessors ==
  ASSUME NEW l, NEW a, NEW b, Successor(l, a, b)
  PROVE  /\ b \notin {"stamp", "append", "tell"}
         /\ b = "begin" => a = "stamp"
         /\ b \in {"reset", "reopen"} => a = "begin"
         /\ b = "start" => \/ a \in {"reopen", "reset"}
                           \/ a = "begin" /\ ~l.cont /\ ~(l.attempt > 1)
         /\ b = "enter" => a = "start" /\ l.cont
         /\ b = "exec" => \/ a = "start" /\ ~l.cont
                          \/ a = "enter"
                          \/ a = "append" /\ l.result = "none"
         /\ b = "close" => \/ a = "append" /\ l.result # "none"
                           \/ a = "tell"
         /\ b \in {"persist", "terminate", "honor"} =>
              a \in {"close", "persist", "settle", "terminate"}
         /\ b = "settle" => \/ a \in {"close", "persist", "settle", "terminate", "tell"}
                            \/ a = "append" /\ l.result # "none"
BY DEF Successor

\* What is left to do once the first step is done is in order again, and starts
\* with a successor of that step.
LEMMA DoneInOrder ==
  ASSUME NEW l \in Leg, WellOrdered(l),
         NEW m, m = [l EXCEPT !.todo = Tail(@)]
  PROVE  /\ m \in Leg
         /\ m.todo # <<>> =>
              /\ WellOrdered(m)
              /\ Len(l.todo) > 1
              /\ Head(m.todo) = l.todo[2]
              /\ Successor(l, Head(l.todo), Head(m.todo))
              /\ Len(m.todo) = Len(l.todo) - 1
              /\ \A i \in 1 .. Len(m.todo) : m.todo[i] = l.todo[i + 1]
         /\ m.worker = l.worker /\ m.attempt = l.attempt /\ m.cont = l.cont
         /\ m.last = l.last /\ m.result = l.result /\ m.idx = l.idx /\ m.floor = l.floor
<1>1. l.todo \in Seq(Steps) /\ Len(l.todo) \in Nat /\ Len(l.todo) > 0
  BY DEF Leg, WellOrdered
<1>2. m.todo = Tail(l.todo) /\ m.worker = l.worker /\ m.attempt = l.attempt
      /\ m.cont = l.cont /\ m.last = l.last /\ m.result = l.result
      /\ m.idx = l.idx /\ m.floor = l.floor
  BY DEF Leg
<1>3. /\ Tail(l.todo) \in Seq(Steps) /\ Len(Tail(l.todo)) = Len(l.todo) - 1
      /\ \A i \in 1 .. Len(l.todo) - 1 : Tail(l.todo)[i] = l.todo[i + 1]
      /\ Tail(l.todo) # <<>> => Len(l.todo) > 1 /\ Head(Tail(l.todo)) = l.todo[2]
      /\ Head(l.todo) = l.todo[1]
  BY <1>1
<1>4. m \in Leg
  BY <1>1, <1>3 DEF Leg
<1>5. ASSUME m.todo # <<>>
      PROVE  WellOrdered(m)
  <2>1. Len(m.todo) > 0 /\ Len(m.todo) = Len(l.todo) - 1
    BY <1>1, <1>2, <1>3, <1>5
  <2>2. ASSUME NEW i \in 1 .. Len(m.todo)
        PROVE  /\ i < Len(m.todo) => Successor(m, m.todo[i], m.todo[i + 1])
               /\ m.todo[i] = "settle" /\ i < Len(m.todo) =>
                    \/ i + 1 = Len(m.todo) /\ m.todo[i + 1] \in {"honor", "terminate"}
                    \/ m.result = "aborted"
               /\ m.todo[i] \in {"reopen", "enter"} => m.cont
               /\ m.todo[i] = "reset" => ~m.cont
               /\ m.todo[i] \in {"stamp", "begin", "reset", "reopen", "start", "enter",
                                 "exec"} => m.result = "none"
               /\ m.todo[i] \in {"tell", "close", "persist", "terminate"} =>
                    m.result # "none"
    <3>1. i + 1 \in 1 .. Len(l.todo) /\ m.todo[i] = l.todo[i + 1]
      BY <1>1, <1>2, <1>3, <2>1
    <3>2. i < Len(m.todo) => m.todo[i + 1] = l.todo[i + 2] /\ i + 1 < Len(l.todo)
      BY <1>1, <1>2, <1>3, <2>1
    <3>3. i < Len(m.todo) => Successor(l, l.todo[i + 1], l.todo[i + 2])
      BY <3>1, <3>2, (i + 1) + 1 = i + 2 DEF WellOrdered
    <3>4. i < Len(m.todo) => Successor(m, m.todo[i], m.todo[i + 1])
      BY <3>1, <3>2, <3>3, <1>2 DEF Successor
    <3>5. m.todo[i] = "settle" /\ i < Len(m.todo) =>
            \/ i + 1 = Len(m.todo) /\ m.todo[i + 1] \in {"honor", "terminate"}
            \/ m.result = "aborted"
      BY <3>1, <3>2, <2>1, <1>2, (i + 1) + 1 = i + 2 DEF WellOrdered
    <3>6. QED
      BY <3>1, <3>4, <3>5, <1>2 DEF WellOrdered
  <2>3. m.result = "aborted" => m.todo \in Aborted
    <3>1. ASSUME NEW t \in Aborted, Tail(t) # <<>>
          PROVE  Tail(t) \in Aborted
      <4>1. /\ Tail(<<"close", "settle", "persist", "terminate">>) =
                 <<"settle", "persist", "terminate">>
            /\ Tail(<<"settle", "persist", "terminate">>) = <<"persist", "terminate">>
            /\ Tail(<<"persist", "terminate">>) = <<"terminate">>
            /\ Tail(<<"terminate">>) = <<>>
        OBVIOUS
      <4>2. QED
        BY <3>1, <4>1 DEF Aborted
    <3>2. l.result = "aborted" => l.todo \in Aborted
      BY DEF WellOrdered
    <3>3. QED
      BY <3>1, <3>2, <1>2, <1>5
  <2>4. QED
    BY <2>1, <2>2, <2>3 DEF WellOrdered
<1>6. m.todo # <<>> => Successor(l, l.todo[1], l.todo[2])
  <2>1. m.todo # <<>> => 1 \in 1 .. Len(l.todo) /\ 1 < Len(l.todo)
    BY <1>1, <1>2, <1>3
  <2>2. QED
    BY <2>1, 1 + 1 = 2 DEF WellOrdered
<1>7. QED
  BY <1>1, <1>2, <1>3, <1>4, <1>5, <1>6

\* The event of the ending, if there is one.
Telling(result) == {<<>>} \cup (IF result \in Returned THEN {<<"tell">>} ELSE {})

\* A leg whose component is through.
Through(l, result, told) ==
  [l EXCEPT !.todo = told \o Ending(result, l.last), !.result = result]

\* It has its steps in order, and none of them is the honoring of a row.
LEMMA EndingInOrder ==
  ASSUME NEW l \in Leg, NEW result \in Results \ {"none"}, NEW told \in Telling(result),
         NEW m, m = Through(l, result, told)
  PROVE  /\ m \in Leg /\ WellOrdered(m)
         /\ Head(m.todo) \in {"tell", "close", "persist", "settle"}
         /\ \A i \in 1 .. Len(m.todo) : m.todo[i] # "honor"
         /\ ~Trailing(m)
         /\ m.worker = l.worker /\ m.attempt = l.attempt /\ m.cont = l.cont
         /\ m.result = result
<1> DEFINE t == told \o Ending(result, l.last)
<1>1. m.todo = t /\ m.worker = l.worker /\ m.attempt = l.attempt /\ m.cont = l.cont
      /\ m.result = result
  BY DEF Leg, Through
<1>2. result \in {"completed", "paused", "cancelled", "error", "unseen", "aborted",
                  "exception", "permanent", "timeout", "drain"}
  BY EndingsAssumption DEF Results, Returned
<1> DEFINE e == Ending(result, l.last)
<1>3. \/ e = <<"close", "settle">> /\ result # "aborted"
      \/ e = <<"close", "settle", "persist", "terminate">> /\ result = "aborted"
      \/ /\ result \notin Returned \cup {"aborted"}
         /\ \/ e = <<"close">> \o <<"persist", "settle", "terminate">>
            \/ e = <<>> \o <<"persist", "settle", "terminate">>
            \/ e = <<"close", "persist", "settle">>
            \/ e = <<"close", "persist", "terminate", "settle">>
            \/ e = <<"close", "persist", "settle", "terminate">>
      \/ e = <<"settle">> /\ result # "aborted"
  <2>1. CASE result \in {"completed", "paused", "cancelled"}
    BY <2>1 DEF Ending
  <2>2. CASE result = "permanent"
    BY <2>2 DEF Ending, Returned
  <2>3. CASE result = "aborted"
    BY <2>3 DEF Ending
  <2>4. CASE result \in {"error", "unseen", "exception", "timeout", "drain"} /\ ~l.last
    BY <2>4 DEF Ending
  <2>5. CASE result \in {"error", "unseen"} /\ l.last
    BY <2>5 DEF Ending
  <2>6. CASE result = "exception" /\ l.last
    BY <2>6 DEF Ending, Returned
  <2>7. CASE result = "timeout" /\ l.last
    BY <2>7 DEF Ending, Returned
  <2>8. CASE result = "drain" /\ l.last
    BY <2>8 DEF Ending, Returned
  <2>9. QED
    BY <1>2, <2>1, <2>2, <2>3, <2>4, <2>5, <2>6, <2>7, <2>8
<1> DEFINE Fits(s) ==
      /\ s \in Seq(Steps) /\ Len(s) > 0
      /\ s[1] \in {"tell", "close", "persist", "settle"}
      /\ \A i \in 1 .. Len(s) :
           /\ s[i] \in {"tell", "close", "persist", "settle", "terminate"}
           /\ i < Len(s) => s[i + 1] \in IF s[i] = "tell" THEN {"close", "settle"}
                                          ELSE {"persist", "settle", "terminate"}
           /\ s[i] = "settle" /\ i < Len(s) =>
                \/ i + 1 = Len(s) /\ s[i + 1] = "terminate"
                \/ result = "aborted"
      /\ result = "aborted" => s \in Aborted
<1>4. result # "aborted" => /\ Fits(<<>> \o <<"close", "settle">>)
                            /\ Fits(<<"tell">> \o <<"close", "settle">>)
  BY DEF Steps
<1>5. result # "aborted" => /\ Fits(<<>> \o (<<"close">> \o <<"persist", "settle", "terminate">>))
                            /\ Fits(<<>> \o (<<>> \o <<"persist", "settle", "terminate">>))
  BY DEF Steps
<1>6. result # "aborted" => /\ Fits(<<>> \o <<"settle">>)
                            /\ Fits(<<"tell">> \o <<"settle">>)
  BY DEF Steps
<1>7. result # "aborted" => /\ Fits(<<>> \o <<"close", "persist", "settle">>)
                            /\ Fits(<<>> \o <<"close", "persist", "terminate", "settle">>)
                            /\ Fits(<<>> \o <<"close", "persist", "settle", "terminate">>)
  BY DEF Steps
<1>8. Fits(<<"close", "settle", "persist", "terminate">>) \/ result # "aborted"
  BY DEF Steps, Aborted
<1>9. <<>> \o <<"close", "settle", "persist", "terminate">> =
        <<"close", "settle", "persist", "terminate">>
  OBVIOUS
<1>10. /\ told \in {<<>>, <<"tell">>}
       /\ result \notin Returned => told = <<>>
       /\ "aborted" \notin Returned
  BY DEF Telling, Returned
<1>11. Fits(t)
  <2>1. t = told \o e
    OBVIOUS
  <2> HIDE DEF Fits, t, e
  <2>2. CASE result = "aborted"
    BY <2>1, <2>2, <1>3, <1>8, <1>9, <1>10
  <2>3. CASE result # "aborted"
    BY <2>1, <2>3, <1>3, <1>4, <1>5, <1>6, <1>7, <1>10
  <2>4. QED
    BY <2>2, <2>3
<1> HIDE DEF t
<1>12. m \in Leg
  BY <1>1, <1>11 DEF Leg, t, Through
<1>13. WellOrdered(m)
  BY <1>1, <1>11 DEF WellOrdered, Successor
<1>14. Head(m.todo) = t[1] /\ (\A i \in 1 .. Len(m.todo) : m.todo[i] # "honor")
  BY <1>1, <1>11
<1>15. ~Trailing(m)
  <2>1. ~(Len(m.todo) = 1 /\ Head(m.todo) \in {"honor", "terminate"})
    BY <1>1, <1>11, <1>14
  <2>2. result = "aborted" => Head(m.todo) # "persist"
    <3>1. result = "aborted" => t = <<"close", "settle", "persist", "terminate">>
      BY <1>3, <1>9, <1>10 DEF t
    <3>2. QED
      BY <3>1, <1>14
  <2>3. QED
    BY <2>1, <2>2, <1>1 DEF Trailing
<1>16. QED
  BY <1>1, <1>11, <1>12, <1>13, <1>14, <1>15

LEMMA EndingHead ==
  ASSUME NEW l \in Leg, NEW result \in Results \ {"none"}, NEW m,
         m = Through(l, result, <<>>)
  PROVE  Head(m.todo) \in {"close", "persist", "settle"}
<1>1. m.todo = <<>> \o Ending(result, l.last)
  BY DEF Leg, Through
<1>2. result \in {"completed", "paused", "cancelled", "error", "unseen", "aborted",
                  "exception", "permanent", "timeout", "drain"}
  BY EndingsAssumption DEF Results, Returned
<1>3. CASE result # "permanent"
  BY <1>1, <1>2, <1>3 DEF Ending
<1>4. CASE result = "permanent"
  <2>1. \/ Ending(result, l.last) = <<"close">> \o <<"persist", "settle", "terminate">>
        \/ Ending(result, l.last) = <<>> \o <<"persist", "settle", "terminate">>
    BY <1>4 DEF Ending
  <2>2. QED
    BY <1>1, <2>1
<1>5. QED
  BY <1>3, <1>4

\* The leg of a Finish, and of an Enter that refuses to.
LEMMA FinishedLeg ==
  ASSUME NEW l \in Leg, NEW result, Finish(l, result)
  PROVE  \E told \in Telling(result) : Becomes(l, Through(l, result, told))
<1>1. PICK told \in Telling(result) :
        Becomes(l, [l EXCEPT !.result = result, !.todo = told \o Ending(result, l.last)])
  BY DEF Finish, Telling
<1>2. [l EXCEPT !.result = result, !.todo = told \o Ending(result, l.last)] =
        Through(l, result, told)
  BY DEF Leg, Through
<1>3. QED
  BY <1>1, <1>2

LEMMA RefusedEntry ==
  ASSUME NEW l \in Leg, Enter(l), row.status = "cancelled"
  PROVE  Becomes(l, Through(l, "permanent", <<>>))
<1>1. <<>> \o Ending("permanent", l.last) = Ending("permanent", l.last)
  <2>1. CASE l.last
    BY <2>1 DEF Ending
  <2>2. CASE ~l.last
    BY <2>2 DEF Ending
  <2>3. QED
    BY <2>1, <2>2
<1>2. Becomes(l, [l EXCEPT !.todo = Ending("permanent", l.last), !.result = "permanent"])
  BY DEF Enter
<1>3. QED
  BY <1>1, <1>2 DEF Through

\* A leg is untouched by a step that lets the ticket go onward, moves no counter
\* back, ends no known stream and reopens no finished row.
LEMMA LegStays ==
  ASSUME TypeInv, NEW l \in Leg, LegInv(l),
         l.worker \in alive', jobs[Run].attempt <= jobs'[Run].attempt,
         jobs'[Run].attempt \in Nat, counter <= counter', counter' \in Nat,
         status # "none" => status' # "none",
         row.status \in Finished => row'.status \in Finished
  PROVE  LegInv(l)'
<1>1. jobs[Run].attempt \in Nat /\ counter \in Nat /\ l.attempt \in Nat /\ l.idx \in Nat
  BY RunAssumption DEF TypeInv, StoreTypeOK, Ticket, TypeOK, StreamTypeOK, Leg
<1>2. WellOrdered(l) /\ l.attempt \in 1 .. jobs'[Run].attempt
  BY <1>1 DEF LegInv
<1>3. QED
  BY <1>1, <1>2 DEF LegInv

\* A leg takes a step of its own: the others stay.
LEMMA LegBecomes ==
  ASSUME TypeInv, NEW l \in legs, NEW m \in Leg, Becomes(l, m),
         m.attempt = l.attempt, m.todo # <<>> => LegInv(m)',
         alive' = alive, jobs[Run].attempt <= jobs'[Run].attempt,
         jobs'[Run].attempt \in Nat, jobs'[Run].status # "absent",
         counter <= counter', counter' \in Nat,
         status # "none" => status' # "none",
         row.status \in Finished => row'.status \in Finished
  PROVE  /\ legs' \in SUBSET Leg
         /\ \A x \in legs' : LegInv(x)'
         /\ \A x, y \in legs' : x.attempt = y.attempt => x = y
         /\ legs' # {} => jobs'[Run].status # "absent"
<1>1. legs \in SUBSET Leg
  BY DEF TypeInv, TypeOK
<1>2. ASSUME NEW x \in legs'
      PROVE  (x \in legs /\ x # l) \/ (x = m /\ m.todo # <<>>)
  BY DEF Becomes
<1>3. legs' \in SUBSET Leg
  BY <1>1, <1>2
<1>4. ASSUME NEW x \in legs'
      PROVE  LegInv(x)'
  <2>1. CASE x = m /\ m.todo # <<>>
    BY <2>1
  <2>2. CASE x \in legs /\ x # l
    <3>1. x \in Leg /\ LegInv(x) /\ x.worker \in alive'
      BY <2>2, <1>1 DEF TypeInv, LegInv
    <3>2. QED
      BY <3>1, LegStays
  <2>3. QED
    BY <2>1, <2>2, <1>2
<1>5. ASSUME NEW x \in legs', NEW y \in legs', x.attempt = y.attempt
      PROVE  x = y
  BY <1>2, <1>5 DEF TypeInv
<1>6. QED
  BY <1>3, <1>4, <1>5

-----------------------------------------------------------------------------
(* The producers' side of the stream *)

LEMMA Appended ==
  ASSUME NEW s \in Seq(Entry), NEW e \in Entry
  PROVE  /\ Append(s, e) \in Seq(Entry) /\ Len(Append(s, e)) = Len(s) + 1
         /\ Len(s) \in Nat
         /\ Append(s, e)[Len(s) + 1] = e
         /\ \A i \in 1 .. Len(s) : Append(s, e)[i] = s[i]
         /\ \A i \in 1 .. Len(Append(s, e)) : i \in 1 .. Len(s) \/ i = Len(s) + 1
  OBVIOUS

StreamOK ==
  /\ StreamTypeOK /\ Counted
  /\ status = "none" => log = <<>>

\* The counter is not set back, and a known stream stays known.
GoesOn == counter <= counter' /\ (status # "none" => status' # "none")

\* What an appended entry must be like for the log to stay counted.
LEMMA PutKeepsTypes ==
  ASSUME StreamOK, NEW kind, NEW idx, NEW g, Put(kind, idx, g),
         [kind |-> kind, idx |-> idx, gen |-> g] \in Entry,
         counter <= counter', counter' \in Nat,
         kind = "event" => idx < counter'
  PROVE  log' \in Seq(Entry) /\ Counted'
<1>1. PICK e \in Entry : e = [kind |-> kind, idx |-> idx, gen |-> g]
  OBVIOUS
<1>2. log \in Seq(Entry) /\ counter \in Nat
  BY DEF StreamOK, StreamTypeOK
<1>3. log' = Append(log, e) /\ e.kind = kind /\ e.idx = idx
  BY <1>1 DEF Put
<1>4. log' \in Seq(Entry)
  BY <1>2, <1>3, Appended
<1>5. ASSUME NEW i \in 1 .. Len(log'), log'[i].kind = "event"
      PROVE  log'[i].idx < counter'
  <2>1. CASE i \in 1 .. Len(log)
    <3>1. log'[i] = log[i] /\ log[i] \in Entry
      BY <2>1, <1>2, <1>3, Appended
    <3>2. log[i].idx < counter /\ log[i].idx \in Nat
      BY <2>1, <3>1, <1>5 DEF StreamOK, Counted, Entry
    <3>3. QED
      BY <3>1, <3>2, <1>2
  <2>2. CASE i = Len(log) + 1
    BY <2>2, <1>2, <1>3, <1>5, Appended
  <2>3. QED
    BY <2>1, <2>2, <1>2, <1>3, Appended
<1>6. QED
  BY <1>4, <1>5 DEF Counted

LEMMA ProducersKeepTypes ==
  ASSUME StreamOK, UNCHANGED tails
  PROVE  /\ \A g \in Nat : BeginAttempt(g) /\ UNCHANGED enrolled => StreamOK' /\ GoesOn
         /\ \A g \in Nat : ResetRunEvents(g) /\ UNCHANGED enrolled => StreamOK' /\ GoesOn
         /\ RegisterRun /\ UNCHANGED <<log, head, counter, gen, enrolled>> =>
              StreamOK' /\ GoesOn
         /\ \A p \in Process, g \in Nat :
              StartRun(p, g) => StreamOK' /\ GoesOn /\ status' # "none"
         /\ \A p \in Process, g \in Nat : TakeIndex(p, g) => StreamOK' /\ GoesOn
         /\ \A g, idx \in Nat :
              AppendEvent(g, idx) /\ idx < counter /\ status # "none"
                /\ UNCHANGED enrolled => StreamOK' /\ GoesOn
         /\ \A p \in Process, s \in Ended, g \in Nat :
              CompleteRun(p, s, g) => StreamOK' /\ GoesOn
         /\ \A p \in Process, s \in Ended :
              CompleteAnyway(p, s) => StreamOK' /\ GoesOn
         /\ \A reopenable : \A floor \in Nat :
              ReopenRun(reopenable, floor) /\ UNCHANGED enrolled => StreamOK' /\ GoesOn
<1>1. /\ log \in Seq(Entry) /\ head \in Nat /\ counter \in Nat /\ gen \in Nat
      /\ status \in {"none", "pending", "running"} \cup Ended
      /\ enrolled \in SUBSET Process /\ tails' \in [Client -> Reader]
      /\ Counted /\ (status = "none" => log = <<>>)
  BY DEF StreamOK, StreamTypeOK
<1>2. \A g \in Nat : BeginAttempt(g) /\ UNCHANGED enrolled => StreamOK' /\ GoesOn
  BY <1>1 DEF BeginAttempt, StreamOK, StreamTypeOK, GoesOn, Counted
<1>3. ASSUME NEW g \in Nat, ResetRunEvents(g), UNCHANGED enrolled
      PROVE  StreamOK' /\ GoesOn
  <2>1. CASE Current(g)
    <3>1. /\ gen' = g /\ head' = End /\ log' = <<>> /\ counter' = counter
          /\ status' = status
      BY <1>3, <2>1 DEF ResetRunEvents
    <3>2. End \in Nat /\ <<>> \in Seq(Entry) /\ Len(<<>>) = 0
      BY <1>1 DEF End
    <3>3. Counted'
      BY <3>1, <3>2 DEF Counted
    <3>4. QED
      BY <3>1, <3>2, <3>3, <1>1, <1>3 DEF StreamOK, StreamTypeOK, GoesOn
  <2>2. CASE ~Current(g)
    BY <1>1, <1>3, <2>2 DEF ResetRunEvents, StreamOK, StreamTypeOK, GoesOn, Counted, keys
  <2>3. QED
    BY <2>1, <2>2
<1>4. RegisterRun /\ UNCHANGED <<log, head, counter, gen, enrolled>> => StreamOK' /\ GoesOn
  BY <1>1 DEF RegisterRun, StreamOK, StreamTypeOK, GoesOn, Counted
<1>5. \A p \in Process, g \in Nat :
        StartRun(p, g) => StreamOK' /\ GoesOn /\ status' # "none"
  BY <1>1 DEF StartRun, RegisterRun, StreamOK, StreamTypeOK, GoesOn, Counted, Ended
<1>6. \A p \in Process, g \in Nat : TakeIndex(p, g) => StreamOK' /\ GoesOn
  <2> SUFFICES ASSUME NEW p \in Process, NEW g \in Nat, TakeIndex(p, g)
               PROVE  StreamOK' /\ GoesOn
    OBVIOUS
  <2>1. /\ log' = log /\ head' = head /\ status' = status /\ gen' \in Nat
        /\ counter' \in Nat /\ counter <= counter' /\ enrolled' \in SUBSET Process
    BY <1>1 DEF TakeIndex, keys
  <2>2. Counted'
    <3>1. \A i \in 1 .. Len(log) : log[i] \in Entry
      BY <1>1
    <3>2. QED
      BY <1>1, <2>1, <3>1 DEF Counted, Entry
  <2>3. QED
    BY <1>1, <2>1, <2>2 DEF StreamOK, StreamTypeOK, GoesOn
<1>7. ASSUME NEW g \in Nat, NEW idx \in Nat, AppendEvent(g, idx), idx < counter,
             status # "none", UNCHANGED enrolled
      PROVE  StreamOK' /\ GoesOn
  <2>1. [kind |-> "event", idx |-> idx, gen |-> g] \in Entry
    BY DEF Entry
  <2>2. /\ head' = head /\ counter' = counter /\ status' = status /\ gen' = gen
        /\ Put("event", idx, g) \/ log' = log
    BY <1>7 DEF AppendEvent
  <2>3. log' \in Seq(Entry) /\ Counted'
    <3>1. CASE Put("event", idx, g)
      BY <1>1, <1>7, <2>1, <2>2, <3>1, PutKeepsTypes
    <3>2. CASE log' = log
      BY <1>1, <2>2, <3>2 DEF Counted
    <3>3. QED
      BY <2>2, <3>1, <3>2
  <2>4. QED
    BY <1>1, <1>7, <2>2, <2>3 DEF StreamOK, StreamTypeOK, GoesOn
<1>8. ASSUME NEW p \in Process, NEW s \in Ended, NEW g \in Nat, Terminate(s, g),
             Enrollment(p, s), gen' \in Nat, UNCHANGED <<head, counter>>
      PROVE  StreamOK' /\ GoesOn
  <2>1. [kind |-> "terminal", idx |-> 0, gen |-> g] \in Entry
    BY DEF Entry
  <2>2. log' \in Seq(Entry) /\ Counted'
    BY <1>1, <1>8, <2>1, PutKeepsTypes DEF Terminate
  <2>3. status' = s /\ s # "none" /\ enrolled' \in SUBSET Process
    BY <1>1, <1>8 DEF Terminate, Ended, Enrollment
  <2>4. QED
    BY <1>1, <1>8, <2>2, <2>3 DEF StreamOK, StreamTypeOK, GoesOn
<1>9. ASSUME NEW p \in Process, NEW s \in Ended, NEW g \in Nat, CompleteRun(p, s, g)
      PROVE  StreamOK' /\ GoesOn
  <2>1. CASE Current(g)
    BY <1>8, <1>9, <2>1 DEF CompleteRun
  <2>2. CASE ~Current(g)
    BY <1>1, <1>9, <2>2 DEF CompleteRun, StreamOK, StreamTypeOK, GoesOn, Counted, keys
  <2>3. QED
    BY <2>1, <2>2
<1>10. \A p \in Process, s \in Ended : CompleteAnyway(p, s) => StreamOK' /\ GoesOn
  BY <1>1, <1>8 DEF CompleteAnyway
<1>11. ASSUME NEW reopenable, NEW floor \in Nat, ReopenRun(reopenable, floor),
              UNCHANGED enrolled
       PROVE  StreamOK' /\ GoesOn
  <2>1. CASE status \in {"none", "pending"} \cup reopenable
    <3>1. /\ status' = "pending" /\ Put("reopen", 0, 0)
          /\ counter' = IF counter < floor THEN floor ELSE counter
          /\ head' = head /\ gen' = gen
      BY <1>11, <2>1 DEF ReopenRun
    <3>2. [kind |-> "reopen", idx |-> 0, gen |-> 0] \in Entry
      BY DEF Entry
    <3>3. counter' \in Nat /\ counter <= counter'
      BY <1>1, <3>1
    <3>4. log' \in Seq(Entry) /\ Counted'
      BY <3>1, <3>2, <3>3, PutKeepsTypes
    <3>5. QED
      BY <1>1, <1>11, <3>1, <3>3, <3>4 DEF StreamOK, StreamTypeOK, GoesOn
  <2>2. CASE ~(status \in {"none", "pending"} \cup reopenable)
    BY <1>1, <1>11, <2>2 DEF ReopenRun, StreamOK, StreamTypeOK, GoesOn, Counted, keys
  <2>3. QED
    BY <2>1, <2>2
<1>12. QED
  BY <1>2, <1>3, <1>4, <1>5, <1>6, <1>7, <1>9, <1>10, <1>11

-----------------------------------------------------------------------------
(* The tails *)

\* A bounded set of numbers that is not empty has a largest.
LEMMA LargestNatural ==
  ASSUME NEW S \in SUBSET Nat, S # {}, NEW b \in Nat, \A s \in S : s <= b
  PROVE  \E m \in S : \A s \in S : s <= m
<1> DEFINE over == {n \in Nat : \A s \in S : s <= n}
<1>1. over \subseteq Nat /\ over # {}
  OBVIOUS
<1>2. PICK m \in over : \A n \in over : ~(n < m)
  <2> HIDE DEF over
  <2>1. PICK m \in over : \A n \in over : ~(<<n, m>> \in OpToRel(<, Nat))
    BY <1>1, NatLessThanWellFounded, WFMin
  <2>2. QED
    BY <1>1, <2>1, Zenon DEF OpToRel
<1>3. m \in S
  <2>1. SUFFICES ASSUME m \notin S PROVE FALSE
    OBVIOUS
  <2>2. PICK s \in S : TRUE
    OBVIOUS
  <2>3. m > 0 /\ m - 1 \in Nat /\ \A t \in S : t <= m - 1
    BY <2>1, <2>2
  <2>4. QED
    BY <2>3, <1>2
<1>4. QED
  BY <1>3

LEMMA KeptEntries ==
  ASSUME StreamOK
  PROVE  /\ End \in Nat /\ Kept \subseteq Nat
         /\ \A i \in Kept :
              /\ i - head \in 1 .. Len(log) /\ At(i) = log[i - head] /\ At(i) \in Entry
              /\ At(i).kind = "event" => At(i).idx < counter
<1>1. log \in Seq(Entry) /\ head \in Nat /\ Len(log) \in Nat
  BY DEF StreamOK, StreamTypeOK
<1>2. QED
  BY <1>1 DEF Kept, End, At, StreamOK, Counted

\* The next index a tail waits for, past every event that it has just yielded.
LEMMA HighestFound ==
  ASSUME StreamOK, NEW t \in Reader, NEW to \in Nat
  PROVE  /\ Highest(t, to) \in Nat
         /\ t.next <= Highest(t, to)
         /\ \A i \in Yielded(t, to) : At(i).idx < Highest(t, to)
         /\ \/ Highest(t, to) = t.next
            \/ \E i \in Yielded(t, to) : Highest(t, to) = At(i).idx + 1
<1> DEFINE S == {t.next} \cup {At(i).idx + 1 : i \in Yielded(t, to)}
<1>1. t.next \in Nat /\ counter \in Nat
  BY DEF Reader, StreamOK, StreamTypeOK
<1>2. \A i \in Yielded(t, to) :
        i \in Kept /\ At(i).kind = "event" /\ t.next <= At(i).idx
  BY DEF Yielded
<1>3. \A i \in Yielded(t, to) : At(i).idx \in Nat /\ At(i).idx < counter
  BY <1>2, KeptEntries DEF Entry
<1>4. S \in SUBSET Nat /\ S # {}
  BY <1>1, <1>3
<1>5. PICK b \in Nat : \A s \in S : s <= b
  <2>1. t.next + counter \in Nat
    BY <1>1
  <2>2. \A s \in S : s <= t.next + counter
    BY <1>1, <1>3
  <2>3. QED
    BY <2>1, <2>2
<1>6. PICK m \in S : \A s \in S : s <= m
  <2> HIDE DEF S
  <2>1. QED
    BY <1>4, <1>5, LargestNatural
<1>7. ASSUME NEW i \in Yielded(t, to)
      PROVE  At(i).idx < m
  <2>1. At(i).idx + 1 \in S
    OBVIOUS
  <2>2. At(i).idx + 1 <= m /\ m \in Nat
    <3> HIDE DEF S
    <3> QED BY <2>1, <1>4, <1>6
  <2>3. QED
    BY <2>2, <1>3
<1>8. Highest(t, to) \in S /\ \A i \in Yielded(t, to) : At(i).idx < Highest(t, to)
  BY <1>7 DEF Highest
<1>9. QED
  BY <1>1, <1>2, <1>3, <1>8

\* An XREAD that finds something returns entries up to one that is there.
LEMMA BatchEnds ==
  ASSUME StreamOK, NEW t \in Reader, Unread(t) # {}
  PROVE  BatchEnd(t) \in Unread(t) /\ BatchEnd(t) \in Nat
<1>1. /\ log \in Seq(Entry) /\ head \in Nat /\ Len(log) \in Nat /\ End \in Nat
      /\ t.from \in Nat /\ ReadCount \in Nat \ {0}
  BY KeptEntries, ReadAssumption DEF Reader, StreamOK, StreamTypeOK
<1>2. PICK a \in Nat : a = IF t.from < head THEN head + 1 ELSE t.from + 1
  BY <1>1
<1>3. Unread(t) = a .. End
  BY <1>1, <1>2 DEF Unread, Kept
<1>4. a <= End
  BY <1>1, <1>2, <1>3
<1>5. ASSUME NEW i \in a .. End
      PROVE  Cardinality({k \in Unread(t) : k <= i}) = i - a + 1
  <2>1. {k \in Unread(t) : k <= i} = a .. i
    BY <1>1, <1>2, <1>3
  <2>2. a \in Int /\ i \in Int /\ ~(a > i)
    BY <1>1, <1>2
  <2>3. Cardinality(a .. i) = i - a + 1
    BY <2>2, FS_Interval
  <2>4. QED
    BY <2>1, <2>3
<1>6. Cardinality(Unread(t)) = End - a + 1
  <2>1. a \in Int /\ End \in Int /\ ~(a > End)
    BY <1>1, <1>2, <1>4
  <2>2. Cardinality(a .. End) = End - a + 1
    BY <2>1, FS_Interval
  <2>3. QED
    BY <2>2, <1>3
<1>7. \E i \in Unread(t) : \/ Cardinality({k \in Unread(t) : k <= i}) = ReadCount
                           \/ i = End /\ Cardinality(Unread(t)) <= ReadCount
  <2>1. CASE a + ReadCount - 1 <= End
    <3>1. a + ReadCount - 1 \in a .. End
      BY <2>1, <1>1, <1>2
    <3>2. Cardinality({k \in Unread(t) : k <= a + ReadCount - 1}) = ReadCount
      <4>1. PICK i \in a .. End : i = a + ReadCount - 1
        BY <3>1
      <4>2. Cardinality({k \in Unread(t) : k <= i}) = i - a + 1
        BY <1>5
      <4>3. i - a + 1 = ReadCount
        BY <4>1, <1>1, <1>2
      <4>4. QED
        BY <4>1, <4>2, <4>3
    <3>3. QED
      BY <3>1, <3>2, <1>3
  <2>2. CASE ~(a + ReadCount - 1 <= End)
    <3>1. End \in Unread(t)
      BY <1>1, <1>2, <1>3, <1>4
    <3>2. End - a + 1 <= ReadCount
      BY <2>2, <1>1, <1>2
    <3>3. QED
      BY <3>1, <3>2, <1>6
  <2>3. QED
    BY <2>1, <2>2
<1>8. BatchEnd(t) \in Unread(t)
  BY <1>7 DEF BatchEnd
<1>9. QED
  BY <1>1, <1>2, <1>3, <1>8

LEMMA TailsKeepTypes ==
  ASSUME StreamOK, NEW c \in Client, Attach(c) \/ TailStep(c)
  PROVE  StreamOK' /\ UNCHANGED <<keys, enrolled>>
<1>1. tails \in [Client -> Reader] /\ tails[c] \in Reader /\ End \in Nat
  BY KeptEntries DEF StreamOK, StreamTypeOK
<1>2. \A to \in Nat : After(tails[c], to) \in Reader
  BY <1>1, HighestFound DEF After, Reader
<1>3. ASSUME NEW t \in Reader, Goes(c, t)
      PROVE  StreamOK' /\ UNCHANGED <<keys, enrolled>>
  BY <1>1, <1>3 DEF Goes, StreamOK, StreamTypeOK, Counted, keys
<1>4. \A t \in Reader : /\ Ends(t) \in Reader
                        /\ \A pc \in {"away", "replay", "read", "peek", "probe"} :
                             [t EXCEPT !.pc = pc] \in Reader
  BY DEF Ends, Reader
<1>5. CASE Attach(c)
  BY <1>1, <1>3, <1>4, <1>5 DEF Attach
<1>6. CASE Replay(c)
  BY <1>1, <1>2, <1>3, <1>4, <1>6 DEF Replay
<1>7. CASE Read(c)
  BY <1>1, <1>2, <1>3, <1>4, <1>7, BatchEnds DEF Read
<1>8. CASE Peek(c)
  BY <1>1, <1>3, <1>4, <1>8 DEF Peek
<1>9. CASE ReadsNothing(c)
  BY <1>1, <1>3, <1>4, <1>9 DEF ReadsNothing
<1>10. CASE Probe(c)
  BY <1>1, <1>3, <1>4, <1>10 DEF Probe
<1>11. QED
  BY <1>5, <1>6, <1>7, <1>8, <1>9, <1>10 DEF TailStep

-----------------------------------------------------------------------------
(* Type correctness *)

LEMMA TypeFacts ==
  ASSUME TypeInv
  PROVE  /\ StreamOK /\ StoreTypeOK /\ Run \in Job /\ Process = Worker
         /\ legs \in SUBSET Leg /\ row \in Row /\ alive \in SUBSET Worker
         /\ jobs[Run] \in Ticket /\ jobs[Run].attempt \in Nat
         /\ gen \in Nat /\ counter \in Nat /\ log \in Seq(Entry) /\ Len(log) \in Nat
         /\ enrolled \subseteq alive
         /\ \A l \in legs : /\ l.attempt \in Nat /\ l.worker \in alive /\ l.idx \in Nat
                            /\ WellOrdered(l) /\ l.floor \in Nat /\ l.cont \in BOOLEAN
                            /\ l.result \in Results /\ l.todo \in Seq(Steps)
                            /\ Head(l.todo) = l.todo[1] /\ 1 \in 1 .. Len(l.todo)
                            /\ Len(l.todo) \in Nat
<1>1. /\ StreamOK /\ StoreTypeOK /\ Run \in Job /\ Process = Worker
      /\ legs \in SUBSET Leg /\ row \in Row /\ alive \in SUBSET Worker
      /\ gen \in Nat /\ counter \in Nat /\ log \in Seq(Entry)
      /\ enrolled \subseteq alive
  BY RunAssumption DEF TypeInv, TypeOK, StreamOK, StreamTypeOK
<1>2. jobs[Run] \in Ticket /\ jobs[Run].attempt \in Nat
  BY <1>1 DEF StoreTypeOK, Ticket
<1>3. ASSUME NEW l \in legs
      PROVE  /\ l.attempt \in Nat /\ l.worker \in alive /\ l.idx \in Nat
             /\ WellOrdered(l) /\ l.floor \in Nat /\ l.cont \in BOOLEAN
             /\ l.result \in Results /\ l.todo \in Seq(Steps)
             /\ Head(l.todo) = l.todo[1] /\ 1 \in 1 .. Len(l.todo)
             /\ Len(l.todo) \in Nat
  BY <1>1 DEF TypeInv, LegInv, Leg, WellOrdered
<1>4. QED
  BY <1>1, <1>2, <1>3

\* The step of a leg keeps every type if its store call, its stream operation
\* and what it becomes do.
LEMMA LegStepKeepsTypes ==
  ASSUME TypeInv, NEW l \in legs, NEW m \in Leg, Becomes(l, m),
         m.attempt = l.attempt, m.todo # <<>> => LegInv(m)',
         StoreTypeOK', Onward(Run), StreamOK', GoesOn, enrolled' \subseteq alive,
         row' \in Row, row.status \in Finished => row'.status \in Finished, LegQuiet
  PROVE  TypeInv'
<1>1. jobs[Run].status # "absent" /\ Run \in Job
  BY TypeFacts DEF TypeInv
<1>2. /\ jobs'[Run].status # "absent" /\ jobs[Run].attempt <= jobs'[Run].attempt
      /\ jobs'[Run].attempt \in Nat /\ counter' \in Nat
  BY <1>1 DEF Onward, StoreTypeOK, Ticket, StreamOK, StreamTypeOK
<1>3. alive' = alive /\ cont' = cont /\ sweep' = sweep /\ owed' = owed
  BY DEF LegQuiet
<1>4. /\ legs' \in SUBSET Leg
      /\ \A x \in legs' : LegInv(x)'
      /\ \A x, y \in legs' : x.attempt = y.attempt => x = y
      /\ legs' # {} => jobs'[Run].status # "absent"
  BY <1>2, <1>3, LegBecomes DEF GoesOn
<1>5. TypeOK'
  BY <1>3, <1>4 DEF TypeInv, TypeOK, StreamOK, StoreTypeOK
<1>6. QED
  BY <1>3, <1>4, <1>5 DEF TypeInv, StreamOK

\* It does when the leg has merely done what it had first to do.
LEMMA DoneKeepsTypes ==
  ASSUME TypeInv, NEW l \in legs, Done(l),
         Head(l.todo) = "start" => status' # "none",
         StoreTypeOK', Onward(Run), StreamOK', GoesOn, enrolled' \subseteq alive,
         row' \in Row, row.status \in Finished => row'.status \in Finished, LegQuiet
  PROVE  TypeInv'
<1>1. l \in Leg /\ LegInv(l) /\ WellOrdered(l)
  BY TypeFacts DEF TypeInv
<1>2. PICK m : m = [l EXCEPT !.todo = Tail(@)]
  OBVIOUS
<1>3. /\ m \in Leg /\ m.worker = l.worker /\ m.attempt = l.attempt
      /\ m.todo # <<>> =>
           /\ WellOrdered(m) /\ Successor(l, Head(l.todo), Head(m.todo))
           /\ Len(m.todo) = Len(l.todo) - 1
           /\ \A i \in 1 .. Len(m.todo) : m.todo[i] = l.todo[i + 1]
  BY <1>1, <1>2, DoneInOrder
<1>4. Becomes(l, m)
  BY <1>2 DEF Done
<1>5. ASSUME m.todo # <<>>
      PROVE  LegInv(m)'
  <2>1. m.worker \in alive'
    BY <1>1, <1>3 DEF LegInv, LegQuiet
  <2>2. m.attempt \in 1 .. jobs'[Run].attempt
    <3>1. jobs[Run].status # "absent" /\ jobs[Run].attempt \in Nat
          /\ jobs'[Run].attempt \in Nat /\ l.attempt \in Nat
      BY TypeFacts DEF TypeInv, StoreTypeOK, Ticket
    <3>2. QED
      BY <3>1, <1>1, <1>3 DEF LegInv, Onward
  <2>3. Head(m.todo) \notin {"append", "tell"}
    BY <1>3, <1>5 DEF Successor
  <2>4. Head(m.todo) \in {"exec", "enter"} => status' # "none"
    <3>1. Head(m.todo) \in {"exec", "enter"} =>
            Head(l.todo) \in {"start", "enter", "append"}
      BY <1>3, <1>5 DEF Successor
    <3>2. Head(l.todo) \in {"enter", "append"} => status # "none"
      BY <1>1 DEF LegInv, Executing
    <3>3. QED
      BY <3>1, <3>2 DEF GoesOn
  <2>5. (\E i \in 1 .. Len(m.todo) : m.todo[i] = "honor") => row'.status \in Finished
    <3>1. ASSUME NEW i \in 1 .. Len(m.todo), m.todo[i] = "honor"
          PROVE  row'.status \in Finished
      <4> Len(l.todo) \in Nat
        BY TypeFacts
      <4>1. i + 1 \in 1 .. Len(l.todo) /\ l.todo[i + 1] = "honor"
        BY <1>3, <1>5, <3>1
      <4>2. QED
        BY <4>1, <1>1 DEF LegInv
    <3>2. QED
      BY <3>1
  <2>6. QED
    BY <1>3, <1>5, <2>1, <2>2, <2>3, <2>4, <2>5 DEF LegInv, Executing
<1>6. QED
  BY <1>3, <1>4, <1>5, LegStepKeepsTypes

LEMMA StoreStays ==
  ASSUME TypeInv, UNCHANGED jobs
  PROVE  StoreTypeOK' /\ Onward(Run)
  BY TypeFacts DEF StoreTypeOK, Onward

LEMMA StreamStays ==
  ASSUME TypeInv, UNCHANGED stream
  PROVE  StreamOK' /\ GoesOn /\ enrolled' \subseteq alive
<1>1. /\ log' = log /\ head' = head /\ counter' = counter /\ status' = status
      /\ gen' = gen /\ enrolled' = enrolled /\ tails' = tails
  BY DEF stream, keys
<1>2. StreamOK /\ enrolled \subseteq alive /\ counter \in Nat
  BY TypeFacts
<1>3. QED
  BY <1>1, <1>2 DEF StreamOK, StreamTypeOK, Counted, GoesOn

\* The fenced write keeps the row's type, and the status of a finished row.
LEMMA PersistKeepsTypes ==
  ASSUME row \in Row, NEW attempt \in Nat, NEW floor \in Nat,
         NEW s \in {"pending", "running", "paused", "error", "completed", "cancelled"},
         Persist(attempt, s, floor)
  PROVE  row' \in Row /\ (row.status \in Finished => row'.status = row.status)
  BY DEF Persist, Refused, Row

LEMMA StoredNatural ==
  ASSUME NEW l, l.floor \in Nat, row.floor \in Nat
  PROVE  Stored(l) \in Nat
BY DEF Stored

\* A leg that the user's cancel meets before it has a slot.
Interrupted(l) ==
  [l EXCEPT !.todo = <<"settle", "persist", "terminate">>, !.result = "aborted"]

LEMMA InterruptedInOrder ==
  ASSUME NEW l \in Leg, "aborted" \in Endings, NEW m, m = Interrupted(l)
  PROVE  /\ m \in Leg /\ WellOrdered(m) /\ Head(m.todo) = "settle" /\ Len(m.todo) = 3
         /\ \A i \in 1 .. Len(m.todo) : m.todo[i] # "honor"
         /\ m.worker = l.worker /\ m.attempt = l.attempt /\ m.cont = l.cont
         /\ m.result = "aborted"
<1> DEFINE t == <<"settle", "persist", "terminate">>
<1>1. m.todo = t /\ m.worker = l.worker /\ m.attempt = l.attempt /\ m.cont = l.cont
      /\ m.result = "aborted"
  BY DEF Leg, Interrupted
<1>2. t \in Seq(Steps) /\ t \in Aborted
  BY DEF Steps, Aborted
<1>3. m \in Leg
  BY <1>2 DEF Leg, Interrupted, Results
<1>4. WellOrdered(m)
  BY <1>1, <1>2 DEF WellOrdered, Successor
<1>5. QED
  BY <1>1, <1>3, <1>4

\* A leg that has an index for an event.
Adding(l, m) ==
  /\ m \in Leg /\ WellOrdered(m) /\ m.todo # <<>> /\ Head(m.todo) = "append"
  /\ m.worker = l.worker /\ m.attempt = l.attempt /\ m.cont = l.cont
  /\ m.result = l.result /\ m.idx = counter /\ m.floor = counter + 1
  /\ ~Terminates(l) => ~Terminates(m)
  /\ (\E i \in 1 .. Len(m.todo) : m.todo[i] = "honor") =>
       \E i \in 1 .. Len(l.todo) : l.todo[i] = "honor"

Taking(l, rest) ==
  [l EXCEPT !.todo = <<"append">> \o rest, !.idx = counter, !.floor = counter + 1]

LEMMA AddedInOrder ==
  ASSUME NEW l \in Leg, WellOrdered(l), counter \in Nat, NEW rest,
         \/ Head(l.todo) = "exec" /\ rest = l.todo
         \/ Head(l.todo) = "tell" /\ rest = Tail(l.todo),
         NEW m, m = Taking(l, rest)
  PROVE  Adding(l, m)
<1>1. PICK n \in Nat : n = Len(l.todo) /\ n > 0
  BY DEF Leg, WellOrdered
<1>2. l.todo \in Seq(Steps) /\ Head(l.todo) = l.todo[1] /\ 1 \in 1 .. n
      /\ "append" \in Steps
  BY <1>1 DEF Leg, Steps
<1>3. /\ m.todo = <<"append">> \o rest /\ m.worker = l.worker
      /\ m.attempt = l.attempt /\ m.cont = l.cont /\ m.last = l.last
      /\ m.result = l.result /\ m.idx = counter /\ m.floor = counter + 1
  BY DEF Leg, Taking
<1>4. ASSUME m.todo \in Seq(Steps)
      PROVE  m \in Leg
  <2>1. counter + 1 \in Nat
    OBVIOUS
  <2>2. m = [l EXCEPT !.todo = m.todo, !.idx = counter, !.floor = counter + 1]
    BY <1>3 DEF Taking
  <2>3. QED
    BY <1>4, <2>1, <2>2 DEF Leg
<1>5. CASE Head(l.todo) = "exec" /\ rest = l.todo
  <2>1. n = 1
    <3>1. SUFFICES ASSUME n # 1 PROVE FALSE
      OBVIOUS
    <3>2. 1 < n
      <4>1. n # 1 /\ n > 0
        BY <1>1, <3>1
      <4>2. QED
        BY <4>1
    <3>3. Successor(l, l.todo[1], l.todo[1 + 1])
      BY <1>1, <1>2, <3>2 DEF WellOrdered
    <3>4. QED
      BY <1>2, <1>5, <3>3 DEF Successor
  <2>2. /\ m.todo \in Seq(Steps) /\ Len(m.todo) = 2 /\ m.todo[1] = "append"
        /\ m.todo[2] = "exec" /\ Head(m.todo) = "append" /\ m.todo # <<>>
    <3>1. /\ l.todo \in Seq(Steps) /\ Len(l.todo) = 1 /\ l.todo[1] = "exec"
          /\ m.todo = <<"append">> \o l.todo /\ "append" \in Steps
      BY <1>1, <1>2, <1>3, <1>5, <2>1
    <3>2. QED
      BY <3>1
  <2>3. l.result = "none"
    BY <1>1, <1>2, <1>5 DEF WellOrdered
  <2>4. WellOrdered(m)
    BY <1>3, <2>2, <2>3 DEF WellOrdered, Successor
  <2>5. QED
    BY <1>3, <1>4, <2>2, <2>4 DEF Adding, Terminates
<1>6. CASE Head(l.todo) = "tell" /\ rest = Tail(l.todo)
  <2>1. /\ m.todo \in Seq(Steps) /\ Len(m.todo) = n /\ m.todo[1] = "append"
        /\ Head(m.todo) = "append" /\ m.todo # <<>>
        /\ \A i \in 2 .. n : m.todo[i] = l.todo[i]
    <3>1. PICK s \in Seq(Steps) : s = l.todo /\ Len(s) = n /\ n > 0
      BY <1>1, <1>2
    <3>2. /\ Tail(s) \in Seq(Steps) /\ Len(Tail(s)) = n - 1
          /\ \A i \in 1 .. n - 1 : Tail(s)[i] = s[i + 1]
      BY <3>1
    <3>3. PICK r \in Seq(Steps) : r = Tail(s)
      BY <3>2
    <3>4. /\ <<"append">> \o r \in Seq(Steps) /\ Len(<<"append">> \o r) = 1 + Len(r)
          /\ (<<"append">> \o r)[1] = "append"
          /\ \A i \in 2 .. 1 + Len(r) : (<<"append">> \o r)[i] = r[i - 1]
      BY <1>2
    <3>5. m.todo = <<"append">> \o r
      BY <1>3, <1>6, <3>1, <3>3
    <3>6. Len(m.todo) = n /\ m.todo \in Seq(Steps) /\ m.todo[1] = "append"
      BY <3>1, <3>2, <3>3, <3>4, <3>5
    <3>7. \A i \in 2 .. n : i - 1 \in 1 .. n - 1 /\ (i - 1) + 1 = i /\ i \in 2 .. 1 + (n - 1)
      BY <3>1
    <3>8. \A i \in 2 .. n : m.todo[i] = l.todo[i]
      BY <3>1, <3>2, <3>3, <3>4, <3>5, <3>7
    <3>9. QED
      BY <3>1, <3>6, <3>8
  <2>2. l.result \notin {"none", "aborted"}
    <3>1. l.result # "none"
      BY <1>1, <1>2, <1>6 DEF WellOrdered
    <3>2. l.result = "aborted" => l.todo \in Aborted
      BY DEF WellOrdered
    <3>3. QED
      BY <3>1, <3>2, <1>6 DEF Aborted
  <2>3. ASSUME NEW i \in 1 .. n
        PROVE  /\ i < n => Successor(m, m.todo[i], m.todo[i + 1])
               /\ m.todo[i] = "settle" /\ i < n =>
                    i + 1 = n /\ m.todo[i + 1] \in {"honor", "terminate"}
               /\ m.todo[i] \in {"reopen", "enter"} => m.cont
               /\ m.todo[i] = "reset" => ~m.cont
               /\ m.todo[i] \notin {"stamp", "begin", "reset", "reopen", "start", "enter",
                                   "exec"}
    <3>1. /\ i < n => Successor(l, l.todo[i], l.todo[i + 1])
          /\ l.todo[i] = "settle" /\ i < n =>
               i + 1 = n /\ l.todo[i + 1] \in {"honor", "terminate"}
          /\ l.todo[i] \in {"reopen", "enter"} => l.cont
          /\ l.todo[i] = "reset" => ~l.cont
          /\ l.todo[i] \notin {"stamp", "begin", "reset", "reopen", "start", "enter",
                              "exec"}
      BY <1>1, <2>2 DEF WellOrdered
    <3>2. CASE i = 1
      BY <1>1, <1>2, <1>3, <1>6, <2>1, <2>2, <3>1, <3>2 DEF Successor
    <3>3. CASE i # 1
      <4>1. i \in 2 .. n /\ (i < n => i + 1 \in 2 .. n)
        BY <1>1, <3>3
      <4>2. m.todo[i] = l.todo[i] /\ (i < n => m.todo[i + 1] = l.todo[i + 1])
        BY <2>1, <4>1
      <4>3. QED
        BY <1>3, <3>1, <4>2 DEF Successor
    <3>4. QED
      BY <3>2, <3>3
  <2>4. WellOrdered(m)
    BY <1>1, <1>3, <2>1, <2>2, <2>3 DEF WellOrdered
  <2>5. ASSUME NEW i \in 1 .. n, NEW s, s # "append", m.todo[i] = s
        PROVE  \E k \in 1 .. n : l.todo[k] = s
    <3>1. i # 1
      BY <2>1, <2>5
    <3>2. i \in 2 .. n
      BY <1>1, <3>1
    <3>3. QED
      BY <2>1, <2>5, <3>2
  <2>6. m \in Leg
    BY <1>4, <2>1
  <2>7. Terminates(m) => Terminates(l)
    BY <1>1, <2>1, <2>5 DEF Terminates
  <2>8. (\E i \in 1 .. Len(m.todo) : m.todo[i] = "honor") =>
          \E i \in 1 .. Len(l.todo) : l.todo[i] = "honor"
    BY <1>1, <2>1, <2>5
  <2>9. QED
    BY <1>3, <2>1, <2>4, <2>6, <2>7, <2>8 DEF Adding
<1>7. QED
  BY <1>5, <1>6

\* Both of the steps that add an event.
LEMMA EventTaken ==
  ASSUME TypeInv, NEW l \in legs, Publish(l) \/ Tell(l)
  PROVE  /\ TakeIndex(l.worker, l.attempt) /\ UNCHANGED <<jobs, row, tails>> /\ LegQuiet
         /\ Head(l.todo) \in {"exec", "tell"}
         /\ Current(l.attempt) =>
              \E m \in Leg : Becomes(l, m) /\ Adding(l, m)
         /\ ~Current(l.attempt) => legs' = legs \/ (Head(l.todo) = "tell" /\ Done(l))
<1>1. l \in Leg /\ WellOrdered(l) /\ counter \in Nat
  BY TypeFacts
<1>2. l.todo # <<>>
  BY <1>1 DEF WellOrdered, Leg
<1>3. PICK rest : /\ \/ Head(l.todo) = "exec" /\ rest = l.todo
                     \/ Head(l.todo) = "tell" /\ rest = Tail(l.todo)
                  /\ AddEvent(l, rest)
  BY DEF Publish, Tell, On
<1>4. ASSUME Current(l.attempt)
      PROVE  \E m \in Leg : Becomes(l, m) /\ Adding(l, m)
  <2>1. PICK m : m = Taking(l, rest)
    OBVIOUS
  <2>2. Becomes(l, m)
    BY <1>3, <1>4, <2>1 DEF AddEvent, Taking
  <2>3. Adding(l, m)
    <3>1. CASE Head(l.todo) = "exec" /\ rest = l.todo
      BY <1>1, <2>1, <3>1, AddedInOrder
    <3>2. CASE Head(l.todo) = "tell" /\ rest = Tail(l.todo)
      BY <1>1, <2>1, <3>2, AddedInOrder
    <3>3. QED
      BY <1>3, <3>1, <3>2
  <2>4. QED
    BY <2>2, <2>3 DEF Adding
<1>5. ASSUME ~Current(l.attempt)
      PROVE  legs' = legs \/ (Head(l.todo) = "tell" /\ Done(l))
  <2>1. Becomes(l, [l EXCEPT !.todo = rest])
    BY <1>3, <1>5 DEF AddEvent
  <2>2. CASE Head(l.todo) = "exec" /\ rest = l.todo
    <3>1. [l EXCEPT !.todo = rest] = l
      BY <1>1, <2>2 DEF Leg
    <3>2. QED
      BY <2>1, <3>1, <1>2 DEF Becomes
  <2>3. CASE Head(l.todo) = "tell" /\ rest = Tail(l.todo)
    BY <2>1, <2>3 DEF Done
  <2>4. QED
    BY <1>3, <2>2, <2>3
<1>6. QED
  BY <1>3, <1>4, <1>5 DEF AddEvent

LEMMA StampKeepsTypes ==
  ASSUME TypeInv, NEW l \in legs, Stamp(l)
  PROVE  TypeInv'
<1>1. /\ Head(l.todo) = "stamp" /\ LegQuiet /\ row \in Row /\ l \in Leg
      /\ l.attempt \in Nat /\ row.floor \in Nat /\ LegInv(l)
  BY TypeFacts DEF Stamp, On, TypeInv, Row
<1>2. /\ StoreTypeOK' /\ Onward(Run)
      /\ StreamOK' /\ GoesOn /\ enrolled' \subseteq alive
  BY StoreStays, StreamStays DEF Stamp
<1>3. row' \in Row /\ (row.status \in Finished => row'.status = row.status)
  <2>1. CASE l.cont
    BY <1>1, <2>1 DEF Stamp, Row
  <2>2. CASE ~l.cont
    BY <1>1, <2>2, PersistKeepsTypes DEF Stamp
  <2>3. QED
    BY <2>1, <2>2
<1>4. CASE Done(l)
  BY <1>1, <1>2, <1>3, <1>4, DoneKeepsTypes
<1>5. CASE ~l.cont /\ row.attempt <= l.attempt /\ row.status \in Finished
  <2>1. PICK m : m = [l EXCEPT !.todo = <<"settle", "honor">>, !.result = "none"]
    OBVIOUS
  <2>2. Becomes(l, m)
    BY <1>5, <2>1 DEF Stamp
  <2>3. /\ m.todo = <<"settle", "honor">> /\ m.worker = l.worker
        /\ m.attempt = l.attempt /\ m \in Leg /\ m.result = "none"
    <3>1. <<"settle", "honor">> \in Seq(Steps) /\ "none" \in Results
      BY DEF Steps, Results
    <3>2. QED
      BY <1>1, <2>1, <3>1 DEF Leg
  <2>4. WellOrdered(m)
    BY <2>3 DEF WellOrdered, Successor
  <2>5. LegInv(m)'
    <3>1. /\ jobs[Run].status # "absent" /\ jobs[Run].attempt \in Nat
          /\ jobs'[Run].attempt \in Nat
      BY TypeFacts DEF TypeInv, Stamp
    <3>2. m.attempt \in 1 .. jobs'[Run].attempt
      BY <3>1, <1>1, <1>2, <2>3 DEF LegInv, Onward
    <3>3. m.worker \in alive'
      BY <1>1, <2>3 DEF LegInv, LegQuiet
    <3>4. Head(m.todo) = "settle" /\ row'.status \in Finished
      BY <2>3, <1>3, <1>5
    <3>5. QED
      BY <2>4, <3>2, <3>3, <3>4 DEF LegInv, Executing
  <2>6. QED
    BY <1>1, <1>2, <1>3, <2>2, <2>3, <2>5, LegStepKeepsTypes
<1>6. QED
  BY <1>4, <1>5 DEF Stamp

\* What the steps of a leg on its stream come to.
LEMMA StreamStepsKeepTypes ==
  ASSUME TypeInv, NEW l \in legs
  PROVE  /\ Honor(l) => TypeInv'
         /\ Begin(l) => TypeInv'
         /\ Reset(l) => TypeInv'
         /\ Reopen(l) => TypeInv'
         /\ Start(l) => TypeInv'
         /\ AppendTaken(l) => TypeInv'
         /\ Close(l) => TypeInv'
<1>1. /\ StreamOK /\ l \in Leg /\ LegInv(l) /\ l.attempt \in Nat /\ l.idx \in Nat
      /\ l.worker \in Process /\ l.worker \in alive /\ enrolled \subseteq alive
      /\ row \in Row /\ row.floor \in Nat
  BY TypeFacts DEF TypeInv, Row
<1>2. ASSUME UNCHANGED <<jobs, row>>, StreamOK', GoesOn, enrolled' \subseteq alive,
             Done(l), LegQuiet, Head(l.todo) = "start" => status' # "none"
      PROVE  TypeInv'
  BY <1>1, <1>2, StoreStays, DoneKeepsTypes
<1>3. Head(l.todo) = "honor" => row.status \in Finished
  BY <1>1, TypeFacts DEF LegInv
<1>4. ASSUME Honor(l) PROVE TypeInv'
  <2>1. /\ CompleteRun(l.worker, row.status, l.attempt) /\ row.status \in Ended
        /\ UNCHANGED tails /\ Head(l.todo) = "honor"
    BY <1>3, <1>4 DEF Honor, On, Finished, Ended
  <2>2. StreamOK' /\ GoesOn
    BY <1>1, <2>1, ProducersKeepTypes
  <2>3. enrolled' \subseteq alive
    BY <1>1, <2>1 DEF CompleteRun, Enrollment
  <2>4. QED
    BY <1>2, <1>4, <2>1, <2>2, <2>3 DEF Honor
<1>5. ASSUME Begin(l) PROVE TypeInv'
  <2>1. StreamOK' /\ GoesOn
    BY <1>1, <1>5, ProducersKeepTypes DEF Begin
  <2>2. QED
    BY <1>1, <1>2, <1>5, <2>1 DEF Begin, On
<1>6. ASSUME Reset(l) PROVE TypeInv'
  <2>1. StreamOK' /\ GoesOn
    BY <1>1, <1>6, ProducersKeepTypes DEF Reset
  <2>2. QED
    BY <1>1, <1>2, <1>6, <2>1 DEF Reset, On
<1>7. ASSUME Reopen(l) PROVE TypeInv'
  <2>1. PICK floor \in Nat : floor = IF counter = 0 THEN row.floor ELSE 0
    BY <1>1
  <2>2. StreamOK' /\ GoesOn
    BY <1>1, <1>7, <2>1, ProducersKeepTypes DEF Reopen
  <2>3. QED
    BY <1>1, <1>2, <1>7, <2>2 DEF Reopen, On
<1>8. ASSUME Start(l) PROVE TypeInv'
  <2>1. StreamOK' /\ GoesOn /\ status' # "none"
    BY <1>1, <1>8, ProducersKeepTypes DEF Start
  <2>2. enrolled' \subseteq alive
    BY <1>1, <1>8 DEF Start, StartRun
  <2>3. QED
    BY <1>2, <1>8, <2>1, <2>2 DEF Start
<1>9. ASSUME AppendTaken(l) PROVE TypeInv'
  <2>1. l.idx < counter /\ status # "none" /\ Head(l.todo) = "append"
    BY <1>1, <1>9 DEF AppendTaken, On, LegInv, Executing
  <2>2. StreamOK' /\ GoesOn
    BY <1>1, <1>9, <2>1, ProducersKeepTypes DEF AppendTaken
  <2>3. QED
    BY <1>1, <1>2, <1>9, <2>1, <2>2 DEF AppendTaken
<1>10. ASSUME Close(l) PROVE TypeInv'
  <2>1. Shown(l.result) \in Ended
    BY DEF Shown, Ended
  <2>2. StreamOK' /\ GoesOn
    BY <1>1, <1>10, <2>1, ProducersKeepTypes DEF Close
  <2>3. enrolled' \subseteq alive
    BY <1>1, <1>10 DEF Close, CompleteRun, Enrollment
  <2>4. QED
    BY <1>2, <1>10, <2>2, <2>3 DEF Close, On
<1>11. QED
  BY <1>4, <1>5, <1>6, <1>7, <1>8, <1>9, <1>10

LEMMA ExecutionKeepsTypes ==
  ASSUME TypeInv, NEW l \in legs
  PROVE  /\ Enter(l) => TypeInv'
         /\ Abort(l) => TypeInv'
         /\ Publish(l) \/ Tell(l) => TypeInv'
         /\ \A result \in Endings : Finish(l, result) => TypeInv'
         /\ PersistError(l) => TypeInv'
<1>1. /\ StreamOK /\ l \in Leg /\ LegInv(l) /\ l.attempt \in Nat /\ l.idx \in Nat
      /\ l.worker \in Process /\ l.worker \in alive /\ enrolled \subseteq alive
      /\ row \in Row /\ row.floor \in Nat /\ l.floor \in Nat /\ counter \in Nat
      /\ jobs[Run].status # "absent" /\ jobs[Run].attempt \in Nat
  BY TypeFacts DEF TypeInv, Row
<1>2. ASSUME NEW result \in Results \ {"none"}, NEW told \in Telling(result), LegQuiet,
             UNCHANGED <<jobs, stream>>,
             row' \in Row, row.status \in Finished => row'.status \in Finished,
             Head(l.todo) = "exec" \/ told = <<>>,
             Becomes(l, Through(l, result, told))
      PROVE  TypeInv'
  <2>1. PICK m : m = Through(l, result, told)
    OBVIOUS
  <2>2. /\ m \in Leg /\ WellOrdered(m)
        /\ Head(m.todo) \in {"tell", "close", "persist", "settle"}
        /\ \A i \in 1 .. Len(m.todo) : m.todo[i] # "honor"
        /\ m.worker = l.worker /\ m.attempt = l.attempt
    <3>1. l \in Leg /\ result \in Results \ {"none"}
      BY <1>1, <1>2
    <3>2. QED
      BY <2>1, <3>1, EndingInOrder
  <2>3. LegInv(m)'
    <3>1. Head(m.todo) = "tell" => status' # "none"
      <4>1. CASE Head(l.todo) = "exec"
        BY <1>1, <1>2, <4>1 DEF LegInv, Executing, stream, keys
      <4>2. CASE told = <<>>
        <5>1. "tell" \notin {"close", "persist", "settle"}
          OBVIOUS
        <5>2. Head(m.todo) \in {"close", "persist", "settle"}
          BY <1>1, <1>2, <2>1, <4>2, EndingHead
        <5>3. QED
          BY <5>2
      <4>3. QED
        BY <1>2, <4>1, <4>2
    <3>2. QED
      BY <1>1, <1>2, <2>2, <3>1 DEF LegInv, LegQuiet, Executing
  <2>4. Becomes(l, m)
    BY <1>2, <2>1
  <2>5. StoreTypeOK' /\ Onward(Run) /\ StreamOK' /\ GoesOn /\ enrolled' \subseteq alive
    BY <1>2, StoreStays, StreamStays
  <2>6. QED
    BY <1>2, <2>2, <2>3, <2>4, <2>5, LegStepKeepsTypes
<1>3. ASSUME Enter(l) PROVE TypeInv'
  <2>1. /\ Head(l.todo) = "enter" /\ LegQuiet /\ UNCHANGED <<jobs, stream, row>>
    BY <1>3 DEF Enter, On
  <2>2. CASE row.status = "cancelled"
    <3>1. Becomes(l, Through(l, "permanent", <<>>))
      BY <1>1, <1>3, <2>2, RefusedEntry
    <3>2. "permanent" \in Results \ {"none"} /\ <<>> \in Telling("permanent")
      BY DEF Results, Telling
    <3>3. QED
      BY <1>1, <1>2, <2>1, <3>1, <3>2
  <2>3. CASE row.status # "cancelled"
    BY <1>1, <1>3, <2>1, <2>3, StoreStays, StreamStays, DoneKeepsTypes DEF Enter
  <2>4. QED
    BY <2>2, <2>3
<1>4. ASSUME NEW result \in Endings, Finish(l, result) PROVE TypeInv'
  <2>1. LegQuiet /\ UNCHANGED <<jobs, stream>> /\ Head(l.todo) = "exec"
    BY <1>4 DEF Finish, On
  <2>2. PICK told \in Telling(result) : Becomes(l, Through(l, result, told))
    BY <1>1, <1>4, FinishedLeg
  <2>3. result \in Results \ {"none"}
    BY EndingsAssumption DEF Results, Returned
  <2>4. row' \in Row /\ (row.status \in Finished => row'.status \in Finished)
    <3>1. Stored(l) \in Nat
      BY <1>1, StoredNatural
    <3>2. CASE result \in Returned \ {"unseen"}
      <4>1. Persist(l.attempt, result, Stored(l))
        BY <1>4, <3>2 DEF Finish
      <4>2. result \in {"completed", "paused", "cancelled", "error"}
        BY <3>2 DEF Returned
      <4>3. QED
        BY <1>1, <3>1, <4>1, <4>2, PersistKeepsTypes
    <3>3. CASE result = "unseen"
      <4>1. Persist(l.attempt, "error", Stored(l))
        BY <1>4, <3>3 DEF Finish, Returned
      <4>2. QED
        BY <1>1, <3>1, <4>1, PersistKeepsTypes
    <3>4. CASE result \notin Returned
      BY <1>1, <1>4, <3>4 DEF Finish, Returned
    <3>5. QED
      BY <3>2, <3>3, <3>4
  <2>5. QED
    BY <1>2, <2>1, <2>2, <2>3, <2>4
<1>8. ASSUME Abort(l) PROVE TypeInv'
  <2>1. /\ LegQuiet /\ UNCHANGED <<jobs, stream>> /\ "aborted" \in Endings
        /\ row' = IF row.attempt > l.attempt THEN row ELSE [row EXCEPT !.attempt = l.attempt]
    BY <1>8 DEF Abort
  <2>2. PICK m : m = Interrupted(l)
    OBVIOUS
  <2>3. Becomes(l, m)
    BY <1>8, <2>2 DEF Abort, Interrupted
  <2>4. /\ m \in Leg /\ WellOrdered(m) /\ Head(m.todo) = "settle"
        /\ \A i \in 1 .. Len(m.todo) : m.todo[i] # "honor"
        /\ m.worker = l.worker /\ m.attempt = l.attempt
    BY <1>1, <2>1, <2>2, InterruptedInOrder
  <2>5. row' \in Row /\ row'.status = row.status
    BY <1>1, <2>1 DEF Row
  <2>6. LegInv(m)'
    BY <1>1, <2>1, <2>4 DEF LegInv, LegQuiet, Executing
  <2>7. StoreTypeOK' /\ Onward(Run) /\ StreamOK' /\ GoesOn /\ enrolled' \subseteq alive
    BY <2>1, StoreStays, StreamStays
  <2>8. QED
    BY <2>1, <2>3, <2>4, <2>5, <2>6, <2>7, LegStepKeepsTypes
<1>5. ASSUME PersistError(l) PROVE TypeInv'
  <2>1. row' \in Row /\ (row.status \in Finished => row'.status \in Finished)
    BY <1>1, <1>5, PersistKeepsTypes DEF PersistError
  <2>2. QED
    BY <1>1, <1>5, <2>1, StoreStays, StreamStays, DoneKeepsTypes DEF PersistError, On
<1>6. ASSUME Publish(l) \/ Tell(l) PROVE TypeInv'
  <2>1. /\ TakeIndex(l.worker, l.attempt) /\ UNCHANGED <<jobs, row, tails>> /\ LegQuiet
        /\ Head(l.todo) \in {"exec", "tell"} /\ status # "none"
    BY <1>1, <1>6, EventTaken DEF LegInv, Executing
  <2>2. StreamOK' /\ GoesOn
    BY <1>1, <2>1, ProducersKeepTypes
  <2>3. enrolled' \subseteq alive /\ status' = status
    BY <1>1, <2>1 DEF TakeIndex, keys
  <2>4. StoreTypeOK' /\ Onward(Run)
    BY <2>1, StoreStays
  <2>5. CASE Current(l.attempt)
    <3>1. PICK m \in Leg : Becomes(l, m) /\ Adding(l, m)
      BY <1>6, <2>5, EventTaken
    <3>2. counter' = counter + 1
      BY <2>1, <2>5 DEF TakeIndex
    <3>3. LegInv(m)'
      BY <1>1, <2>1, <2>3, <3>1, <3>2 DEF LegInv, LegQuiet, Executing, Adding
    <3>4. m.attempt = l.attempt
      BY <3>1 DEF Adding
    <3>5. QED
      BY <2>1, <2>2, <2>3, <2>4, <3>1, <3>3, <3>4, <1>1, LegStepKeepsTypes
  <2>6. CASE ~Current(l.attempt) /\ legs' = legs
    <3>1. legs' = legs /\ row' = row /\ jobs' = jobs /\ alive' = alive /\ sweep' = sweep
          /\ cont' = cont /\ owed' = owed
      BY <2>1, <2>6 DEF LegQuiet
    <3>2. \A x \in legs : LegInv(x)'
      <4>1. counter' \in Nat
        BY <2>2 DEF StreamOK, StreamTypeOK
      <4>2. QED
        BY <4>1, <3>1, <2>2, <1>1, TypeFacts, LegStays DEF TypeInv, GoesOn
    <3>3. TypeOK'
      BY <3>1, <2>2, <2>3, <2>4 DEF TypeInv, TypeOK, StreamOK, StoreTypeOK
    <3>4. QED
      BY <3>1, <3>2, <3>3, <2>2, <2>4 DEF TypeInv, StreamOK
  <2>7. CASE Head(l.todo) = "tell" /\ Done(l)
    BY <1>1, <2>1, <2>2, <2>3, <2>4, <2>7, DoneKeepsTypes
  <2>8. QED
    BY <1>6, <2>5, <2>6, <2>7, EventTaken
<1>7. QED
  BY <1>3, <1>4, <1>5, <1>6, <1>8

LEMMA SettleKeepsTypes ==
  ASSUME TypeInv, NEW l \in legs, Settle(l)
  PROVE  TypeInv'
<1>1. /\ StreamOK' /\ GoesOn /\ enrolled' \subseteq alive /\ row' = row /\ row \in Row
      /\ LegQuiet /\ Head(l.todo) = "settle" /\ l \in Leg /\ Run \in Job /\ StoreTypeOK
  BY TypeFacts, StreamStays DEF Settle, On
<1>2. StoreTypeOK' /\ Onward(Run)
  <2>1. ASSUME NEW w, NEW attempt, NEW s, CompleteJob(w, Run, attempt, s)
        PROVE  StoreTypeOK' /\ Onward(Run)
    BY <1>1, <2>1, MethodsKeepTypes, MethodsGoOnward
  <2>2. ASSUME NEW w, NEW attempt, RetryOrFailJob(w, Run, attempt, TRUE)
        PROVE  StoreTypeOK' /\ Onward(Run)
    BY <1>1, <2>2, MethodsKeepTypes, MethodsGoOnward
  <2>3. ASSUME UNCHANGED jobs
        PROVE  StoreTypeOK' /\ Onward(Run)
    BY <2>3, StoreStays
  <2>4. QED
    BY <2>1, <2>2, <2>3 DEF Settle
<1>3. CASE Done(l)
  BY <1>1, <1>2, <1>3, DoneKeepsTypes
<1>4. CASE Becomes(l, [l EXCEPT !.todo = <<>>])
  <2>1. PICK m : m = [l EXCEPT !.todo = <<>>]
    OBVIOUS
  <2>2. m \in Leg /\ m.attempt = l.attempt /\ m.todo = <<>>
    <3>1. <<>> \in Seq(Steps)
      OBVIOUS
    <3>2. QED
      BY <1>1, <2>1, <3>1 DEF Leg
  <2>3. Becomes(l, m)
    BY <1>4, <2>1
  <2>4. QED
    BY <1>1, <1>2, <2>2, <2>3, LegStepKeepsTypes
<1>5. QED
  BY <1>3, <1>4 DEF Settle

LEMMA ExecuteKeepsTypes ==
  ASSUME TypeInv, NEW l \in legs, Execute(l)
  PROVE  TypeInv'
  BY StampKeepsTypes, StreamStepsKeepTypes, ExecutionKeepsTypes, SettleKeepsTypes
  DEF Execute

\* A step that no leg takes: it may end some of them.
LEMMA OthersKeepTypes ==
  ASSUME TypeInv, StoreTypeOK', StreamOK', legs' \subseteq legs,
         legs' = {} \/ (GoesOn /\ Onward(Run)),
         \A l \in legs' : l.worker \in alive',
         row' \in Row, row.status \in Finished => row'.status \in Finished,
         cont' \in BOOLEAN, owed' \in SUBSET {"register", "cancel", "reopen"},
         alive' \in SUBSET Worker, enrolled' \subseteq alive',
         \/ sweep' = NoSweep
         \/ /\ sweep'.pc \in {"reconcile", "deface", "fail", "completed", "paused",
                              "cancelled", "failed"}
            /\ sweep' \in [pc : {"idle", "reconcile", "deface", "fail", "completed",
                                 "paused", "cancelled", "failed"},
                           worker : Worker \cup {Nobody}, attempt : Nat, refused : BOOLEAN]
            /\ sweep'.worker \in alive'
  PROVE  TypeInv'
<1>1. /\ \A l \in legs : l \in Leg /\ LegInv(l)
      /\ legs # {} => jobs[Run].status # "absent"
      /\ jobs'[Run].attempt \in Nat /\ counter' \in Nat
  BY TypeFacts DEF TypeInv, StoreTypeOK, Ticket, StreamOK, StreamTypeOK
<1>2. ASSUME NEW l \in legs'
      PROVE  LegInv(l)'
  <2>1. l \in legs /\ legs # {} /\ legs' # {}
    BY <1>2
  <2>2. /\ jobs[Run].attempt <= jobs'[Run].attempt /\ counter <= counter'
        /\ status # "none" => status' # "none"
    BY <1>1, <2>1 DEF Onward, GoesOn
  <2>3. QED
    BY <1>1, <2>1, <2>2, LegStays
<1>3. legs' # {} => jobs'[Run].status # "absent"
  BY <1>1 DEF Onward
<1>4. \A l, m \in legs' : l.attempt = m.attempt => l = m
  BY DEF TypeInv
<1>5. /\ sweep' \in [pc : {"idle", "reconcile", "deface", "fail", "completed", "paused",
                           "cancelled", "failed"},
                     worker : Worker \cup {Nobody}, attempt : Nat, refused : BOOLEAN]
      /\ sweep'.pc # "idle" => sweep'.worker \in alive'
      /\ sweep'.pc = "idle" => sweep' = NoSweep
  <2>1. CASE sweep' = NoSweep
    BY <2>1 DEF NoSweep
  <2>2. CASE sweep' # NoSweep
    BY <2>2
  <2>3. QED
    BY <2>1, <2>2
<1>6. TypeOK'
  BY <1>1, <1>5 DEF TypeOK, StreamOK, StoreTypeOK
<1>7. QED
  BY <1>2, <1>3, <1>4, <1>5, <1>6 DEF TypeInv, StreamOK

\* The steps of a leg that has just been claimed.
Route(attempt) ==
  <<"stamp", "begin">> \o (IF cont THEN <<"reopen", "start", "enter">>
                           ELSE IF attempt > 1 THEN <<"reset", "start">>
                           ELSE <<"start">>)
                       \o <<"exec">>

LEMMA ClaimedInOrder ==
  ASSUME TypeInv, NEW w \in Worker, Claim(w)
  PROVE  \E n \in Leg :
           /\ legs' = legs \cup {n}
           /\ n.worker = w /\ n.attempt = jobs[Run].attempt + 1 /\ n.cont = cont
           /\ n.result = "none" /\ n.floor = 0
           /\ WellOrdered(n) /\ Head(n.todo) = "stamp"
           /\ \A i \in 1 .. Len(n.todo) : n.todo[i] # "honor"
           /\ Len(n.todo) > 1
<1>1. jobs[Run].attempt \in Nat /\ cont \in BOOLEAN
  BY TypeFacts DEF TypeInv, TypeOK
<1>2. PICK attempt \in Nat : attempt = jobs[Run].attempt + 1
  BY <1>1
<1>3. PICK t : t = Route(attempt)
  OBVIOUS
<1>4. PICK n : n = [worker |-> w, attempt |-> attempt, cont |-> cont,
                    last |-> attempt >= jobs[Run].maxAttempts, todo |-> t,
                    result |-> "none", idx |-> 0, floor |-> 0]
  OBVIOUS
<1>5. legs' = legs \cup {n}
  BY <1>2, <1>3, <1>4 DEF Claim, Route
<1> DEFINE Leads(s) ==
      /\ s \in Seq(Steps) /\ Len(s) > 1 /\ s[1] = "stamp" /\ Head(s) = "stamp"
      /\ \A i \in 1 .. Len(s) :
           /\ i < Len(s) => Successor(n, s[i], s[i + 1])
           /\ s[i] \notin {"settle", "honor", "tell", "close", "persist", "terminate"}
           /\ s[i] \in {"reopen", "enter"} => n.cont
           /\ s[i] = "reset" => ~n.cont
<1>a. /\ n.todo = t /\ n.worker = w /\ n.attempt = attempt /\ n.cont = cont
      /\ n.result = "none" /\ n.floor = 0
  BY <1>4
<1>b. ASSUME Leads(t)
      PROVE  /\ n \in Leg /\ WellOrdered(n) /\ Head(n.todo) = "stamp"
             /\ \A i \in 1 .. Len(n.todo) : n.todo[i] # "honor"
             /\ Len(n.todo) > 1
  <2>1. t \in Seq(Steps) /\ Len(t) > 1 /\ Len(t) \in Nat
    BY <1>b
  <2>2. n \in Leg
    BY <1>1, <1>2, <1>4, <2>1 DEF Leg, Results
  <2>3. WellOrdered(n)
    BY <1>a, <1>b, <2>1 DEF WellOrdered
  <2>4. QED
    BY <1>a, <1>b, <2>2, <2>3
<1>6. CASE cont
  <2>1. t = <<"stamp", "begin">> \o <<"reopen", "start", "enter">> \o <<"exec">>
        /\ n.cont
    BY <1>3, <1>4, <1>6 DEF Route
  <2>2. Leads(t)
    BY <2>1 DEF Steps, Successor
  <2>3. QED
    BY <1>2, <1>5, <1>a, <1>b, <2>2
<1>7. CASE ~cont /\ attempt > 1
  <2>1. t = <<"stamp", "begin">> \o <<"reset", "start">> \o <<"exec">>
        /\ ~n.cont /\ n.attempt > 1
    BY <1>3, <1>4, <1>7 DEF Route
  <2>2. Leads(t)
    BY <2>1 DEF Steps, Successor
  <2>3. QED
    BY <1>2, <1>5, <1>a, <1>b, <2>2
<1>8. CASE ~cont /\ ~(attempt > 1)
  <2>1. t = <<"stamp", "begin">> \o <<"start">> \o <<"exec">>
        /\ ~n.cont /\ ~(n.attempt > 1)
    BY <1>3, <1>4, <1>8 DEF Route
  <2>2. Leads(t)
    BY <2>1 DEF Steps, Successor
  <2>3. QED
    BY <1>2, <1>5, <1>a, <1>b, <2>2
<1>9. QED
  BY <1>1, <1>6, <1>7, <1>8

LEMMA ClaimKeepsTypes ==
  ASSUME TypeInv, NEW w \in Worker, Claim(w)
  PROVE  TypeInv'
<1>1. /\ w \in alive /\ ClaimJob(w, Run) /\ UNCHANGED <<stream, row, cont, sweep, owed, alive>>
      /\ Run \in Job /\ jobs[Run].attempt \in Nat /\ jobs \in [Job -> Ticket]
  BY TypeFacts DEF Claim, StoreTypeOK
<1>2. StoreTypeOK' /\ Onward(Run)
  BY <1>1, TypeFacts, MethodsKeepTypes, MethodsGoOnward
<1>3. jobs'[Run].attempt = jobs[Run].attempt + 1 /\ jobs'[Run].status = "running"
  BY <1>1 DEF ClaimJob, Claimed, Ticket
<1>4. StreamOK' /\ GoesOn /\ enrolled' \subseteq alive
  BY <1>1, StreamStays
<1>5. PICK n \in Leg :
        /\ legs' = legs \cup {n}
        /\ n.worker = w /\ n.attempt = jobs[Run].attempt + 1
        /\ WellOrdered(n) /\ Head(n.todo) = "stamp"
        /\ \A i \in 1 .. Len(n.todo) : n.todo[i] # "honor"
  BY ClaimedInOrder
<1>6. LegInv(n)'
  BY <1>1, <1>3, <1>5 DEF LegInv, Executing
<1>7. \A l \in legs : l \in Leg /\ LegInv(l) /\ l.attempt \in 1 .. jobs[Run].attempt
  BY TypeFacts DEF TypeInv, LegInv
<1>8. \A l \in legs : LegInv(l)'
  <2>1. jobs[Run].attempt <= jobs'[Run].attempt /\ jobs'[Run].attempt \in Nat
        /\ counter' \in Nat /\ row' = row /\ alive' = alive
    BY <1>1, <1>3, <1>4 DEF StreamOK, StreamTypeOK
  <2>2. QED
    BY <1>4, <1>7, <2>1, LegStays DEF GoesOn, LegInv
<1>9. \A l, m \in legs' : l.attempt = m.attempt => l = m
  BY <1>1, <1>5, <1>7 DEF TypeInv
<1>10. TypeOK'
  BY <1>1, <1>2, <1>4, <1>5 DEF TypeInv, TypeOK, StreamOK, StoreTypeOK
<1>11. QED
  BY <1>1, <1>2, <1>3, <1>4, <1>5, <1>6, <1>8, <1>9, <1>10 DEF TypeInv, StreamOK

LEMMA DefacedSweep ==
  ASSUME TypeInv, Deface
  PROVE  /\ \/ sweep' = [sweep EXCEPT !.pc = "reconcile", !.refused = TRUE]
            \/ sweep' = [sweep EXCEPT !.pc = "fail"]
            \/ sweep' = [sweep EXCEPT !.pc = "failed"]
         /\ row.attempt <= sweep.attempt => sweep'.pc # "failed"
         /\ sweep'.worker = sweep.worker /\ sweep'.attempt = sweep.attempt
<1>1. /\ row.attempt \in Nat /\ sweep.attempt \in Nat
      /\ sweep \in [pc : {"idle", "reconcile", "deface", "fail", "completed", "paused",
                          "cancelled", "failed"},
                    worker : Worker \cup {Nobody}, attempt : Nat, refused : BOOLEAN]
  BY DEF TypeInv, TypeOK, Row
<1>2. CASE row.attempt > sweep.attempt
  BY <1>1, <1>2 DEF Deface
<1>3. CASE row.attempt <= sweep.attempt
  <2>1. ~(row.attempt > sweep.attempt)
    BY <1>1, <1>3
  <2>2. \/ sweep' = [sweep EXCEPT !.pc = "reconcile", !.refused = TRUE]
        \/ sweep' = [sweep EXCEPT !.pc = "fail"]
    BY <1>3, <2>1 DEF Deface
  <2>3. sweep'.pc # "failed"
    BY <1>1, <2>2
  <2>4. sweep'.worker = sweep.worker /\ sweep'.attempt = sweep.attempt
    BY <1>1, <2>2
  <2>5. QED
    BY <2>2, <2>3, <2>4
<1>4. QED
  BY <1>1, <1>2, <1>3

LEMMA SweepKeepsTypes ==
  ASSUME TypeInv
  PROVE  /\ \A w \in Worker : Acquire(w) => TypeInv'
         /\ Sweep => TypeInv'
<1> DEFINE Sweeping == [pc : {"idle", "reconcile", "deface", "fail", "completed", "paused",
                              "cancelled", "failed"},
                        worker : Worker \cup {Nobody}, attempt : Nat, refused : BOOLEAN]
<1>1. /\ StreamOK /\ StoreTypeOK /\ Run \in Job /\ Process = Worker /\ row \in Row
      /\ alive \in SUBSET Worker /\ enrolled \subseteq alive /\ jobs[Run].attempt \in Nat
      /\ sweep \in Sweeping /\ cont \in BOOLEAN
      /\ owed \in SUBSET {"register", "cancel", "reopen"} /\ row.floor \in Nat
  BY TypeFacts DEF TypeInv, TypeOK, Row
<1>2. ASSUME NEW w \in Worker, Acquire(w) PROVE TypeInv'
  <2>1. /\ w \in alive /\ AcquireSweep(w, Run) /\ UNCHANGED <<stream, row>> /\ SweepQuiet
        /\ sweep' = [pc |-> "reconcile", worker |-> w, attempt |-> jobs[Run].attempt,
                     refused |-> FALSE]
    BY <1>2 DEF Acquire, NoSweep
  <2>2. StoreTypeOK' /\ Onward(Run)
    BY <1>1, <2>1, MethodsKeepTypes, MethodsGoOnward
  <2>3. StreamOK' /\ GoesOn /\ enrolled' \subseteq alive
    BY <2>1, StreamStays
  <2>4. legs' = legs /\ cont' = cont /\ owed' = owed /\ alive' = alive /\ row' = row
    BY <2>1 DEF SweepQuiet
  <2>5. \A l \in legs' : l.worker \in alive'
    BY <2>4, TypeFacts
  <2>6. sweep' \in Sweeping /\ sweep'.pc = "reconcile" /\ sweep'.worker \in alive'
    BY <1>1, <2>1, <2>4
  <2>7. QED
    BY <1>1, <2>2, <2>3, <2>4, <2>5, <2>6, OthersKeepTypes
<1>3. ASSUME sweep.pc # "idle", SweepQuiet, StoreTypeOK', Onward(Run), StreamOK', GoesOn,
             enrolled' \subseteq alive, row' \in Row,
             row.status \in Finished => row'.status \in Finished,
             \/ sweep' = NoSweep
             \/ \E pc \in {"reconcile", "deface", "fail", "completed", "paused",
                           "cancelled", "failed"} : sweep' = [sweep EXCEPT !.pc = pc]
             \/ sweep' = [sweep EXCEPT !.pc = "reconcile", !.refused = TRUE]
      PROVE  TypeInv'
  <2>1. legs' = legs /\ cont' = cont /\ owed' = owed /\ alive' = alive
    BY <1>3 DEF SweepQuiet
  <2>2. \A l \in legs' : l.worker \in alive'
    BY <2>1, TypeFacts
  <2>3. \/ sweep' = NoSweep
        \/ /\ sweep'.pc \in {"reconcile", "deface", "fail", "completed", "paused",
                             "cancelled", "failed"}
           /\ sweep' \in Sweeping /\ sweep'.worker \in alive'
    BY <1>1, <1>3, <2>1 DEF TypeInv
  <2>4. QED
    BY <1>1, <1>3, <2>1, <2>2, <2>3, OthersKeepTypes
<1>4. ASSUME sweep.pc # "idle" PROVE sweep.worker \in Process /\ sweep.attempt \in Nat
  BY <1>1, <1>4 DEF TypeInv
<1>5. ASSUME NEW s \in Ended, sweep.pc # "idle", CompleteRun(sweep.worker, s, sweep.attempt),
             UNCHANGED tails
      PROVE  StreamOK' /\ GoesOn /\ enrolled' \subseteq alive
  <2>1. StreamOK' /\ GoesOn
    BY <1>1, <1>4, <1>5, ProducersKeepTypes
  <2>2. enrolled' \subseteq alive
    BY <1>1, <1>5 DEF CompleteRun, Enrollment, TypeInv
  <2>3. QED
    BY <2>1, <2>2
<1>6. ASSUME Reconcile PROVE TypeInv'
  <2>1. /\ sweep.pc = "reconcile" /\ UNCHANGED <<jobs, row, tails>> /\ SweepQuiet
    BY <1>6 DEF Reconcile
  <2>2. StoreTypeOK' /\ Onward(Run)
    BY <2>1, StoreStays
  <2>3. CASE row.status \in Finished \cup {"paused"}
    <3>1. row.status \in Ended /\ CompleteRun(sweep.worker, row.status, sweep.attempt)
          /\ sweep' = [sweep EXCEPT !.pc = row.status]
      BY <1>6, <2>3 DEF Reconcile, Finished, Ended
    <3>2. row.status \in {"completed", "paused", "cancelled"}
      BY <2>3 DEF Finished
    <3>3. QED
      BY <1>1, <1>3, <1>5, <2>1, <2>2, <3>1, <3>2
  <2>4. CASE row.status \notin Finished \cup {"paused"}
    <3>1. (sweep' = [sweep EXCEPT !.pc = "deface"] \/ sweep' = NoSweep) /\ UNCHANGED stream
      BY <1>6, <2>1, <2>4 DEF Reconcile, Unreconciled, stream
    <3>2. StreamOK' /\ GoesOn /\ enrolled' \subseteq alive
      BY <3>1, StreamStays
    <3>3. QED
      BY <1>1, <1>3, <2>1, <2>2, <3>1, <3>2
  <2>5. QED
    BY <2>3, <2>4
<1>7. ASSUME Deface PROVE TypeInv'
  <2>1. /\ sweep.pc = "deface" /\ UNCHANGED <<jobs, stream>> /\ SweepQuiet
        /\ Persist(sweep.attempt, "error", row.floor)
        /\ \/ sweep' = [sweep EXCEPT !.pc = "reconcile", !.refused = TRUE]
           \/ sweep' = [sweep EXCEPT !.pc = "fail"]
           \/ sweep' = [sweep EXCEPT !.pc = "failed"]
    BY <1>7, DefacedSweep DEF Deface
  <2>2. row' \in Row /\ (row.status \in Finished => row'.status \in Finished)
    BY <1>1, <1>4, <2>1, PersistKeepsTypes
  <2>3. QED
    BY <1>3, <2>1, <2>2, StoreStays, StreamStays
<1>8. ASSUME TerminateSwept PROVE TypeInv'
  <2>1. /\ sweep.pc = "fail" /\ UNCHANGED <<jobs, row, tails>> /\ SweepQuiet
        /\ CompleteRun(sweep.worker, "error", sweep.attempt) /\ "error" \in Ended
        /\ sweep' = [sweep EXCEPT !.pc = "failed"]
    BY <1>8 DEF TerminateSwept, Ended
  <2>2. QED
    BY <1>1, <1>3, <1>5, <2>1, StoreStays
<1>9. ASSUME SettleSwept PROVE TypeInv'
  <2>1. /\ sweep.pc # "idle" /\ UNCHANGED <<stream, row>> /\ SweepQuiet
        /\ sweep' = [sweep EXCEPT !.pc = "deface"] \/ sweep' = NoSweep
        /\ SettleSweptJob(sweep.worker, Run, sweep.pc) \/ UNCHANGED jobs
    BY <1>9 DEF SettleSwept, Unreconciled
  <2>2. StoreTypeOK' /\ Onward(Run)
    BY <1>1, <2>1, StoreStays, MethodsKeepTypes, MethodsGoOnward
  <2>3. QED
    BY <1>1, <1>3, <2>1, <2>2, StreamStays
<1>10. QED
  BY <1>2, <1>6, <1>7, <1>8, <1>9 DEF Sweep

LEMMA DoorsKeepTypes ==
  ASSUME TypeInv
  PROVE  /\ Enqueue \/ Cancel \/ Continue \/ Requeue => TypeInv'
         /\ \A door \in owed : Pay(door) \/ DoorDies(door) => TypeInv'
<1> DEFINE Sweeping == [pc : {"idle", "reconcile", "deface", "fail", "completed", "paused",
                              "cancelled", "failed"},
                        worker : Worker \cup {Nobody}, attempt : Nat, refused : BOOLEAN]
<1>1. /\ StreamOK /\ StoreTypeOK /\ Run \in Job /\ Process = Worker /\ row \in Row
      /\ alive \in SUBSET Worker /\ enrolled \subseteq alive /\ jobs[Run].attempt \in Nat
      /\ sweep \in Sweeping /\ cont \in BOOLEAN
      /\ owed \in SUBSET {"register", "cancel", "reopen"} /\ row.floor \in Nat
  BY TypeFacts DEF TypeInv, TypeOK, Row
<1>2. ASSUME DoorQuiet, StoreTypeOK', Onward(Run), StreamOK', GoesOn,
             enrolled' \subseteq alive, row' \in Row,
             row.status \in Finished => row'.status \in Finished,
             cont' \in BOOLEAN, owed' \in SUBSET {"register", "cancel", "reopen"}
      PROVE  TypeInv'
  <2>1. legs' = legs /\ sweep' = sweep /\ alive' = alive
    BY <1>2 DEF DoorQuiet
  <2>2. \A l \in legs' : l.worker \in alive'
    BY <2>1, TypeFacts
  <2>3. \/ sweep' = NoSweep
        \/ /\ sweep'.pc \in {"reconcile", "deface", "fail", "completed", "paused",
                             "cancelled", "failed"}
           /\ sweep' \in Sweeping /\ sweep'.worker \in alive'
    BY <1>1, <2>1 DEF TypeInv
  <2>4. QED
    BY <1>1, <1>2, <2>1, <2>2, <2>3, OthersKeepTypes
<1>3. ASSUME Enqueue PROVE TypeInv'
  <2>1. DoorQuiet /\ UNCHANGED <<stream, row, cont>> /\ owed' = owed \cup {"register"}
    BY <1>3 DEF Enqueue
  <2>2. StoreTypeOK' /\ Onward(Run)
    BY <1>1, <1>3, MethodsKeepTypes, MethodsGoOnward DEF Enqueue
  <2>3. QED
    BY <1>1, <1>2, <2>1, <2>2, StreamStays
<1>4. ASSUME Cancel PROVE TypeInv'
  <2>1. DoorQuiet /\ UNCHANGED <<stream, cont>> /\ owed' = owed \cup {"cancel"}
        /\ CancelJob(Run) /\ Persist(jobs[Run].attempt, "cancelled", row.floor)
    BY <1>4 DEF Cancel
  <2>2. StoreTypeOK' /\ Onward(Run)
    BY <1>1, <2>1, MethodsKeepTypes, MethodsGoOnward
  <2>3. row' \in Row /\ (row.status \in Finished => row'.status \in Finished)
    BY <1>1, <2>1, PersistKeepsTypes
  <2>4. QED
    BY <1>1, <1>2, <2>1, <2>2, <2>3, StreamStays
<1>5. ASSUME Continue PROVE TypeInv'
  <2>1. DoorQuiet /\ UNCHANGED <<stream, row>> /\ owed' = owed \cup {"reopen"}
        /\ ContinueJob(Run) /\ cont' = TRUE
    BY <1>5 DEF Continue
  <2>2. StoreTypeOK' /\ Onward(Run)
    BY <1>1, <2>1, MethodsKeepTypes, MethodsGoOnward
  <2>3. QED
    BY <1>1, <1>2, <2>1, <2>2, StreamStays
<1>6. ASSUME Requeue PROVE TypeInv'
  <2>1. DoorQuiet /\ UNCHANGED <<stream, row, cont, owed>> /\ RequeueJob(Run)
    BY <1>6 DEF Requeue
  <2>2. StoreTypeOK' /\ Onward(Run)
    BY <1>1, <2>1, MethodsKeepTypes, MethodsGoOnward
  <2>3. QED
    BY <1>1, <1>2, <2>1, <2>2, StreamStays
<1>7. ASSUME NEW door \in owed, Pay(door) PROVE TypeInv'
  <2>1. DoorQuiet /\ UNCHANGED <<jobs, row, cont, tails>> /\ owed' = owed \ {door}
    BY <1>7 DEF Pay
  <2>2. CASE door = "register"
    <3>1. RegisterRun /\ UNCHANGED <<log, head, counter, gen, enrolled>>
      BY <1>7, <2>2 DEF Pay
    <3>2. StreamOK' /\ GoesOn
      BY <1>1, <2>1, <3>1, ProducersKeepTypes
    <3>3. QED
      BY <1>1, <1>2, <2>1, <3>1, <3>2, StoreStays
  <2>3. CASE door = "reopen"
    <3>1. ReopenRun({"paused"}, 0) /\ UNCHANGED enrolled
      BY <1>7, <2>3 DEF Pay
    <3>2. StreamOK' /\ GoesOn
      BY <1>1, <2>1, <3>1, ProducersKeepTypes
    <3>3. QED
      BY <1>1, <1>2, <2>1, <3>1, <3>2, StoreStays
  <2>4. CASE door = "cancel"
    <3>1. PICK w \in alive : CompleteAnyway(w, "cancelled")
      BY <1>7, <2>4 DEF Pay
    <3>2. w \in Process /\ "cancelled" \in Ended
      BY <1>1 DEF Ended
    <3>3. StreamOK' /\ GoesOn
      BY <1>1, <2>1, <3>1, <3>2, ProducersKeepTypes
    <3>4. enrolled' \subseteq alive
      BY <1>1, <3>1 DEF CompleteAnyway, Enrollment
    <3>5. QED
      BY <1>1, <1>2, <2>1, <3>3, <3>4, StoreStays
  <2>5. QED
    BY <1>1, <2>2, <2>3, <2>4
<1>8. ASSUME NEW door \in owed, DoorDies(door) PROVE TypeInv'
  <2>1. DoorQuiet /\ UNCHANGED <<jobs, stream, row, cont>> /\ owed' = owed \ {door}
    BY <1>8 DEF DoorDies, DoorQuiet
  <2>2. QED
    BY <1>1, <1>2, <2>1, StoreStays, StreamStays
<1>9. QED
  BY <1>3, <1>4, <1>5, <1>6, <1>7, <1>8

LEMMA TimeKeepsTypes ==
  ASSUME TypeInv
  PROVE  /\ Lapse => TypeInv'
         /\ \A w \in Worker : Crash(w) => TypeInv'
         /\ "lateLeg" \notin Env /\ Expire => TypeInv'
         /\ \A w \in Worker : StopsRefreshing(w) /\ Unchanged => TypeInv'
         /\ \A c \in Client : (Attach(c) \/ TailStep(c)) /\ Unchanged => TypeInv'
         /\ UNCHANGED vars => TypeInv'
<1> DEFINE Sweeping == [pc : {"idle", "reconcile", "deface", "fail", "completed", "paused",
                              "cancelled", "failed"},
                        worker : Worker \cup {Nobody}, attempt : Nat, refused : BOOLEAN]
<1>1. /\ StreamOK /\ StoreTypeOK /\ Run \in Job /\ Process = Worker /\ row \in Row
      /\ alive \in SUBSET Worker /\ enrolled \subseteq alive
      /\ sweep \in Sweeping /\ cont \in BOOLEAN
      /\ owed \in SUBSET {"register", "cancel", "reopen"}
      /\ sweep.pc # "idle" => sweep.worker \in alive
      /\ sweep.pc = "idle" => sweep = NoSweep
      /\ \A l \in legs : l.worker \in alive
      /\ counter \in Nat
  BY TypeFacts DEF TypeInv, TypeOK
<1>2. ASSUME UNCHANGED <<row, cont, legs, sweep, owed, alive>>, StoreTypeOK', Onward(Run),
             StreamOK', GoesOn, enrolled' \subseteq alive
      PROVE  TypeInv'
  BY <1>1, <1>2, OthersKeepTypes
<1>3. ASSUME Lapse PROVE TypeInv'
  <2>1. LeaseLapses(Run) /\ UNCHANGED <<stream, row, cont, legs, sweep, owed, alive>>
    BY <1>3 DEF Lapse
  <2>2. StoreTypeOK' /\ Onward(Run)
    BY <1>1, <2>1, MethodsKeepTypes, MethodsGoOnward
  <2>3. QED
    BY <1>2, <2>1, <2>2, StreamStays
<1>4. ASSUME NEW w \in Worker, Crash(w) PROVE TypeInv'
  <2>1. /\ alive' = alive \ {w} /\ enrolled' = enrolled \ {w}
        /\ legs' = {l \in legs : l.worker # w}
        /\ sweep' = IF sweep.worker = w THEN NoSweep ELSE sweep
        /\ UNCHANGED <<jobs, keys, tails, row, cont, owed>>
    BY <1>4 DEF Crash
  <2>2. StreamOK' /\ GoesOn
    BY <1>1, <2>1 DEF StreamOK, StreamTypeOK, Counted, GoesOn, keys
  <2>3. sweep' = NoSweep \/ (sweep' = sweep /\ sweep'.worker \in alive' /\ sweep.pc # "idle")
    BY <1>1, <2>1
  <2>4. QED
    BY <1>1, <2>1, <2>2, <2>3, StoreStays, OthersKeepTypes
<1>5. ASSUME "lateLeg" \notin Env, Expire PROVE TypeInv'
  <2>1. /\ KeysExpire /\ legs = {} /\ sweep = NoSweep
        /\ UNCHANGED <<jobs, row, cont, legs, sweep, owed, alive>>
    BY <1>5 DEF Expire
  <2>2. /\ status' = "none" /\ counter' = 0 /\ gen' = 0 /\ head' = End /\ log' = <<>>
        /\ enrolled' = enrolled /\ tails' = tails
    BY <2>1 DEF KeysExpire
  <2>3. StreamOK'
    <3>1. End \in Nat /\ <<>> \in Seq(Entry) /\ Len(<<>>) = 0
      BY <1>1, KeptEntries
    <3>2. Counted'
      BY <2>2, <3>1 DEF Counted
    <3>3. QED
      BY <1>1, <2>2, <3>1, <3>2 DEF StreamOK, StreamTypeOK
  <2>4. QED
    BY <1>1, <2>1, <2>2, <2>3, StoreStays, OthersKeepTypes
<1>6. ASSUME NEW w \in Worker, StopsRefreshing(w), Unchanged PROVE TypeInv'
  <2>1. UNCHANGED <<keys, tails>> /\ enrolled' = enrolled \ {w}
    BY <1>6 DEF StopsRefreshing
  <2>2. StreamOK' /\ GoesOn
    BY <1>1, <2>1 DEF StreamOK, StreamTypeOK, Counted, GoesOn, keys
  <2>3. QED
    BY <1>1, <1>2, <1>6, <2>1, <2>2, StoreStays DEF Unchanged
<1>7. ASSUME NEW c \in Client, Attach(c) \/ TailStep(c), Unchanged PROVE TypeInv'
  <2>1. StreamOK' /\ UNCHANGED <<keys, enrolled>>
    BY <1>1, <1>7, TailsKeepTypes
  <2>2. GoesOn
    BY <1>1, <2>1 DEF GoesOn, keys
  <2>3. QED
    BY <1>1, <1>2, <1>7, <2>1, <2>2, StoreStays DEF Unchanged
<1>8. ASSUME UNCHANGED vars PROVE TypeInv'
  <2>1. UNCHANGED <<jobs, stream, row, cont, legs, sweep, owed, alive>>
    BY <1>8 DEF vars
  <2>2. QED
    BY <1>2, <2>1, StoreStays, StreamStays
<1>9. QED
  BY <1>3, <1>4, <1>5, <1>6, <1>7, <1>8

LEMMA InitTyped == Init => TypeInv
<1> SUFFICES ASSUME Init PROVE TypeInv
  OBVIOUS
<1>1. StoreTypeOK /\ StreamInit /\ alive = Worker /\ legs = {} /\ sweep = NoSweep
      /\ row = [status |-> "pending", attempt |-> 0, floor |-> 0] /\ owed = {}
      /\ cont = FALSE
  BY StoreInitTyped DEF Init
<1>2. StreamTypeOK /\ Counted /\ enrolled = {} /\ log = <<>>
  BY <1>1 DEF StreamInit, StreamTypeOK, Counted, Reader
<1>3. row \in Row /\ sweep.pc = "idle"
      /\ sweep \in [pc : {"idle", "reconcile", "deface", "fail", "completed", "paused",
                          "cancelled", "failed"},
                    worker : Worker \cup {Nobody}, attempt : Nat, refused : BOOLEAN]
  BY <1>1 DEF Row, NoSweep
<1>4. QED
  BY <1>1, <1>2, <1>3 DEF TypeInv, TypeOK, StoreTypeOK

LEMMA NextKeepsTypes ==
  ASSUME "lateLeg" \notin Env, TypeInv, [Next]_vars
  PROVE  TypeInv'
  BY ClaimKeepsTypes, SweepKeepsTypes, ExecuteKeepsTypes, ExecutionKeepsTypes,
     DoorsKeepTypes, TimeKeepsTypes DEF Next

\* Every variable keeps its type; the processes enrolled are live, and a run that is
\* not known has no entries, so long as the keys outlive the legs that write them.
THEOREM TypeCorrect ==
  ASSUME "lateLeg" \notin Env
  PROVE  Spec => []TypeOK
<1>1. TypeInv => TypeOK
  BY DEF TypeInv
<1>2. QED
  BY <1>1, InitTyped, NextKeepsTypes, PTL DEF Spec

-----------------------------------------------------------------------------
(* The order of the log *)

\* A write: the log loses everything, or gains e, of a generation that is not
\* behind; an event has an index past all others.
Writes(e) ==
  /\ gen <= gen'
  /\ \/ log' = log
     \/ log' = <<>>
     \/ /\ log' = Append(log, e)
        /\ e.gen = 0 \/ gen <= e.gen
        /\ e.gen <= gen'
        /\ e.kind = "event" =>
             /\ gen = e.gen
             /\ \A i \in 1 .. Len(log) : log[i].kind = "event" => log[i].idx < e.idx

Adds(e) == log' = Append(log, e)

LEMMA WritesKeepOrder ==
  ASSUME TypeInv, OrderInv, NEW e \in Entry, Writes(e), gen' \in Nat
  PROVE  /\ LogOrdered'
         /\ \A i \in 1 .. Len(log') : log'[i].gen <= gen'
         /\ \A l \in Leg : l.attempt <= gen /\ (gen > l.attempt \/ Fresh(l)) =>
              gen' > l.attempt \/ Fresh(l)'
         /\ \A l \in legs :
              (Adds(e) /\ e.kind = "event" => l.attempt # e.gen \/ Head(l.todo) # "append")
                => WriterInv(l)'
<1>1. log \in Seq(Entry) /\ Len(log) \in Nat /\ gen \in Nat
  BY TypeFacts
<1>2. \A i \in 1 .. Len(log) : log[i] \in Entry /\ log[i].gen \in Nat /\ log[i].idx \in Nat
                               /\ log[i].gen <= gen
  <2>1. \A i \in 1 .. Len(log) : log[i] \in Entry
    BY <1>1
  <2>2. \A x \in Entry : x.gen \in Nat /\ x.idx \in Nat
    BY DEF Entry
  <2>3. QED
    BY <2>1, <2>2 DEF OrderInv
<1>3. e.gen \in Nat /\ e.idx \in Nat /\ gen <= gen'
  BY DEF Entry, Writes
<1>4. CASE log' = log
  <2>1. LogOrdered' /\ \A i \in 1 .. Len(log') : log'[i].gen <= gen'
    BY <1>1, <1>2, <1>3, <1>4 DEF LogOrdered, OrderInv
  <2>2. ASSUME NEW l \in Leg
        PROVE  gen > l.attempt \/ Fresh(l) => gen' > l.attempt \/ Fresh(l)'
    BY <1>1, <1>3, <1>4 DEF Fresh, Leg
  <2>3. ASSUME NEW l \in legs
        PROVE  WriterInv(l)'
    <3>1. l \in Leg /\ l.attempt \in Nat /\ WriterInv(l) /\ l.idx \in Nat
      BY TypeFacts DEF OrderInv
    <3>2. Head(l.todo) \in Executing \cup {"reset", "reopen", "start", "enter"} =>
            l.attempt <= gen'
      BY <1>1, <1>3, <3>1 DEF WriterInv
    <3>3. ASSUME Head(l.todo) = "append", gen' = l.attempt
          PROVE  \A i \in 1 .. Len(log') : log'[i].kind = "event" => log'[i].idx < l.idx
      <4>1. gen = l.attempt
        BY <1>1, <1>3, <3>1, <3>3 DEF WriterInv, Executing
      <4>2. QED
        BY <1>4, <3>1, <3>3, <4>1 DEF WriterInv
    <3>4. Head(l.todo) \in Executing \cup {"start"} /\ ~l.cont =>
            gen' > l.attempt \/ Fresh(l)'
      BY <2>2, <3>1 DEF WriterInv
    <3>5. QED
      BY <3>2, <3>3, <3>4 DEF WriterInv
  <2>4. QED
    BY <2>1, <2>2, <2>3
<1>5. CASE log' = <<>>
  <2>1. Len(log') = 0 /\ 1 .. Len(log') = {}
    BY <1>5
  <2>2. LogOrdered' /\ \A i \in 1 .. Len(log') : log'[i].gen <= gen'
    BY <2>1 DEF LogOrdered
  <2>3. \A l : Fresh(l)'
    BY <2>1 DEF Fresh
  <2>4. ASSUME NEW l \in legs
        PROVE  WriterInv(l)'
    <3>1. l \in Leg /\ l.attempt \in Nat /\ WriterInv(l)
      BY TypeFacts DEF OrderInv
    <3>2. QED
      BY <1>1, <1>3, <2>1, <2>3, <3>1 DEF WriterInv
  <2>5. QED
    BY <2>2, <2>3, <2>4
<1>6. CASE /\ log' = Append(log, e)
           /\ e.gen = 0 \/ gen <= e.gen
           /\ e.gen <= gen'
           /\ e.kind = "event" =>
                /\ gen = e.gen
                /\ \A i \in 1 .. Len(log) : log[i].kind = "event" => log[i].idx < e.idx
  <2>1. /\ Len(log') = Len(log) + 1 /\ log'[Len(log) + 1] = e
        /\ \A i \in 1 .. Len(log) : log'[i] = log[i]
        /\ \A i \in 1 .. Len(log') : i \in 1 .. Len(log) \/ i = Len(log) + 1
    BY <1>1, <1>6, Appended
  <2>2. LogOrdered'
    <3>1. SUFFICES ASSUME NEW i \in 1 .. Len(log'), NEW k \in 1 .. Len(log'),
                          log'[i].kind = "event", log'[k].kind = "event", i < k
                   PROVE  log'[i].idx < log'[k].idx
      BY DEF LogOrdered
    <3>2. i \in 1 .. Len(log)
      BY <1>1, <2>1, <3>1
    <3>3. CASE k \in 1 .. Len(log)
      BY <2>1, <3>1, <3>2, <3>3 DEF LogOrdered, OrderInv
    <3>4. CASE k = Len(log) + 1
      BY <1>6, <2>1, <3>1, <3>2, <3>4
    <3>5. QED
      BY <2>1, <3>3, <3>4
  <2>3. \A i \in 1 .. Len(log') : log'[i].gen <= gen'
    <3>1. ASSUME NEW i \in 1 .. Len(log')
          PROVE  log'[i].gen <= gen'
      <4>1. CASE i \in 1 .. Len(log)
        BY <1>1, <1>2, <1>3, <2>1, <4>1
      <4>2. CASE i = Len(log) + 1
        BY <1>6, <2>1, <4>2
      <4>3. QED
        BY <2>1, <4>1, <4>2
    <3>2. QED
      BY <3>1
  <2>4. ASSUME NEW l \in Leg, l.attempt <= gen, gen > l.attempt \/ Fresh(l)
        PROVE  gen' > l.attempt \/ Fresh(l)'
    <3>1. l.attempt \in Nat
      BY DEF Leg
    <3>2. CASE gen > l.attempt
      BY <1>1, <1>3, <3>1, <3>2
    <3>3. CASE Fresh(l)
      <4>1. ASSUME NEW i \in 1 .. Len(log')
            PROVE  log'[i].gen = 0 \/ log'[i].gen >= l.attempt
        <5>1. CASE i \in 1 .. Len(log)
          BY <2>1, <3>3, <5>1 DEF Fresh
        <5>2. CASE i = Len(log) + 1
          BY <1>1, <1>3, <1>6, <2>1, <2>4, <3>1, <5>2
        <5>3. QED
          BY <2>1, <5>1, <5>2
      <4>2. QED
        BY <4>1 DEF Fresh
    <3>4. QED
      BY <2>4, <3>2, <3>3
  <2>5. ASSUME NEW l \in legs,
               e.kind = "event" => l.attempt # e.gen \/ Head(l.todo) # "append"
        PROVE  WriterInv(l)'
    <3>1. l \in Leg /\ l.attempt \in Nat /\ WriterInv(l) /\ l.idx \in Nat
      BY TypeFacts DEF OrderInv
    <3>2. Head(l.todo) \in Executing \cup {"reset", "reopen", "start", "enter"} =>
            l.attempt <= gen'
      BY <1>1, <1>3, <3>1 DEF WriterInv
    <3>3. Head(l.todo) \in Executing \cup {"start"} /\ ~l.cont =>
            gen' > l.attempt \/ Fresh(l)'
      BY <2>4, <3>1 DEF WriterInv
    <3>4. ASSUME Head(l.todo) = "append", gen' = l.attempt
          PROVE  \A i \in 1 .. Len(log') : log'[i].kind = "event" => log'[i].idx < l.idx
      <4>1. gen = l.attempt
        BY <1>1, <1>3, <3>1, <3>4 DEF WriterInv, Executing
      <4>2. \A i \in 1 .. Len(log) : log[i].kind = "event" => log[i].idx < l.idx
        BY <3>1, <3>4, <4>1 DEF WriterInv
      <4>3. e.kind # "event"
        BY <1>6, <2>5, <3>4, <4>1
      <4>4. QED
        BY <2>1, <4>2, <4>3
    <3>5. QED
      BY <3>2, <3>3, <3>4 DEF WriterInv
  <2>6. QED
    BY <1>6, <2>2, <2>3, <2>4, <2>5 DEF Adds
<1>7. QED
  BY <1>4, <1>5, <1>6 DEF Writes

\* A leg does what it had first to do: it writes on under the same promises, if
\* begin_attempt has made its attempt known and the reset has cleared the log.
LEMMA DoneKeepsWriter ==
  ASSUME TypeInv, OrderInv, NEW e \in Entry, Writes(e), gen' \in Nat,
         NEW l \in legs, NEW m, m = [l EXCEPT !.todo = Tail(@)], m.todo # <<>>,
         Head(l.todo) = "begin" => l.attempt <= gen',
         Head(l.todo) = "reset" => gen' > l.attempt \/ log' = <<>>
  PROVE  WriterInv(m)'
<1>1. /\ l \in Leg /\ WellOrdered(l) /\ WriterInv(l) /\ l.attempt \in Nat /\ gen \in Nat
      /\ Head(l.todo) = l.todo[1] /\ 1 \in 1 .. Len(l.todo)
  BY TypeFacts DEF OrderInv
<1>2. /\ m \in Leg /\ m.attempt = l.attempt /\ m.cont = l.cont
      /\ Successor(l, Head(l.todo), Head(m.todo))
  BY <1>1, DoneInOrder
<1>3. /\ Head(l.todo) \in {"reopen", "enter"} => l.cont
      /\ Head(l.todo) = "reset" => ~l.cont
  BY <1>1 DEF WellOrdered
<1>4. gen <= gen'
  BY DEF Writes
<1>5. Head(m.todo) \notin {"append", "tell"}
  BY <1>2, Predecessors
<1>6. Head(m.todo) \in Executing \cup {"reset", "reopen", "start", "enter"} =>
        Head(l.todo) \in {"begin", "reopen", "reset", "start", "enter", "append"}
  BY <1>2 DEF Successor, Executing
<1>7. Head(m.todo) \in Executing \cup {"reset", "reopen", "start", "enter"} =>
        l.attempt <= gen'
  <2>1. Head(l.todo) \in {"reopen", "reset", "start", "enter", "append"} => l.attempt <= gen
    BY <1>1 DEF WriterInv, Executing
  <2>2. QED
    BY <1>1, <1>4, <1>6, <2>1
<1>8. ASSUME Head(m.todo) \in Executing \cup {"start"}, ~l.cont
      PROVE  gen' > l.attempt \/ Fresh(l)'
  <2>1. \/ Head(l.todo) = "begin" /\ ~(l.attempt > 1)
        \/ Head(l.todo) = "reset"
        \/ Head(l.todo) \in {"start", "append"}
    <3>1. Head(m.todo) \in {"exec", "start"}
      BY <1>5, <1>8 DEF Executing
    <3>2. QED
      BY <1>2, <1>3, <1>8, <3>1, Predecessors
  <2>2. CASE Head(l.todo) = "begin" /\ ~(l.attempt > 1)
    <3>1. log' \in Seq(Entry) \/ log' = <<>>
      <4>1. log \in Seq(Entry)
        BY TypeFacts
      <4>2. Append(log, e) \in Seq(Entry)
        BY <4>1, Appended
      <4>3. QED
        BY <4>1, <4>2 DEF Writes
    <3>2. \A i \in 1 .. Len(log') : log'[i] \in Entry
      BY <3>1
    <3>3. \A x \in Entry : x.gen \in Nat
      BY DEF Entry
    <3>4. QED
      BY <1>1, <2>2, <3>2, <3>3 DEF Fresh
  <2>3. CASE Head(l.todo) = "reset"
    <3>1. log' = <<>> => Fresh(l)'
      BY DEF Fresh
    <3>2. QED
      BY <2>3, <3>1
  <2>4. CASE Head(l.todo) \in {"start", "append"}
    <3>1. l.attempt <= gen /\ (gen > l.attempt \/ Fresh(l))
      BY <1>1, <1>8, <2>4 DEF WriterInv, Executing
    <3>2. QED
      BY <1>1, <3>1, WritesKeepOrder
  <2>5. QED
    BY <2>1, <2>2, <2>3, <2>4
<1>9. Fresh(m)' <=> Fresh(l)'
  BY <1>2 DEF Fresh
<1>10. QED
  BY <1>2, <1>5, <1>7, <1>8, <1>9 DEF WriterInv

\* A leg writes: the others keep their promises, since no two legs have the same
\* attempt.
LEMMA LegKeepsOrder ==
  ASSUME TypeInv, OrderInv, NEW e \in Entry, Writes(e), gen' \in Nat,
         NEW l \in legs, NEW m, Becomes(l, m),
         m.todo # <<>> => WriterInv(m)',
         Adds(e) /\ e.kind = "event" => e.gen = l.attempt
  PROVE  OrderInv'
<1>1. ASSUME NEW x \in legs'
      PROVE  WriterInv(x)'
  <2>1. CASE x = m /\ m.todo # <<>>
    BY <2>1
  <2>2. CASE x \in legs /\ x # l
    <3>1. x.attempt # l.attempt
      BY <2>2 DEF TypeInv
    <3>2. QED
      BY <2>2, <3>1, WritesKeepOrder
  <2>3. QED
    BY <2>1, <2>2 DEF Becomes
<1>2. LogOrdered' /\ \A i \in 1 .. Len(log') : log'[i].gen <= gen'
  BY WritesKeepOrder
<1>3. QED
  BY <1>1, <1>2 DEF OrderInv

\* Nobody's events are added, and legs may end.
LEMMA OthersKeepOrder ==
  ASSUME TypeInv, OrderInv, NEW e \in Entry, Writes(e), gen' \in Nat,
         legs' \subseteq legs, Adds(e) => e.kind # "event"
  PROVE  OrderInv'
<1>1. LogOrdered' /\ \A i \in 1 .. Len(log') : log'[i].gen <= gen'
  BY WritesKeepOrder
<1>2. ASSUME NEW x \in legs'
      PROVE  WriterInv(x)'
  <2>1. x \in legs
    BY <1>2
  <2>2. QED
    BY <2>1, WritesKeepOrder
<1>3. QED
  BY <1>1, <1>2 DEF OrderInv

WritesNoEvent == gen' \in Nat /\ \E e \in Entry : e.kind # "event" /\ Writes(e)

\* Every operation of the producers but the append of an event is such a write.
LEMMA ProducersWrite ==
  ASSUME TypeInv, OrderInv
  PROVE  /\ UNCHANGED <<log, gen>> => WritesNoEvent
         /\ \A g \in Nat : BeginAttempt(g) => WritesNoEvent /\ g <= gen'
         /\ \A g \in Nat : g <= gen /\ ResetRunEvents(g) =>
              WritesNoEvent /\ (gen' > g \/ log' = <<>>)
         /\ \A p \in Process, g \in Nat : StartRun(p, g) => WritesNoEvent
         /\ \A p \in Process, g \in Nat : TakeIndex(p, g) => WritesNoEvent /\ log' = log
         /\ \A p \in Process, s \in Ended, g \in Nat :
              CompleteRun(p, s, g) => WritesNoEvent
         /\ \A p \in Process, s \in Ended : CompleteAnyway(p, s) => WritesNoEvent
         /\ \A reopenable : \A floor \in Nat :
              ReopenRun(reopenable, floor) => WritesNoEvent
<1>1. gen \in Nat /\ log \in Seq(Entry) /\ counter \in Nat
  BY TypeFacts
<1>2. PICK r \in Entry : r = [kind |-> "reopen", idx |-> 0, gen |-> 0]
  BY DEF Entry
<1>3. r.kind # "event" /\ r.gen = 0
  BY <1>2
<1>4. ASSUME gen' \in Nat, gen <= gen', log' = log \/ log' = <<>>
      PROVE  WritesNoEvent
  BY <1>2, <1>3, <1>4 DEF WritesNoEvent, Writes
<1>5. UNCHANGED <<log, gen>> => WritesNoEvent
  BY <1>1, <1>4
<1>6. ASSUME NEW g \in Nat, BeginAttempt(g)
      PROVE  WritesNoEvent /\ g <= gen'
  BY <1>1, <1>4, <1>6 DEF BeginAttempt
<1>7. ASSUME NEW g \in Nat, g <= gen, ResetRunEvents(g)
      PROVE  WritesNoEvent /\ (gen' > g \/ log' = <<>>)
  BY <1>1, <1>4, <1>7 DEF ResetRunEvents, Current, keys
<1>8. \A p \in Process, g \in Nat : StartRun(p, g) => WritesNoEvent
  BY <1>1, <1>4 DEF StartRun, Current
<1>9. \A p \in Process, g \in Nat : TakeIndex(p, g) => WritesNoEvent /\ log' = log
  BY <1>1, <1>4 DEF TakeIndex, Current, keys
<1>10. ASSUME NEW kind \in {"terminal", "reopen"}, NEW g \in Nat, Put(kind, 0, g),
              g = 0 \/ gen <= g, g <= gen', gen <= gen', gen' \in Nat
       PROVE  WritesNoEvent
  <2>1. PICK e : e = [kind |-> kind, idx |-> 0, gen |-> g]
    OBVIOUS
  <2>2. e \in Entry /\ e.kind # "event" /\ e.gen = g /\ log' = Append(log, e)
    BY <1>10, <2>1 DEF Put, Entry
  <2>3. QED
    BY <1>10, <2>2 DEF WritesNoEvent, Writes
<1>11. ASSUME NEW p \in Process, NEW s \in Ended, NEW g \in Nat, CompleteRun(p, s, g)
       PROVE  WritesNoEvent
  <2>1. CASE Current(g)
    <3>1. Put("terminal", 0, g) /\ gen' = g /\ gen <= g
      BY <1>11, <2>1 DEF CompleteRun, Terminate, Current
    <3>2. QED
      BY <1>10, <3>1
  <2>2. CASE ~Current(g)
    BY <1>5, <1>11, <2>2 DEF CompleteRun, keys
  <2>3. QED
    BY <2>1, <2>2
<1>12. \A p \in Process, s \in Ended : CompleteAnyway(p, s) => WritesNoEvent
  BY <1>1, <1>10 DEF CompleteAnyway, Terminate
<1>13. \A reopenable : \A floor \in Nat : ReopenRun(reopenable, floor) => WritesNoEvent
  BY <1>1, <1>5, <1>10 DEF ReopenRun, keys
<1>14. QED
  BY <1>5, <1>6, <1>7, <1>8, <1>9, <1>11, <1>12, <1>13

LEMMA DoneKeepsOrder ==
  ASSUME TypeInv, OrderInv, WritesNoEvent, NEW l \in legs, Done(l),
         Head(l.todo) = "begin" => l.attempt <= gen',
         Head(l.todo) = "reset" => gen' > l.attempt \/ log' = <<>>
  PROVE  OrderInv'
<1>1. PICK e \in Entry : e.kind # "event" /\ Writes(e) /\ gen' \in Nat
  BY DEF WritesNoEvent
<1>2. PICK m : m = [l EXCEPT !.todo = Tail(@)]
  OBVIOUS
<1>3. Becomes(l, m)
  BY <1>2 DEF Done
<1>4. m.todo # <<>> => WriterInv(m)'
  BY <1>1, <1>2, DoneKeepsWriter
<1>5. QED
  BY <1>1, <1>3, <1>4, LegKeepsOrder

\* A leg that turns to its ending, or to its ticket, promises nothing more than that
\* its last event is in order.
LEMMA EndingKeepsOrder ==
  ASSUME TypeInv, OrderInv, UNCHANGED stream, NEW l \in legs, NEW m, Becomes(l, m),
         \/ m.todo # <<>> =>
              Head(m.todo) \notin Executing \cup {"reset", "reopen", "start", "enter"}
         \/ /\ Head(l.todo) = "exec" /\ Head(m.todo) # "append"
            /\ m.attempt = l.attempt /\ m.cont = l.cont
  PROVE  OrderInv'
<1>1. WritesNoEvent
  BY ProducersWrite DEF stream, keys
<1>2. PICK e \in Entry : e.kind # "event" /\ Writes(e) /\ gen' \in Nat
  BY <1>1 DEF WritesNoEvent
<1>3. m.todo # <<>> => WriterInv(m)'
  <2>1. CASE /\ Head(l.todo) = "exec" /\ Head(m.todo) # "append"
             /\ m.attempt = l.attempt /\ m.cont = l.cont
    <3>1. WriterInv(l) /\ log' = log /\ gen' = gen
      BY DEF OrderInv, stream, keys
    <3>2. l.attempt <= gen /\ (~l.cont => gen > l.attempt \/ Fresh(l))
      BY <2>1, <3>1 DEF WriterInv, Executing
    <3>3. Fresh(m)' <=> Fresh(l)
      BY <2>1, <3>1 DEF Fresh
    <3>4. QED
      BY <2>1, <3>1, <3>2, <3>3 DEF WriterInv
  <2>2. QED
    BY <2>1 DEF WriterInv, Executing
<1>4. QED
  BY <1>2, <1>3, LegKeepsOrder

LEMMA QuietStepsKeepOrder ==
  ASSUME TypeInv, OrderInv, NEW l \in legs
  PROVE  /\ Stamp(l) => OrderInv'
         /\ Abort(l) => OrderInv'
         /\ Enter(l) => OrderInv'
         /\ \A result \in Endings : Finish(l, result) => OrderInv'
         /\ PersistError(l) => OrderInv'
         /\ Settle(l) => OrderInv'
<1>1. l \in Leg /\ Run \in Job
  BY TypeFacts
<1>2. UNCHANGED stream => WritesNoEvent
  BY ProducersWrite DEF stream, keys
<1>3. ASSUME Done(l), UNCHANGED stream, Head(l.todo) \notin {"begin", "reset"}
      PROVE  OrderInv'
  BY <1>2, <1>3, DoneKeepsOrder
<1>4. ASSUME Stamp(l) PROVE OrderInv'
  <2>1. UNCHANGED stream /\ Head(l.todo) = "stamp"
    BY <1>4 DEF Stamp, On
  <2>2. CASE Becomes(l, [l EXCEPT !.todo = <<"settle", "honor">>, !.result = "none"])
    <3>1. PICK m : m = [l EXCEPT !.todo = <<"settle", "honor">>, !.result = "none"]
      OBVIOUS
    <3>2. Head(m.todo) = "settle"
      BY <1>1, <3>1 DEF Leg
    <3>3. Becomes(l, m)
      BY <2>2, <3>1
    <3>4. QED
      BY <2>1, <3>2, <3>3, EndingKeepsOrder DEF Executing
  <2>3. QED
    BY <1>3, <1>4, <2>1, <2>2 DEF Stamp
<1>5. ASSUME NEW result \in Results \ {"none"}, NEW told \in Telling(result),
             UNCHANGED stream, told = <<>> \/ Head(l.todo) = "exec",
             Becomes(l, Through(l, result, told))
      PROVE  OrderInv'
  <2>1. PICK m : m = Through(l, result, told)
    OBVIOUS
  <2>2. Head(m.todo) \in {"tell", "close", "persist", "settle"} /\ m.attempt = l.attempt
        /\ m.cont = l.cont
    BY <1>1, <2>1, EndingInOrder
  <2>3. told = <<>> => Head(m.todo) \in {"close", "persist", "settle"}
    BY <1>1, <2>1, EndingHead
  <2>4. Becomes(l, m)
    BY <1>5, <2>1
  <2>5. QED
    BY <1>5, <2>2, <2>3, <2>4, EndingKeepsOrder DEF Executing
<1>a. ASSUME Abort(l) PROVE OrderInv'
  <2>1. UNCHANGED stream /\ "aborted" \in Endings
    BY <1>a DEF Abort
  <2>2. PICK m : m = Interrupted(l)
    OBVIOUS
  <2>3. Becomes(l, m)
    BY <1>a, <2>2 DEF Abort, Interrupted
  <2>4. Head(m.todo) = "settle"
    BY <1>1, <2>1, <2>2, InterruptedInOrder
  <2>5. QED
    BY <2>1, <2>3, <2>4, EndingKeepsOrder DEF Executing
<1>6. ASSUME Enter(l) PROVE OrderInv'
  <2>1. UNCHANGED stream /\ Head(l.todo) = "enter"
    BY <1>6 DEF Enter, On
  <2>2. CASE row.status = "cancelled"
    <3>1. Becomes(l, Through(l, "permanent", <<>>))
      BY <1>1, <1>6, <2>2, RefusedEntry
    <3>2. "permanent" \in Results \ {"none"} /\ <<>> \in Telling("permanent")
      BY DEF Results, Telling
    <3>3. QED
      BY <1>5, <2>1, <3>1, <3>2
  <2>3. QED
    BY <1>3, <1>6, <2>1, <2>2 DEF Enter
<1>7. ASSUME NEW result \in Endings, Finish(l, result) PROVE OrderInv'
  <2>1. UNCHANGED stream /\ result \in Results \ {"none"} /\ Head(l.todo) = "exec"
    BY <1>7, EndingsAssumption DEF Finish, Results, Returned, On
  <2>2. PICK told \in Telling(result) : Becomes(l, Through(l, result, told))
    BY <1>1, <1>7, FinishedLeg
  <2>3. QED
    BY <1>5, <2>1, <2>2
<1>8. PersistError(l) => OrderInv'
  BY <1>3 DEF PersistError, On
<1>9. ASSUME Settle(l) PROVE OrderInv'
  <2>1. UNCHANGED stream /\ Head(l.todo) = "settle"
    BY <1>9 DEF Settle, On
  <2>2. CASE Becomes(l, [l EXCEPT !.todo = <<>>])
    <3>1. PICK m : m = [l EXCEPT !.todo = <<>>]
      OBVIOUS
    <3>2. m.todo = <<>>
      BY <1>1, <3>1 DEF Leg
    <3>3. Becomes(l, m)
      BY <2>2, <3>1
    <3>4. QED
      BY <2>1, <3>2, <3>3, EndingKeepsOrder
  <2>3. QED
    BY <1>3, <1>9, <2>1, <2>2 DEF Settle
<1>10. QED
  BY <1>4, <1>a, <1>6, <1>7, <1>8, <1>9

LEMMA StreamStepsKeepOrder ==
  ASSUME TypeInv, OrderInv, NEW l \in legs
  PROVE  /\ Honor(l) => OrderInv'
         /\ Begin(l) => OrderInv'
         /\ Reset(l) => OrderInv'
         /\ Reopen(l) => OrderInv'
         /\ Start(l) => OrderInv'
         /\ Close(l) => OrderInv'
<1>1. /\ l \in Leg /\ LegInv(l) /\ WriterInv(l) /\ l.attempt \in Nat
      /\ l.worker \in Process /\ row.floor \in Nat
      /\ Head(l.todo) = l.todo[1] /\ 1 \in 1 .. Len(l.todo)
  BY TypeFacts DEF TypeInv, OrderInv, Row
<1>2. ASSUME Done(l), WritesNoEvent, Head(l.todo) \notin {"begin", "reset"}
      PROVE  OrderInv'
  BY <1>2, DoneKeepsOrder
<1>3. ASSUME Honor(l) PROVE OrderInv'
  <2>1. Head(l.todo) = "honor" /\ Done(l) /\ CompleteRun(l.worker, row.status, l.attempt)
    BY <1>3 DEF Honor, On
  <2>2. row.status \in Ended
    BY <1>1, <2>1 DEF LegInv, Finished, Ended
  <2>3. QED
    BY <1>1, <1>2, <2>1, <2>2, ProducersWrite
<1>4. ASSUME Begin(l) PROVE OrderInv'
  <2>1. Head(l.todo) = "begin" /\ Done(l) /\ BeginAttempt(l.attempt)
    BY <1>4 DEF Begin, On
  <2>2. WritesNoEvent /\ l.attempt <= gen'
    BY <1>1, <2>1, ProducersWrite
  <2>3. QED
    BY <2>1, <2>2, DoneKeepsOrder
<1>5. ASSUME Reset(l) PROVE OrderInv'
  <2>1. Head(l.todo) = "reset" /\ Done(l) /\ ResetRunEvents(l.attempt)
    BY <1>5 DEF Reset, On
  <2>2. l.attempt <= gen
    BY <1>1, <2>1 DEF WriterInv
  <2>3. WritesNoEvent /\ (gen' > l.attempt \/ log' = <<>>)
    BY <1>1, <2>1, <2>2, ProducersWrite
  <2>4. QED
    BY <2>1, <2>3, DoneKeepsOrder
<1>6. ASSUME Reopen(l) PROVE OrderInv'
  <2>1. PICK floor \in Nat : floor = IF counter = 0 THEN row.floor ELSE 0
    BY <1>1
  <2>2. Head(l.todo) = "reopen" /\ Done(l) /\ ReopenRun({"paused", "error"}, floor)
    BY <1>6, <2>1 DEF Reopen, On
  <2>3. WritesNoEvent
    BY <2>2, ProducersWrite
  <2>4. QED
    BY <1>2, <2>2, <2>3
<1>7. ASSUME Start(l) PROVE OrderInv'
  <2>1. Head(l.todo) = "start" /\ Done(l) /\ StartRun(l.worker, l.attempt)
    BY <1>7 DEF Start, On
  <2>2. QED
    BY <1>1, <1>2, <2>1, ProducersWrite
<1>8. ASSUME Close(l) PROVE OrderInv'
  <2>1. Head(l.todo) \in {"close", "terminate"} /\ Done(l)
        /\ CompleteRun(l.worker, Shown(l.result), l.attempt) /\ Shown(l.result) \in Ended
    BY <1>8 DEF Close, On, Shown, Ended
  <2>2. QED
    BY <1>1, <1>2, <2>1, ProducersWrite
<1>9. QED
  BY <1>3, <1>4, <1>5, <1>6, <1>7, <1>8

\* add_event: the index is past all others when it is taken, and still is when the
\* event is appended, for the fence lets nobody in between but an attempt that is
\* newer, and then refuses it.
LEMMA EventsKeepOrder ==
  ASSUME TypeInv, OrderInv, NEW l \in legs
  PROVE  /\ Publish(l) \/ Tell(l) => OrderInv'
         /\ AppendTaken(l) => OrderInv'
<1>1. /\ l \in Leg /\ WriterInv(l) /\ l.attempt \in Nat /\ l.idx \in Nat
      /\ l.worker \in Process /\ gen \in Nat /\ counter \in Nat
      /\ log \in Seq(Entry) /\ Counted
  BY TypeFacts DEF OrderInv, TypeInv
<1>2. ASSUME Publish(l) \/ Tell(l) PROVE OrderInv'
  <2>1. Head(l.todo) \in {"exec", "tell"} /\ TakeIndex(l.worker, l.attempt)
    BY <1>2, EventTaken
  <2>2. PICK e \in Entry : e.kind # "event" /\ Writes(e) /\ gen' \in Nat /\ log' = log
    BY <1>1, <2>1, ProducersWrite DEF WritesNoEvent
  <2>3. CASE ~Current(l.attempt)
    <3>1. CASE legs' = legs
      BY <2>2, <3>1, OthersKeepOrder
    <3>2. CASE Done(l)
      <4>1. WritesNoEvent
        BY <1>1, <2>1, ProducersWrite
      <4>2. QED
        BY <2>1, <3>2, <4>1, DoneKeepsOrder
    <3>3. QED
      BY <1>2, <2>3, <3>1, <3>2, EventTaken
  <2>4. CASE Current(l.attempt)
    <3>1. PICK m \in Leg : Becomes(l, m) /\ Adding(l, m)
      BY <1>2, <2>4, EventTaken
    <3>2. Becomes(l, m)
      BY <3>1
    <3>3. /\ m.attempt = l.attempt /\ m.cont = l.cont /\ m.idx = counter
          /\ Head(m.todo) = "append"
      BY <3>1 DEF Adding
    <3>4. gen = l.attempt /\ gen' = l.attempt
      BY <1>1, <2>1, <2>4 DEF WriterInv, Executing, Current, TakeIndex
    <3>5. ~l.cont => Fresh(l)
      BY <1>1, <2>1, <3>4 DEF WriterInv, Executing
    <3>6. ~m.cont => Fresh(m)'
      BY <2>2, <3>3, <3>5 DEF Fresh
    <3>7. \A i \in 1 .. Len(log') : log'[i].kind = "event" => log'[i].idx < m.idx
      BY <1>1, <2>2, <3>3 DEF Counted
    <3>8. WriterInv(m)'
      BY <1>1, <3>3, <3>4, <3>6, <3>7 DEF WriterInv
    <3>9. QED
      BY <2>2, <3>2, <3>8, LegKeepsOrder
  <2>5. QED
    BY <2>3, <2>4
<1>3. ASSUME AppendTaken(l) PROVE OrderInv'
  <2>1. Head(l.todo) = "append" /\ AppendEvent(l.attempt, l.idx) /\ Done(l)
    BY <1>3 DEF AppendTaken, On
  <2>2. PICK e \in Entry : e = [kind |-> "event", idx |-> l.idx, gen |-> l.attempt]
    BY <1>1 DEF Entry
  <2>3. e.gen = l.attempt /\ e.idx = l.idx /\ gen' = gen
    BY <2>1, <2>2 DEF AppendEvent
  <2>4. Writes(e)
    <3>1. CASE Current(l.attempt)
      <4>1. log' = Append(log, e) /\ gen = l.attempt
        BY <1>1, <2>1, <2>2, <3>1 DEF AppendEvent, Put, Current, WriterInv, Executing
      <4>2. \A i \in 1 .. Len(log) : log[i].kind = "event" => log[i].idx < e.idx
        BY <1>1, <2>1, <2>3, <4>1 DEF WriterInv
      <4>3. QED
        BY <1>1, <2>3, <4>1, <4>2 DEF Writes
    <3>2. CASE ~Current(l.attempt)
      BY <1>1, <2>1, <2>3, <3>2 DEF AppendEvent, Writes
    <3>3. QED
      BY <3>1, <3>2
  <2>5. PICK m : m = [l EXCEPT !.todo = Tail(@)]
    OBVIOUS
  <2>6. Becomes(l, m)
    BY <2>1, <2>5 DEF Done
  <2>7. gen' \in Nat
    BY <1>1, <2>3
  <2>8. m.todo # <<>> => WriterInv(m)'
    BY <2>1, <2>4, <2>5, <2>7, DoneKeepsWriter
  <2>9. QED
    BY <2>3, <2>4, <2>6, <2>7, <2>8, LegKeepsOrder
<1>4. QED
  BY <1>2, <1>3

LEMMA ExecuteKeepsOrder ==
  ASSUME TypeInv, OrderInv, NEW l \in legs, Execute(l) \/ Publish(l)
  PROVE  OrderInv'
  BY QuietStepsKeepOrder, StreamStepsKeepOrder, EventsKeepOrder DEF Execute

LEMMA ClaimKeepsOrder ==
  ASSUME TypeInv, OrderInv, NEW w \in Worker, Claim(w)
  PROVE  OrderInv'
<1>1. UNCHANGED stream
  BY DEF Claim
<1>2. WritesNoEvent
  BY <1>1, ProducersWrite DEF stream, keys
<1>3. PICK e \in Entry : e.kind # "event" /\ Writes(e) /\ gen' \in Nat
  BY <1>2 DEF WritesNoEvent
<1>4. LogOrdered' /\ (\A i \in 1 .. Len(log') : log'[i].gen <= gen')
      /\ \A l \in legs : WriterInv(l)'
  BY <1>3, WritesKeepOrder
<1>5. PICK n \in Leg : legs' = legs \cup {n} /\ Head(n.todo) = "stamp"
  BY ClaimedInOrder
<1>6. WriterInv(n)'
  BY <1>5 DEF WriterInv, Executing
<1>7. QED
  BY <1>4, <1>5, <1>6 DEF OrderInv

LEMMA WriteKeepsOrder ==
  ASSUME TypeInv, OrderInv, WritesNoEvent, legs' \subseteq legs
  PROVE  OrderInv'
<1>1. PICK e \in Entry : e.kind # "event" /\ Writes(e) /\ gen' \in Nat
  BY DEF WritesNoEvent
<1>2. QED
  BY <1>1, OthersKeepOrder

LEMMA SweepKeepsOrder ==
  ASSUME TypeInv, OrderInv, Sweep
  PROVE  OrderInv'
<1>1. legs' = legs /\ Process = Worker /\ alive \in SUBSET Worker
  BY TypeFacts DEF Sweep, Reconcile, Deface, TerminateSwept, SettleSwept, SweepQuiet
<1>2. sweep.attempt \in Nat /\ (sweep.pc # "idle" => sweep.worker \in Process)
  BY <1>1 DEF TypeInv, TypeOK
<1>3. CASE Reconcile
  <2>1. CASE row.status \in Finished \cup {"paused"}
    <3>1. /\ sweep.pc # "idle" /\ row.status \in Ended
          /\ CompleteRun(sweep.worker, row.status, sweep.attempt)
      BY <1>3, <2>1 DEF Reconcile, Finished, Ended
    <3>2. QED
      BY <1>1, <1>2, <3>1, ProducersWrite, WriteKeepsOrder
  <2>2. CASE row.status \notin Finished \cup {"paused"}
    BY <1>1, <1>3, <2>2, ProducersWrite, WriteKeepsOrder DEF Reconcile, keys
  <2>3. QED
    BY <2>1, <2>2
<1>4. CASE TerminateSwept
  <2>1. /\ sweep.pc # "idle" /\ "error" \in Ended
        /\ CompleteRun(sweep.worker, "error", sweep.attempt)
    BY <1>4 DEF TerminateSwept, Ended
  <2>2. QED
    BY <1>1, <1>2, <2>1, ProducersWrite, WriteKeepsOrder
<1>5. CASE Deface \/ SettleSwept
  BY <1>1, <1>5, ProducersWrite, WriteKeepsOrder DEF Deface, SettleSwept, stream, keys
<1>6. QED
  BY <1>3, <1>4, <1>5 DEF Sweep

LEMMA DoorsKeepOrder ==
  ASSUME TypeInv, OrderInv
  PROVE  /\ \A w \in Worker : Acquire(w) => OrderInv'
         /\ Enqueue \/ Cancel \/ Continue \/ Requeue => OrderInv'
         /\ \A door \in owed : Pay(door) \/ DoorDies(door) => OrderInv'
<1>1. /\ owed \in SUBSET {"register", "cancel", "reopen"} /\ alive \in SUBSET Worker
      /\ Process = Worker
  BY TypeFacts DEF TypeInv, TypeOK
<1>2. legs' = legs /\ UNCHANGED stream => OrderInv'
  BY ProducersWrite, WriteKeepsOrder DEF stream, keys
<1>3. \A w \in Worker : Acquire(w) => OrderInv'
  BY <1>2 DEF Acquire, SweepQuiet
<1>4. Enqueue \/ Cancel \/ Continue \/ Requeue => OrderInv'
  BY <1>2 DEF Enqueue, Cancel, Continue, Requeue, DoorQuiet
<1>5. \A door \in owed : DoorDies(door) => OrderInv'
  BY <1>2 DEF DoorDies
<1>6. ASSUME NEW door \in owed, Pay(door) PROVE OrderInv'
  <2>1. legs' = legs
    BY <1>6 DEF Pay, DoorQuiet
  <2>2. CASE door = "register"
    BY <1>6, <2>1, <2>2, ProducersWrite, WriteKeepsOrder DEF Pay
  <2>3. CASE door = "reopen"
    <3>1. ReopenRun({"paused"}, 0)
      BY <1>6, <2>3 DEF Pay
    <3>2. QED
      BY <2>1, <3>1, ProducersWrite, WriteKeepsOrder
  <2>4. CASE door = "cancel"
    <3>1. PICK w \in alive : CompleteAnyway(w, "cancelled")
      BY <1>6, <2>4 DEF Pay
    <3>2. w \in Process /\ "cancelled" \in Ended
      BY <1>1 DEF Ended
    <3>3. QED
      BY <2>1, <3>1, <3>2, ProducersWrite, WriteKeepsOrder
  <2>5. QED
    BY <1>1, <2>2, <2>3, <2>4
<1>7. QED
  BY <1>3, <1>4, <1>5, <1>6

LEMMA TimeKeepsOrder ==
  ASSUME TypeInv, OrderInv
  PROVE  /\ Lapse => OrderInv'
         /\ \A w \in Worker : Crash(w) => OrderInv'
         /\ "lateLeg" \notin Env /\ Expire => OrderInv'
         /\ \A w \in Worker : StopsRefreshing(w) /\ Unchanged => OrderInv'
         /\ \A c \in Client : (Attach(c) \/ TailStep(c)) /\ Unchanged => OrderInv'
         /\ UNCHANGED vars => OrderInv'
<1>1. StreamOK
  BY TypeFacts
<1>2. legs' \subseteq legs /\ UNCHANGED keys => OrderInv'
  BY ProducersWrite, WriteKeepsOrder DEF keys
<1>3. Lapse => OrderInv'
  BY <1>2 DEF Lapse, stream
<1>4. \A w \in Worker : Crash(w) => OrderInv'
  BY <1>2 DEF Crash
<1>5. ASSUME "lateLeg" \notin Env, Expire PROVE OrderInv'
  <2>1. legs' = {} /\ log' = <<>>
    BY <1>5 DEF Expire, KeysExpire
  <2>2. Len(log') = 0 /\ 1 .. Len(log') = {}
    BY <2>1
  <2>3. QED
    BY <2>1, <2>2 DEF OrderInv, LogOrdered
<1>6. \A w \in Worker : StopsRefreshing(w) /\ Unchanged => OrderInv'
  BY <1>2 DEF StopsRefreshing, Unchanged
<1>7. \A c \in Client : (Attach(c) \/ TailStep(c)) /\ Unchanged => OrderInv'
  BY <1>1, <1>2, TailsKeepTypes DEF Unchanged
<1>8. UNCHANGED vars => OrderInv'
  BY <1>2 DEF vars, stream
<1>9. QED
  BY <1>3, <1>4, <1>5, <1>6, <1>7, <1>8

LEMMA InitOrdered == Init => OrderInv
  BY DEF Init, StreamInit, OrderInv, LogOrdered

LEMMA NextKeepsOrder ==
  ASSUME "lateLeg" \notin Env, TypeInv, OrderInv, [Next]_vars
  PROVE  OrderInv'
  BY ClaimKeepsOrder, SweepKeepsOrder, ExecuteKeepsOrder, DoorsKeepOrder, TimeKeepsOrder
  DEF Next

\* The order of the entries is that of their positions.
LEMMA OrderOfPositions ==
  ASSUME StreamOK, LogOrdered
  PROVE  StreamOrdered
<1>1. head \in Nat
  BY DEF StreamOK, StreamTypeOK
<1>2. \A i \in Kept : i \in Nat /\ i - head \in 1 .. Len(log) /\ At(i) = log[i - head]
  BY KeptEntries
<1>3. ASSUME NEW i \in Kept, NEW k \in Kept, IsEvent(i), IsEvent(k), i < k
      PROVE  At(i).idx < At(k).idx
  <2>1. PICK a \in 1 .. Len(log), b \in 1 .. Len(log) : a = i - head /\ b = k - head
    BY <1>2
  <2>2. a < b
    BY <1>1, <1>2, <1>3, <2>1
  <2>3. log[a].kind = "event" /\ log[b].kind = "event"
    BY <1>2, <1>3, <2>1 DEF IsEvent
  <2>4. log[a].idx < log[b].idx
    BY <2>2, <2>3 DEF LogOrdered
  <2>5. QED
    BY <1>2, <2>1, <2>4
<1>4. QED
  BY <1>3 DEF StreamOrdered

\* The indices of a stream only increase: across retries, continuations, counters
\* that were lost and writers that were given up for dead.
THEOREM IndicesIncrease ==
  ASSUME "lateLeg" \notin Env
  PROVE  Spec => []StreamOrdered
<1>1. TypeInv /\ OrderInv => StreamOrdered
  BY OrderOfPositions, TypeFacts DEF OrderInv
<1>2. TypeInv /\ OrderInv /\ [Next]_vars => TypeInv' /\ OrderInv'
  BY NextKeepsTypes, NextKeepsOrder
<1>3. QED
  BY <1>1, <1>2, InitTyped, InitOrdered, PTL DEF Spec

-----------------------------------------------------------------------------
(* The lease *)

\* The honoring of a row is the last step, and what follows the ticket write is all
\* that is left of a leg.
LEMMA Goings ==
  ASSUME TypeInv, NEW l \in legs
  PROVE  /\ Head(l.todo) = "honor" => Trailing(l)
         /\ \A m : m = [l EXCEPT !.todo = Tail(@)] /\ m.todo # <<>> =>
              /\ Trailing(l) => Trailing(m) /\ Head(l.todo) = "persist"
                               /\ l.result = "aborted" /\ Head(m.todo) = "terminate"
              /\ m \in Leg /\ m.worker = l.worker
              /\ m.attempt = l.attempt /\ m.cont = l.cont /\ m.result = l.result
              /\ Successor(l, Head(l.todo), Head(m.todo))
              /\ Head(l.todo) = "settle" => Trailing(m)
              /\ Terminates(m) => Terminates(l)
         /\ Head(l.todo) = "terminate" => Terminates(l)
<1>1. /\ l \in Leg /\ WellOrdered(l) /\ Len(l.todo) \in Nat /\ Len(l.todo) > 0
      /\ Head(l.todo) = l.todo[1] /\ 1 \in 1 .. Len(l.todo)
  BY TypeFacts DEF WellOrdered
<1>2. ASSUME Head(l.todo) = "honor"
      PROVE  Trailing(l)
  <2>1. ~(1 < Len(l.todo))
    <3>1. 1 < Len(l.todo) => Successor(l, l.todo[1], l.todo[1 + 1])
      BY <1>1 DEF WellOrdered
    <3>2. QED
      BY <3>1, <1>1, <1>2 DEF Successor
  <2>2. PICK n \in Nat : n = Len(l.todo) /\ n > 0
    BY <1>1
  <2>3. ~(1 < n) /\ n > 0
    BY <2>1, <2>2
  <2>4. n = 1
    BY <2>3
  <2>5. QED
    BY <1>2, <2>2, <2>4 DEF Trailing
<1>3. ASSUME NEW m, m = [l EXCEPT !.todo = Tail(@)], m.todo # <<>>
      PROVE  /\ Trailing(l) => Trailing(m) /\ Head(l.todo) = "persist"
                              /\ l.result = "aborted" /\ Head(m.todo) = "terminate"
             /\ m \in Leg /\ m.worker = l.worker
             /\ m.attempt = l.attempt /\ m.cont = l.cont /\ m.result = l.result
             /\ Successor(l, Head(l.todo), Head(m.todo))
             /\ Head(l.todo) = "settle" => Trailing(m)
             /\ Terminates(m) => Terminates(l)
  <2>1. /\ m \in Leg /\ m.worker = l.worker /\ m.attempt = l.attempt /\ m.cont = l.cont
        /\ m.result = l.result /\ Successor(l, Head(l.todo), Head(m.todo))
        /\ Len(l.todo) > 1 /\ Len(m.todo) = Len(l.todo) - 1 /\ Head(m.todo) = l.todo[2]
        /\ \A i \in 1 .. Len(m.todo) : m.todo[i] = l.todo[i + 1]
    BY <1>1, <1>3, DoneInOrder
  <2>a. m.todo = Tail(l.todo) /\ (l.result = "aborted" => l.todo \in Aborted)
    BY <1>1, <1>3 DEF WellOrdered, Leg
  <2>2. ASSUME Trailing(l)
        PROVE  Trailing(m) /\ Head(l.todo) = "persist" /\ l.result = "aborted"
               /\ Head(m.todo) = "terminate"
    <3>1. l.result = "aborted" /\ Head(l.todo) = "persist"
      BY <1>1, <2>1, <2>2 DEF Trailing
    <3>2. l.todo = <<"persist", "terminate">>
      BY <2>a, <3>1 DEF Aborted
    <3>3. m.todo = <<"terminate">>
      BY <2>a, <3>2
    <3>4. QED
      BY <3>1, <3>3 DEF Trailing
  <2>3. ASSUME Head(l.todo) = "settle"
        PROVE  Trailing(m)
    <3>1. CASE l.result # "aborted"
      <4>1. l.todo[1] = "settle" /\ 1 < Len(l.todo)
        BY <1>1, <2>1, <2>3
      <4>2. 1 + 1 = Len(l.todo) /\ l.todo[1 + 1] \in {"honor", "terminate"}
        BY <1>1, <3>1, <4>1 DEF WellOrdered
      <4>3. QED
        BY <2>1, <4>2 DEF Trailing
    <3>2. CASE l.result = "aborted"
      <4>1. l.todo = <<"settle", "persist", "terminate">>
        BY <2>3, <2>a, <3>2 DEF Aborted
      <4>2. Head(m.todo) = "persist"
        BY <2>a, <4>1
      <4>3. QED
        BY <2>1, <3>2, <4>2 DEF Trailing
    <3>3. QED
      BY <3>1, <3>2
  <2>4. ASSUME NEW i \in 1 .. Len(m.todo), m.todo[i] = "terminate"
        PROVE  Terminates(l)
    <3>1. i + 1 \in 1 .. Len(l.todo) /\ l.todo[i + 1] = "terminate"
      BY <1>1, <2>1, <2>4
    <3>2. QED
      BY <3>1 DEF Terminates
  <2>5. QED
    BY <2>1, <2>2, <2>3, <2>4 DEF Terminates
<1>4. Head(l.todo) = "terminate" => Terminates(l)
  BY <1>1 DEF Terminates
<1>5. QED
  BY <1>2, <1>3, <1>4

\* There is one leg at most that has yet to write its ticket, and no sweep beside it.
LEMMA OneLeg ==
  ASSUME TypeInv, LeaseInv, NEW l \in legs, ~Trailing(l)
  PROVE  /\ l.attempt = jobs[Run].attempt
         /\ jobs[Run].status = "running" /\ ~jobs[Run].stale
         /\ sweep.pc = "idle"
         /\ \A m \in legs : m # l => Trailing(m) /\ m.attempt < l.attempt
<1>1. Leased(l.worker, l.attempt) /\ sweep.pc = "idle"
  BY DEF LeaseInv
<1>2. l.attempt = jobs[Run].attempt /\ jobs[Run].status = "running" /\ ~jobs[Run].stale
  BY <1>1 DEF Leased, OwnsLease
<1>3. ASSUME NEW m \in legs, m # l
      PROVE  Trailing(m) /\ m.attempt < l.attempt
  <2>1. m.attempt # l.attempt
    BY <1>3 DEF TypeInv
  <2>2. m.attempt \in Nat /\ m.attempt <= jobs[Run].attempt /\ jobs[Run].attempt \in Nat
    BY TypeFacts DEF TypeInv, LegInv
  <2>3. Trailing(m)
    BY <1>2, <2>1 DEF LeaseInv, Leased, OwnsLease
  <2>4. QED
    BY <1>2, <2>1, <2>2, <2>3
<1>4. QED
  BY <1>1, <1>2, <1>3

\* A write of attempt g raises the generation to g at most.
Bounded(g) == gen' = gen \/ gen' = g \/ gen' = 0

LEMMA ProducersBound ==
  ASSUME NEW g
  PROVE  /\ BeginAttempt(g) => Bounded(g)
         /\ ResetRunEvents(g) => Bounded(g)
         /\ \A p : StartRun(p, g) => Bounded(g)
         /\ \A p : TakeIndex(p, g) => Bounded(g)
         /\ \A idx : AppendEvent(g, idx) => Bounded(g)
         /\ \A p, s : CompleteRun(p, s, g) => Bounded(g)
  BY DEF BeginAttempt, ResetRunEvents, StartRun, TakeIndex, AppendEvent, CompleteRun,
         Bounded, keys

\* A leg that leaves the ticket alone keeps the lease.
LEMMA LegKeepsLease ==
  ASSUME TypeInv, LeaseInv, NEW l \in legs, NEW m, Becomes(l, m),
         m.todo # <<>> => /\ m.worker = l.worker /\ m.attempt = l.attempt
                          /\ Trailing(l) => Trailing(m),
         UNCHANGED jobs, LegQuiet, Bounded(l.attempt)
  PROVE  LeaseInv'
<1>1. /\ jobs[Run].attempt \in Nat /\ l.attempt \in Nat /\ gen \in Nat
      /\ l.attempt <= jobs[Run].attempt
  BY TypeFacts DEF TypeInv, LegInv
<1>2. gen' <= jobs[Run].attempt
  BY <1>1 DEF LeaseInv, Bounded
<1>3. \A x \in legs' : x \in legs \/ (x = m /\ m.todo # <<>>)
  BY DEF Becomes
<1>4. ASSUME NEW x \in legs', ~Trailing(x)
      PROVE  Leased(x.worker, x.attempt)' /\ sweep'.pc = "idle"
  <2>1. Leased(x.worker, x.attempt) /\ sweep.pc = "idle"
    BY <1>3, <1>4 DEF LeaseInv
  <2>2. QED
    BY <2>1 DEF Leased, OwnsLease, LegQuiet
<1>5. QED
  BY <1>2, <1>4 DEF LeaseInv, LegQuiet, Leased, OwnsLease

LEMMA DoneKeepsLease ==
  ASSUME TypeInv, LeaseInv, NEW l \in legs, Done(l), UNCHANGED jobs, LegQuiet,
         Bounded(l.attempt)
  PROVE  LeaseInv'
<1>1. PICK m : m = [l EXCEPT !.todo = Tail(@)]
  OBVIOUS
<1>2. Becomes(l, m)
  BY <1>1 DEF Done
<1>3. m.todo # <<>> => /\ m.worker = l.worker /\ m.attempt = l.attempt
                       /\ Trailing(l) => Trailing(m)
  BY <1>1, Goings
<1>4. QED
  BY <1>2, <1>3, LegKeepsLease

LEMMA LegStepsKeepLease ==
  ASSUME TypeInv, LeaseInv, NEW l \in legs
  PROVE  /\ Stamp(l) => LeaseInv'
         /\ Honor(l) => LeaseInv'
         /\ Begin(l) => LeaseInv'
         /\ Reset(l) => LeaseInv'
         /\ Reopen(l) => LeaseInv'
         /\ Start(l) => LeaseInv'
         /\ Abort(l) => LeaseInv'
         /\ Enter(l) => LeaseInv'
         /\ Publish(l) \/ Tell(l) => LeaseInv'
         /\ AppendTaken(l) => LeaseInv'
         /\ \A result \in Endings : Finish(l, result) => LeaseInv'
         /\ Close(l) => LeaseInv'
         /\ PersistError(l) => LeaseInv'
<1>1. l \in Leg
  BY TypeFacts
<1>2. ASSUME NEW m, Becomes(l, m), m.worker = l.worker, m.attempt = l.attempt,
             Head(l.todo) \notin {"honor", "terminate", "persist"}, UNCHANGED jobs,
             LegQuiet, Bounded(l.attempt)
      PROVE  LeaseInv'
  <2>1. ~Trailing(l)
    BY <1>2 DEF Trailing
  <2>2. QED
    BY <1>2, <2>1, LegKeepsLease
<1>3. UNCHANGED stream => Bounded(l.attempt)
  BY DEF stream, keys, Bounded
<1>4. ASSUME Stamp(l) PROVE LeaseInv'
  <2>1. UNCHANGED jobs /\ LegQuiet /\ Head(l.todo) = "stamp" /\ Bounded(l.attempt)
    BY <1>3, <1>4 DEF Stamp, On
  <2>2. CASE Becomes(l, [l EXCEPT !.todo = <<"settle", "honor">>, !.result = "none"])
    <3>1. PICK m : m = [l EXCEPT !.todo = <<"settle", "honor">>, !.result = "none"]
      OBVIOUS
    <3>2. m.worker = l.worker /\ m.attempt = l.attempt
      BY <1>1, <3>1 DEF Leg
    <3>3. Becomes(l, m)
      BY <2>2, <3>1
    <3>4. QED
      BY <1>2, <2>1, <3>2, <3>3
  <2>3. QED
    BY <1>4, <2>1, <2>2, DoneKeepsLease DEF Stamp
<1>5. /\ Honor(l) => LeaseInv'
      /\ Close(l) => LeaseInv'
  BY ProducersBound, DoneKeepsLease DEF Honor, Close
<1>6. /\ Begin(l) => LeaseInv'
      /\ Reset(l) => LeaseInv'
      /\ Start(l) => LeaseInv'
      /\ AppendTaken(l) => LeaseInv'
  BY ProducersBound, DoneKeepsLease DEF Begin, Reset, Start, AppendTaken
<1>7. Reopen(l) => LeaseInv'
  BY DoneKeepsLease DEF Reopen, ReopenRun, keys, Bounded
<1>8. PersistError(l) => LeaseInv'
  BY <1>3, DoneKeepsLease DEF PersistError
<1>9. ASSUME NEW result \in Results \ {"none"}, NEW told \in Telling(result),
             Becomes(l, Through(l, result, told)),
             UNCHANGED <<jobs, stream>>, LegQuiet, Head(l.todo) \in {"enter", "exec"}
      PROVE  LeaseInv'
  <2>1. PICK m : m = Through(l, result, told)
    OBVIOUS
  <2>2. m.worker = l.worker /\ m.attempt = l.attempt
    BY <1>1, <2>1, EndingInOrder
  <2>3. Becomes(l, m)
    BY <1>9, <2>1
  <2>4. QED
    BY <1>2, <1>3, <1>9, <2>2, <2>3
<1>10. ASSUME Enter(l) PROVE LeaseInv'
  <2>1. UNCHANGED <<jobs, stream>> /\ LegQuiet /\ Head(l.todo) = "enter"
    BY <1>10 DEF Enter, On
  <2>2. CASE row.status = "cancelled"
    <3>1. Becomes(l, Through(l, "permanent", <<>>))
      BY <1>1, <1>10, <2>2, RefusedEntry
    <3>2. "permanent" \in Results \ {"none"} /\ <<>> \in Telling("permanent")
      BY DEF Results, Telling
    <3>3. QED
      BY <1>9, <2>1, <3>1, <3>2
  <2>3. CASE row.status # "cancelled"
    BY <1>3, <1>10, <2>1, <2>3, DoneKeepsLease DEF Enter
  <2>4. QED
    BY <2>2, <2>3
<1>11. ASSUME NEW result \in Endings, Finish(l, result) PROVE LeaseInv'
  <2>1. UNCHANGED <<jobs, stream>> /\ LegQuiet /\ Head(l.todo) = "exec"
    BY <1>11 DEF Finish, On
  <2>2. PICK told \in Telling(result) : Becomes(l, Through(l, result, told))
    BY <1>1, <1>11, FinishedLeg
  <2>3. result \in Results \ {"none"}
    BY EndingsAssumption DEF Results, Returned
  <2>4. QED
    BY <1>9, <2>1, <2>2, <2>3
<1>12. ASSUME Publish(l) \/ Tell(l) PROVE LeaseInv'
  <2>1. UNCHANGED jobs /\ LegQuiet /\ Head(l.todo) \in {"exec", "tell"}
        /\ Bounded(l.attempt)
    BY <1>12, EventTaken, ProducersBound
  <2>2. CASE Current(l.attempt)
    <3>1. PICK m \in Leg : Becomes(l, m) /\ Adding(l, m)
      BY <1>12, <2>2, EventTaken
    <3>2. m.worker = l.worker /\ m.attempt = l.attempt
      BY <3>1 DEF Adding
    <3>3. QED
      BY <1>2, <2>1, <3>1, <3>2
  <2>3. CASE ~Current(l.attempt)
    <3>1. CASE legs' = legs
      <4>1. gen' = gen
        BY <1>12, <2>3, EventTaken DEF TakeIndex, keys
      <4>2. QED
        BY <2>1, <3>1, <4>1 DEF LeaseInv, LegQuiet, Leased, OwnsLease
    <3>2. CASE Done(l)
      BY <2>1, <3>2, DoneKeepsLease
    <3>3. QED
      BY <1>12, <2>3, <3>1, <3>2, EventTaken
  <2>4. QED
    BY <2>2, <2>3
<1>a. ASSUME Abort(l) PROVE LeaseInv'
  <2>1. /\ UNCHANGED jobs /\ LegQuiet /\ Head(l.todo) = "stamp" /\ Bounded(l.attempt)
        /\ "aborted" \in Endings
    BY <1>3, <1>a DEF Abort, On
  <2>2. PICK m : m = Interrupted(l)
    OBVIOUS
  <2>3. Becomes(l, m)
    BY <1>a, <2>2 DEF Abort, Interrupted
  <2>4. m.worker = l.worker /\ m.attempt = l.attempt
    BY <1>1, <2>1, <2>2, InterruptedInOrder
  <2>5. QED
    BY <1>2, <2>1, <2>3, <2>4
<1>13. QED
  BY <1>a, <1>4, <1>5, <1>6, <1>7, <1>8, <1>10, <1>11, <1>12

\* The ticket has been given up, or put back: no leg has yet to write it.
LEMMA TicketIsFree ==
  ASSUME TypeInv, LeaseInv, jobs[Run].status # "running" \/ jobs[Run].stale
  PROVE  (\A l \in legs : Trailing(l)) /\ sweep.pc = "idle"
  BY DEF LeaseInv, Leased, OwnsLease

LEMMA SettleKeepsLease ==
  ASSUME TypeInv, LeaseInv, NEW l \in legs, Settle(l)
  PROVE  LeaseInv'
<1>1. /\ LegQuiet /\ UNCHANGED stream /\ Head(l.todo) = "settle" /\ Run \in Job
      /\ jobs \in [Job -> Ticket] /\ jobs[Run] \in Ticket
  BY TypeFacts DEF Settle, On, StoreTypeOK
<1>2. ~Trailing(l)
  BY <1>1 DEF Trailing
<1>3. /\ OwnsLease(l.worker, Run, l.attempt) /\ sweep.pc = "idle"
      /\ \A m \in legs : m # l => Trailing(m)
  BY <1>2, OneLeg DEF LeaseInv, Leased
<1>4. Done(l)
  BY <1>3 DEF Settle
<1>5. \A x \in legs' : Trailing(x)
  <2>1. PICK m : m = [l EXCEPT !.todo = Tail(@)]
    OBVIOUS
  <2>2. m.todo # <<>> => Trailing(m)
    BY <1>1, <2>1, Goings
  <2>3. QED
    BY <1>3, <1>4, <2>1, <2>2 DEF Done, Becomes
<1>6. sweep' = sweep /\ cont' = cont /\ gen' = gen
  BY <1>1 DEF LegQuiet, stream, keys
<1>7. /\ jobs'[Run].attempt = jobs[Run].attempt
      /\ jobs'[Run].maxAttempts = jobs[Run].maxAttempts
      /\ \/ jobs'[Run].status \in {"completed", "cancelled", "failed", "paused"}
         \/ jobs'[Run].status = "queued" /\ jobs[Run].attempt < jobs[Run].maxAttempts
  <2>1. ASSUME NEW s, CompleteJob(l.worker, Run, l.attempt, s)
        PROVE  /\ jobs'[Run].attempt = jobs[Run].attempt
               /\ jobs'[Run].maxAttempts = jobs[Run].maxAttempts
               /\ jobs'[Run].status \in {"completed", "cancelled", "failed", "paused"}
    <3>1. jobs'[Run] = Settled(Run, s)
      BY <1>1, <2>1 DEF CompleteJob
    <3>2. QED
      BY <1>1, <2>1, <3>1 DEF CompleteJob, Settled, Ticket
  <2>2. ASSUME RetryOrFailJob(l.worker, Run, l.attempt, TRUE)
        PROVE  /\ jobs'[Run].attempt = jobs[Run].attempt
               /\ jobs'[Run].maxAttempts = jobs[Run].maxAttempts
               /\ \/ jobs'[Run].status = "failed"
                  \/ /\ jobs'[Run].status = "queued"
                     /\ jobs[Run].attempt < jobs[Run].maxAttempts
    <3>1. jobs'[Run] = IF jobs[Run].attempt < jobs[Run].maxAttempts
                       THEN [Settled(Run, "queued") EXCEPT !.due = TRUE]
                       ELSE Settled(Run, "failed")
      BY <1>1, <2>2 DEF RetryOrFailJob
    <3>2. QED
      BY <1>1, <3>1 DEF Settled, Ticket
  <2>3. QED
    BY <1>3, <2>1, <2>2 DEF Settle
<1>8. jobs[Run].status = "running"
  BY <1>3 DEF OwnsLease
<1>9. cont => jobs[Run].maxAttempts <= jobs[Run].attempt
  BY <1>8 DEF LeaseInv
<1>10. jobs[Run].attempt \in Nat /\ jobs[Run].maxAttempts \in Nat
  BY <1>1 DEF Ticket
<1>11. gen' <= jobs'[Run].attempt
  BY <1>6, <1>7 DEF LeaseInv
<1>12. QED
  BY <1>3, <1>5, <1>6, <1>7, <1>9, <1>10, <1>11 DEF LeaseInv

LEMMA ClaimKeepsLease ==
  ASSUME TypeInv, LeaseInv, NEW w \in Worker, Claim(w)
  PROVE  LeaseInv'
<1>1. /\ ClaimJob(w, Run) /\ UNCHANGED <<stream, cont, sweep>> /\ Run \in Job
      /\ jobs \in [Job -> Ticket] /\ jobs[Run] \in Ticket /\ gen \in Nat
  BY TypeFacts DEF Claim, StoreTypeOK
<1>2. jobs[Run].status = "queued" \/ Reclaimable(Run)
  BY <1>1 DEF ClaimJob, Candidate
<1>3. (\A l \in legs : Trailing(l)) /\ sweep.pc = "idle"
  BY <1>2, TicketIsFree DEF Reclaimable
<1>4. /\ jobs'[Run].status = "running" /\ jobs'[Run].lockedBy = w /\ ~jobs'[Run].stale
      /\ jobs'[Run].attempt = jobs[Run].attempt + 1
      /\ jobs'[Run].maxAttempts = jobs[Run].maxAttempts
  BY <1>1 DEF ClaimJob, Claimed, Ticket
<1>5. PICK n \in Leg : /\ legs' = legs \cup {n}
                       /\ n.worker = w /\ n.attempt = jobs[Run].attempt + 1
  BY ClaimedInOrder
<1>6. Leased(n.worker, n.attempt)'
  BY <1>4, <1>5 DEF Leased, OwnsLease
<1>7. jobs[Run].attempt \in Nat /\ jobs[Run].maxAttempts \in Nat
  BY <1>1 DEF Ticket
<1>8. gen' <= jobs'[Run].attempt
  BY <1>1, <1>4, <1>7 DEF LeaseInv, stream, keys
<1>9. cont' => jobs'[Run].maxAttempts <= jobs'[Run].attempt
  BY <1>1, <1>2, <1>4, <1>7 DEF LeaseInv, Reclaimable
<1>10. QED
  BY <1>1, <1>3, <1>4, <1>5, <1>6, <1>8, <1>9 DEF LeaseInv

LEMMA SweepKeepsLease ==
  ASSUME TypeInv, LeaseInv
  PROVE  /\ \A w \in Worker : Acquire(w) => LeaseInv'
         /\ Sweep => LeaseInv'
<1>1. /\ Run \in Job /\ jobs \in [Job -> Ticket] /\ jobs[Run] \in Ticket
      /\ jobs[Run].attempt \in Nat /\ gen \in Nat
      /\ sweep \in [pc : {"idle", "reconcile", "deface", "fail", "completed", "paused",
                          "cancelled", "failed"},
                    worker : Worker \cup {Nobody}, attempt : Nat, refused : BOOLEAN]
  BY TypeFacts DEF StoreTypeOK, TypeInv, TypeOK
<1>2. ASSUME NEW w \in Worker, Acquire(w) PROVE LeaseInv'
  <2>1. /\ AcquireSweep(w, Run) /\ UNCHANGED <<stream, row>> /\ SweepQuiet
        /\ sweep' = [pc |-> "reconcile", worker |-> w, attempt |-> jobs[Run].attempt,
                     refused |-> FALSE]
    BY <1>2 DEF Acquire, NoSweep
  <2>2. \A l \in legs : Trailing(l)
    BY <2>1, TicketIsFree DEF AcquireSweep, Sweepable
  <2>3. /\ jobs'[Run].status = "running" /\ jobs'[Run].lockedBy = w /\ ~jobs'[Run].stale
        /\ jobs'[Run].attempt = jobs[Run].attempt
        /\ jobs'[Run].maxAttempts = jobs[Run].maxAttempts
        /\ jobs[Run].status = "running"
    BY <1>1, <2>1 DEF AcquireSweep, Sweepable, Ticket
  <2>4. Leased(sweep.worker, sweep.attempt)'
    BY <2>1, <2>3 DEF Leased, OwnsLease
  <2>5. legs' = legs /\ cont' = cont /\ gen' = gen
    BY <2>1 DEF SweepQuiet, stream, keys
  <2>6. QED
    BY <2>2, <2>3, <2>4, <2>5 DEF LeaseInv
<1>3. ASSUME sweep.pc # "idle", UNCHANGED jobs, SweepQuiet, Bounded(sweep.attempt),
             \/ sweep'.pc = "idle"
             \/ sweep'.worker = sweep.worker /\ sweep'.attempt = sweep.attempt
      PROVE  LeaseInv'
  <2>1. Leased(sweep.worker, sweep.attempt) /\ \A l \in legs : Trailing(l)
    BY <1>3 DEF LeaseInv
  <2>2. sweep.attempt = jobs[Run].attempt
    BY <2>1 DEF Leased, OwnsLease
  <2>3. gen' <= jobs[Run].attempt
    BY <1>1, <1>3, <2>2 DEF LeaseInv, Bounded
  <2>4. legs' = legs /\ cont' = cont
    BY <1>3 DEF SweepQuiet
  <2>5. sweep'.pc # "idle" => Leased(sweep.worker, sweep.attempt)'
    BY <1>3, <2>1 DEF Leased, OwnsLease
  <2>6. QED
    BY <1>3, <2>1, <2>3, <2>4, <2>5 DEF LeaseInv
<1>4. ASSUME Reconcile PROVE LeaseInv'
  <2>1. /\ sweep.pc # "idle" /\ UNCHANGED jobs /\ SweepQuiet
        /\ \/ sweep'.pc = "idle"
           \/ sweep'.worker = sweep.worker /\ sweep'.attempt = sweep.attempt
    BY <1>1, <1>4 DEF Reconcile, Unreconciled, NoSweep
  <2>2. Bounded(sweep.attempt)
    BY <1>4, ProducersBound DEF Reconcile, keys, Bounded
  <2>3. QED
    BY <1>3, <2>1, <2>2
<1>5. ASSUME Deface PROVE LeaseInv'
  <2>1. /\ sweep.pc # "idle" /\ UNCHANGED jobs /\ SweepQuiet
        /\ sweep'.worker = sweep.worker /\ sweep'.attempt = sweep.attempt
    BY <1>5, DefacedSweep DEF Deface
  <2>2. Bounded(sweep.attempt)
    BY <1>5 DEF Deface, stream, keys, Bounded
  <2>3. QED
    BY <1>3, <2>1, <2>2
<1>6. ASSUME TerminateSwept PROVE LeaseInv'
  <2>1. /\ sweep.pc # "idle" /\ UNCHANGED jobs /\ SweepQuiet
        /\ sweep'.worker = sweep.worker /\ sweep'.attempt = sweep.attempt
    BY <1>1, <1>6 DEF TerminateSwept
  <2>2. Bounded(sweep.attempt)
    BY <1>6, ProducersBound DEF TerminateSwept
  <2>3. QED
    BY <1>3, <2>1, <2>2
<1>7. ASSUME SettleSwept PROVE LeaseInv'
  <2>1. sweep.pc # "idle" /\ SweepQuiet /\ UNCHANGED stream
    BY <1>7 DEF SettleSwept
  <2>2. Leased(sweep.worker, sweep.attempt) /\ \A l \in legs : Trailing(l)
    BY <2>1 DEF LeaseInv
  <2>3. SettleSweptJob(sweep.worker, Run, sweep.pc) /\ sweep' = NoSweep
    BY <1>7, <2>2 DEF SettleSwept, Leased, OwnsLease
  <2>4. jobs'[Run] = Settled(Run, sweep.pc)
    BY <1>1, <2>3 DEF SettleSweptJob
  <2>5. /\ jobs'[Run].status \in {"completed", "cancelled", "paused", "failed"}
        /\ jobs'[Run].attempt = jobs[Run].attempt
    BY <1>1, <2>3, <2>4 DEF SettleSweptJob, Settled, Ticket
  <2>6. legs' = legs /\ cont' = cont /\ gen' = gen /\ sweep'.pc = "idle"
    BY <2>1, <2>3 DEF SweepQuiet, stream, keys, NoSweep
  <2>7. QED
    BY <2>2, <2>5, <2>6 DEF LeaseInv
<1>8. QED
  BY <1>2, <1>4, <1>5, <1>6, <1>7 DEF Sweep

LEMMA DoorsKeepLease ==
  ASSUME TypeInv, LeaseInv
  PROVE  /\ Enqueue \/ Cancel \/ Continue \/ Requeue => LeaseInv'
         /\ \A door \in owed : Pay(door) \/ DoorDies(door) => LeaseInv'
<1>1. /\ Run \in Job /\ jobs \in [Job -> Ticket] /\ jobs[Run] \in Ticket
      /\ jobs[Run].attempt \in Nat /\ gen \in Nat /\ gen <= jobs[Run].attempt
      /\ owed \in SUBSET {"register", "cancel", "reopen"}
  BY TypeFacts DEF StoreTypeOK, LeaseInv, TypeInv, TypeOK
<1>2. ASSUME DoorQuiet, gen' = gen, jobs[Run].status # "running",
             jobs'[Run].attempt = jobs[Run].attempt,
             \/ jobs'[Run].status = "cancelled"
             \/ /\ jobs'[Run].status = "queued"
                /\ ~cont' \/ jobs'[Run].maxAttempts <= jobs'[Run].attempt + 1
      PROVE  LeaseInv'
  <2>1. (\A l \in legs : Trailing(l)) /\ sweep.pc = "idle"
    BY <1>2, TicketIsFree
  <2>2. legs' = legs /\ sweep' = sweep
    BY <1>2 DEF DoorQuiet
  <2>3. QED
    BY <1>1, <1>2, <2>1, <2>2 DEF LeaseInv
<1>3. ASSUME Enqueue PROVE LeaseInv'
  <2>1. PICK created \in Stamps : EnqueueJob(Run, created)
    BY <1>3 DEF Enqueue
  <2>2. jobs[Run].status = "absent"
    BY <2>1 DEF EnqueueJob
  <2>3. jobs'[Run].status = "queued" /\ jobs'[Run].attempt = 0
    BY <1>1, <2>1 DEF EnqueueJob, NoTicket
  <2>4. DoorQuiet /\ gen' = gen /\ cont' = cont
    BY <1>3 DEF Enqueue, stream, keys
  <2>5. QED
    BY <1>2, <2>2, <2>3, <2>4 DEF LeaseInv
<1>4. ASSUME Cancel PROVE LeaseInv'
  <2>1. CancelJob(Run) /\ DoorQuiet /\ gen' = gen
    BY <1>4 DEF Cancel, stream, keys
  <2>2. jobs'[Run].status = "cancelled" /\ jobs'[Run].attempt = jobs[Run].attempt
        /\ jobs[Run].status # "running"
    BY <1>1, <2>1 DEF CancelJob, Ticket
  <2>3. QED
    BY <1>2, <2>1, <2>2
<1>5. /\ Granted(Run).status = "queued" /\ Granted(Run).attempt = jobs[Run].attempt
      /\ Granted(Run).maxAttempts = jobs[Run].attempt + 1
      /\ \A s : /\ [Granted(Run) EXCEPT !.seq = s].status = Granted(Run).status
                /\ [Granted(Run) EXCEPT !.seq = s].attempt = Granted(Run).attempt
                /\ [Granted(Run) EXCEPT !.seq = s].maxAttempts = Granted(Run).maxAttempts
  BY <1>1 DEF Granted, Ticket
<1>6. ASSUME Continue PROVE LeaseInv'
  <2>1. ContinueJob(Run) /\ DoorQuiet /\ gen' = gen
    BY <1>6 DEF Continue, stream, keys
  <2>2. jobs'[Run] = Granted(Run) /\ jobs[Run].status # "running"
    BY <1>1, <2>1 DEF ContinueJob
  <2>3. QED
    BY <1>1, <1>2, <1>5, <2>1, <2>2
<1>7. ASSUME Requeue PROVE LeaseInv'
  <2>1. RequeueJob(Run) /\ DoorQuiet /\ gen' = gen
    BY <1>7 DEF Requeue, stream, keys
  <2>2. PICK s \in Seqs : jobs'[Run] = [Granted(Run) EXCEPT !.seq = s]
    BY <1>1, <2>1 DEF RequeueJob
  <2>3. jobs[Run].status # "running"
    BY <2>1 DEF RequeueJob
  <2>4. QED
    BY <1>1, <1>2, <1>5, <2>1, <2>2, <2>3
<1>8. ASSUME UNCHANGED <<jobs, cont>>, legs' = legs, sweep' = sweep, gen' = gen
      PROVE  LeaseInv'
  BY <1>8 DEF LeaseInv, Leased, OwnsLease
<1>9. \A door \in owed : DoorDies(door) => LeaseInv'
  BY <1>8 DEF DoorDies, stream, keys
<1>10. ASSUME NEW door \in owed, Pay(door) PROVE LeaseInv'
  <2>1. UNCHANGED <<jobs, cont>> /\ legs' = legs /\ sweep' = sweep
    BY <1>10 DEF Pay, DoorQuiet
  <2>2. door \in {"register", "cancel", "reopen"}
    BY <1>1
  <2>3. gen' = gen
    BY <1>10, <2>2 DEF Pay, ReopenRun, CompleteAnyway, keys
  <2>4. QED
    BY <1>8, <2>1, <2>3
<1>11. QED
  BY <1>3, <1>4, <1>6, <1>7, <1>9, <1>10

LEMMA TimeKeepsLease ==
  ASSUME TypeInv, LeaseInv
  PROVE  /\ "falseLapse" \notin Env /\ Lapse => LeaseInv'
         /\ \A w \in Worker : Crash(w) => LeaseInv'
         /\ "lateLeg" \notin Env /\ Expire => LeaseInv'
         /\ \A w \in Worker : StopsRefreshing(w) /\ Unchanged => LeaseInv'
         /\ \A c \in Client : (Attach(c) \/ TailStep(c)) /\ Unchanged => LeaseInv'
         /\ UNCHANGED vars => LeaseInv'
<1>1. /\ Run \in Job /\ jobs \in [Job -> Ticket] /\ jobs[Run] \in Ticket /\ StreamOK
      /\ jobs[Run].attempt \in Nat /\ gen \in Nat /\ gen <= jobs[Run].attempt
      /\ sweep.pc = "idle" => sweep = NoSweep
  BY TypeFacts DEF StoreTypeOK, LeaseInv, TypeInv
<1>2. ASSUME UNCHANGED <<jobs, cont>>, legs' \subseteq legs, gen' = gen,
             sweep' = sweep \/ sweep' = NoSweep
      PROVE  LeaseInv'
  BY <1>2 DEF LeaseInv, Leased, OwnsLease, NoSweep
<1>3. ASSUME "falseLapse" \notin Env, Lapse PROVE LeaseInv'
  <2>1. /\ LeaseLapses(Run) /\ ~Attended
        /\ UNCHANGED <<stream, row, cont, legs, sweep, owed, alive>>
    BY <1>3 DEF Lapse
  <2>2. \A l \in legs : Trailing(l)
    BY <2>1 DEF LeaseInv, Leased, OwnsLease, Attended
  <2>3. sweep.pc = "idle"
    BY <2>1 DEF LeaseInv, Leased, OwnsLease, Attended
  <2>4. /\ jobs'[Run].attempt = jobs[Run].attempt
        /\ jobs'[Run].maxAttempts = jobs[Run].maxAttempts
        /\ jobs'[Run].status = jobs[Run].status
    BY <1>1, <2>1 DEF LeaseLapses, Ticket
  <2>5. QED
    BY <2>1, <2>2, <2>3, <2>4 DEF LeaseInv, stream, keys
<1>4. \A w \in Worker : Crash(w) => LeaseInv'
  BY <1>2 DEF Crash, keys
<1>5. ASSUME "lateLeg" \notin Env, Expire PROVE LeaseInv'
  <2>1. /\ KeysExpire /\ legs = {} /\ sweep = NoSweep
        /\ UNCHANGED <<jobs, row, cont, legs, sweep, owed, alive>>
    BY <1>5 DEF Expire
  <2>2. gen' = 0
    BY <2>1 DEF KeysExpire
  <2>3. QED
    BY <1>1, <2>1, <2>2 DEF LeaseInv, NoSweep
<1>6. \A w \in Worker : StopsRefreshing(w) /\ Unchanged => LeaseInv'
  BY <1>2 DEF StopsRefreshing, Unchanged, keys
<1>7. \A c \in Client : (Attach(c) \/ TailStep(c)) /\ Unchanged => LeaseInv'
  BY <1>1, <1>2, TailsKeepTypes DEF Unchanged, keys
<1>8. UNCHANGED vars => LeaseInv'
  BY <1>2 DEF vars, stream, keys
<1>9. QED
  BY <1>3, <1>4, <1>5, <1>6, <1>7, <1>8

LEMMA InitLeased == Init => LeaseInv
<1> SUFFICES ASSUME Init PROVE LeaseInv
  OBVIOUS
<1>1. legs = {} /\ sweep = NoSweep /\ gen = 0 /\ cont = FALSE /\ Run \in Job
  BY RunAssumption DEF Init, StreamInit
<1>2. jobs[Run] = NoTicket("absent")
  BY <1>1 DEF Init, StoreInit
<1>3. QED
  BY <1>1, <1>2 DEF LeaseInv, NoSweep, NoTicket

LEMMA NextKeepsLease ==
  ASSUME "lateLeg" \notin Env, "falseLapse" \notin Env, TypeInv, LeaseInv, [Next]_vars
  PROVE  LeaseInv'
  BY ClaimKeepsLease, SweepKeepsLease, LegStepsKeepLease, SettleKeepsLease, DoorsKeepLease,
     TimeKeepsLease DEF Next, Execute

-----------------------------------------------------------------------------
(* The row beside the ticket *)

\* The fenced write: refused, and then nothing, or all that is asked for.
LEMMA PersistOutcome ==
  ASSUME row \in Row, NEW attempt \in Nat, NEW floor \in Nat,
         NEW s \in {"pending", "running", "paused", "error", "completed", "cancelled"},
         Persist(attempt, s, floor)
  PROVE  /\ row' = row \/ (row'.status = s /\ row'.attempt = attempt)
         /\ row.status \in Finished => row'.status = row.status
         /\ row.attempt <= attempt /\ (row.status \in Finished => s = row.status) =>
              row'.status = s /\ row'.attempt = attempt
         /\ ~Refused(attempt, s) => row'.status = s
  BY DEF Persist, Refused, Row

\* No step changes the status of a row that is finished.
LEMMA FinalRow ==
  ASSUME TypeInv, [Next]_vars, row.status \in Finished
  PROVE  row'.status = row.status
<1>1. /\ row \in Row /\ row.floor \in Nat /\ jobs[Run].attempt \in Nat
      /\ \A l \in legs : l.attempt \in Nat /\ l.floor \in Nat
      /\ sweep.attempt \in Nat
  BY TypeFacts DEF Row, TypeInv, TypeOK
<1>2. ASSUME row' = row PROVE row'.status = row.status
  BY <1>2
<1>3. ASSUME NEW attempt \in Nat, NEW floor \in Nat,
             NEW s \in {"pending", "running", "paused", "error", "completed", "cancelled"},
             Persist(attempt, s, floor)
      PROVE  row'.status = row.status
  BY <1>1, <1>3, PersistOutcome
<1>4. ASSUME NEW l \in legs, Stamp(l) PROVE row'.status = row.status
  BY <1>1, <1>3, <1>4 DEF Stamp, Row
<1>5. ASSUME NEW l \in legs, NEW result \in Endings, Finish(l, result)
      PROVE  row'.status = row.status
  <2>1. Stored(l) \in Nat
    BY <1>1, StoredNatural
  <2>2. CASE result \in Returned \ {"unseen"}
    <3>1. Persist(l.attempt, result, Stored(l))
      BY <1>5, <2>2 DEF Finish, Returned
    <3>2. QED
      BY <1>1, <1>3, <2>1, <2>2, <3>1 DEF Returned
  <2>3. CASE result = "unseen"
    <3>1. Persist(l.attempt, "error", Stored(l))
      BY <1>5, <2>3 DEF Finish, Returned
    <3>2. QED
      BY <1>1, <1>3, <2>1, <3>1
  <2>4. CASE result \notin Returned
    BY <1>5, <2>4 DEF Finish, Returned
  <2>5. QED
    BY <2>2, <2>3, <2>4
<1>6. ASSUME NEW l \in legs, PersistError(l) PROVE row'.status = row.status
  BY <1>1, <1>3, <1>6 DEF PersistError
<1>a. ASSUME NEW l \in legs, Abort(l) PROVE row'.status = row.status
  BY <1>1, <1>a DEF Abort, Row
<1>b. ASSUME NEW l \in legs, Publish(l) \/ Tell(l) PROVE row'.status = row.status
  BY <1>b, EventTaken
<1>7. ASSUME NEW l \in legs, Execute(l) \/ Publish(l) PROVE row'.status = row.status
  BY <1>4, <1>5, <1>6, <1>a, <1>b, <1>7 DEF Execute, Honor, Begin, Reset, Reopen, Start,
     Enter, AppendTaken, Close, Settle
<1>8. ASSUME Sweep PROVE row'.status = row.status
  BY <1>1, <1>3, <1>8 DEF Sweep, Reconcile, Deface, TerminateSwept, SettleSwept
<1>9. ASSUME Enqueue \/ Cancel \/ Continue \/ Requeue PROVE row'.status = row.status
  BY <1>1, <1>3, <1>9 DEF Enqueue, Cancel, Continue, Requeue
<1>10. ASSUME \/ \E w \in Worker : Claim(w) \/ Acquire(w) \/ Crash(w)
              \/ \E w \in Worker : StopsRefreshing(w) /\ Unchanged
              \/ \E door \in owed : Pay(door) \/ DoorDies(door)
              \/ Lapse \/ Expire
              \/ \E c \in Client : (Attach(c) \/ TailStep(c)) /\ Unchanged
              \/ UNCHANGED vars
       PROVE  row'.status = row.status
  BY <1>10 DEF Claim, Acquire, Crash, Unchanged, Pay, DoorDies, Lapse, Expire, vars
<1>11. QED
  BY <1>7, <1>8, <1>9, <1>10 DEF Next

RowFinal == row.status \in Finished => row'.status = row.status

\* A leg that has yet to write its ticket may write the row; the others may not, so
\* what is known of them stays.
LEMMA LegKeepsRow ==
  ASSUME TypeInv, LeaseInv, RowInv, NEW l \in legs, NEW m, Becomes(l, m),
         UNCHANGED jobs, LegQuiet, row' = row \/ ~Trailing(l), RowFinal,
         row'.attempt <= jobs[Run].attempt,
         m.todo # <<>> => /\ ~Trailing(m) => LegRow(m)'
                          /\ Terminates(m) => m.result \notin {"completed", "cancelled"}
                          /\ m.result = "aborted" => Head(m.todo) # "terminate"
  PROVE  RowInv'
<1>1. \A x \in legs' : (x \in legs /\ x # l) \/ (x = m /\ m.todo # <<>>)
  BY DEF Becomes
<1>2. ASSUME NEW x \in legs', ~Trailing(x)
      PROVE  LegRow(x)'
  <2>1. CASE x = m /\ m.todo # <<>>
    BY <1>2, <2>1
  <2>2. CASE x \in legs /\ x # l
    <3>1. LegRow(x)
      BY <1>2, <2>2 DEF RowInv
    <3>2. Trailing(l)
      BY <1>2, <2>2, OneLeg
    <3>3. QED
      BY <3>1, <3>2 DEF LegRow, LegQuiet
  <2>3. QED
    BY <1>1, <2>1, <2>2
<1>3. \A x \in legs' : Terminates(x) => x.result \notin {"completed", "cancelled"}
  BY <1>1 DEF RowInv
<1>4. row' = row \/ (jobs[Run].status = "running" /\ sweep.pc = "idle")
  BY OneLeg
<1>5. \A x \in legs' : x.result = "aborted" /\ Head(x.todo) = "terminate" =>
                          row'.status \in Finished
  BY <1>1 DEF RowInv, RowFinal
<1>6. QED
  BY <1>2, <1>3, <1>4, <1>5 DEF RowInv, LegQuiet

\* A leg does what it had first to do and leaves the row alone.
LEMMA DoneKeepsRow ==
  ASSUME TypeInv, LeaseInv, RowInv, NEW l \in legs, Done(l),
         UNCHANGED <<jobs, row>>, LegQuiet, Head(l.todo) # "stamp",
         Head(l.todo) = "enter" => row.status # "cancelled",
         Head(l.todo) \notin {"persist", "settle"}
  PROVE  RowInv'
<1>1. /\ l \in Leg /\ WellOrdered(l) /\ Head(l.todo) = l.todo[1] /\ 1 \in 1 .. Len(l.todo)
  BY TypeFacts
<1>2. PICK m : m = [l EXCEPT !.todo = Tail(@)]
  OBVIOUS
<1>3. Becomes(l, m)
  BY <1>2 DEF Done
<1>4. ASSUME m.todo # <<>>
      PROVE  /\ LegRow(m)'
             /\ Terminates(m) => m.result \notin {"completed", "cancelled"}
             /\ m.result = "aborted" => Head(m.todo) # "terminate"
  <2>1. /\ ~Trailing(l) /\ m.attempt = l.attempt /\ m.cont = l.cont /\ m.result = l.result
        /\ Successor(l, Head(l.todo), Head(m.todo))
        /\ Terminates(m) => Terminates(l)
    BY <1>2, <1>4, Goings
  <2>2. LegRow(l) /\ (Terminates(l) => l.result \notin {"completed", "cancelled"})
    BY <2>1 DEF RowInv
  <2>3. /\ Head(l.todo) \in {"reopen", "enter"} => l.cont
        /\ Head(l.todo) = "reset" => ~l.cont
    BY <1>1 DEF WellOrdered
  <2>4. m.result = "none" /\ Head(m.todo) \in {"exec", "append"} =>
          row.status \notin Finished
    <3>1. Head(m.todo) \in {"exec", "append"} =>
            \/ Head(l.todo) = "start" /\ ~l.cont
            \/ Head(l.todo) = "enter"
            \/ Head(l.todo) = "append" /\ l.result = "none"
      BY <2>1, Predecessors
    <3>2. QED
      BY <2>1, <2>2, <2>3, <3>1 DEF LegRow, Finished
  <2>5. ~m.cont /\ Head(m.todo) \in {"begin", "reset", "start"} => row.status \notin Finished
    <3>1. Head(m.todo) \in {"begin", "reset", "start"} =>
            Head(l.todo) \in {"begin", "reopen", "reset"}
      BY <2>1 DEF Successor
    <3>2. QED
      BY <2>1, <2>2, <2>3, <3>1 DEF LegRow
  <2>6. m.cont /\ Head(m.todo) \in {"stamp", "begin", "reopen", "start", "enter"} =>
          row.status # "completed"
    <3>1. Head(m.todo) \in {"stamp", "begin", "reopen", "start", "enter"} =>
            Head(l.todo) \in {"begin", "reopen", "reset", "start"}
      BY <2>1 DEF Successor
    <3>2. QED
      BY <2>1, <2>2, <2>3, <3>1 DEF LegRow
  <2>7. m.result = "none" => Head(m.todo) # "settle"
    <3>1. SUFFICES ASSUME m.result = "none", Head(m.todo) = "settle"
                   PROVE  FALSE
      OBVIOUS
    <3>2. Head(l.todo) \in {"close", "terminate", "tell"}
      BY <2>1, <3>1 DEF Successor
    <3>3. QED
      BY <1>1, <2>1, <3>1, <3>2 DEF WellOrdered
  <2>8. m.result = "aborted" => Head(m.todo) # "terminate"
    <3>1. SUFFICES ASSUME m.result = "aborted"
                   PROVE  Head(m.todo) # "terminate"
      OBVIOUS
    <3>2. l.todo \in Aborted /\ m.todo = Tail(l.todo)
      BY <1>1, <1>2, <2>1, <3>1 DEF WellOrdered, Leg
    <3>3. /\ Head(<<"settle", "persist", "terminate">>) = "settle"
          /\ Head(<<"persist", "terminate">>) = "persist"
          /\ Tail(<<"terminate">>) = <<>>
      OBVIOUS
    <3>4. l.todo = <<"close", "settle", "persist", "terminate">>
      BY <1>4, <3>2, <3>3 DEF Aborted
    <3>5. QED
      BY <3>2, <3>4
  <2>9. QED
    BY <2>1, <2>2, <2>4, <2>5, <2>6, <2>7, <2>8 DEF LegRow, LegQuiet
<1>5. row'.attempt <= jobs[Run].attempt /\ RowFinal
  BY DEF RowInv, RowFinal
<1>6. QED
  BY <1>3, <1>4, <1>5, LegKeepsRow

LEMMA StreamStepsKeepRow ==
  ASSUME TypeInv, LeaseInv, RowInv, NEW l \in legs
  PROVE  /\ Honor(l) => RowInv'
         /\ Begin(l) => RowInv'
         /\ Reset(l) => RowInv'
         /\ Reopen(l) => RowInv'
         /\ Start(l) => RowInv'
         /\ AppendTaken(l) => RowInv'
         /\ Close(l) => RowInv'
  BY DoneKeepsRow DEF Honor, Begin, Reset, Reopen, Start, AppendTaken, Close, On

LEMMA StampKeepsRow ==
  ASSUME TypeInv, LeaseInv, RowInv, NEW l \in legs, Stamp(l)
  PROVE  RowInv'
<1>1. /\ Head(l.todo) = "stamp" /\ UNCHANGED jobs /\ LegQuiet /\ l \in Leg /\ row \in Row
      /\ row.floor \in Nat /\ l.attempt \in Nat /\ row.attempt \in Nat
  BY TypeFacts DEF Stamp, On, Row
<1>a. l.result = "none"
  <2>1. WellOrdered(l) /\ Head(l.todo) = l.todo[1] /\ 1 \in 1 .. Len(l.todo)
    BY TypeFacts
  <2>2. QED
    BY <1>1, <2>1 DEF WellOrdered
<1>2. ~Trailing(l)
  BY <1>1, <1>a DEF Trailing
<1>3. LegRow(l) /\ l.attempt = jobs[Run].attempt
  BY <1>2, OneLeg DEF RowInv
<1>4. /\ row'.attempt <= l.attempt
      /\ l.cont => row'.status = row.status
      /\ row.status \notin Finished /\ ~l.cont => row'.status = "running"
      /\ row.status \in Finished => row'.status = row.status
  <2>1. CASE l.cont
    BY <1>1, <1>3, <2>1 DEF Stamp, Row, LegRow
  <2>2. CASE ~l.cont
    <3>1. Persist(l.attempt, "running", row.floor)
      BY <1>3, <2>2 DEF Stamp
    <3>2. /\ row' = row \/ (row'.status = "running" /\ row'.attempt = l.attempt)
          /\ row.status \in Finished => row'.status = row.status
          /\ row.status \notin Finished => row'.status = "running"
      BY <1>1, <1>3, <3>1, PersistOutcome DEF LegRow
    <3>3. QED
      BY <1>1, <1>3, <2>2, <3>2 DEF LegRow
  <2>3. QED
    BY <2>1, <2>2
<1>5. CASE Done(l) /\ (l.cont \/ row.status \notin Finished)
  <2>1. PICK m : m = [l EXCEPT !.todo = Tail(@)]
    OBVIOUS
  <2>2. Becomes(l, m)
    BY <1>5, <2>1 DEF Done
  <2>3. ASSUME m.todo # <<>>
        PROVE  LegRow(m)' /\ m.result = "none"
    <3>1. /\ m.attempt = l.attempt /\ m.cont = l.cont /\ m.result = "none"
          /\ Successor(l, Head(l.todo), Head(m.todo))
      BY <1>a, <2>1, <2>3, Goings
    <3>2. Head(m.todo) = "begin"
      BY <1>1, <3>1 DEF Successor
    <3>3. ~l.cont => row'.status \notin Finished
      BY <1>4, <1>5 DEF Finished
    <3>4. l.cont => row'.status # "completed"
      BY <1>1, <1>3, <1>4 DEF LegRow
    <3>5. QED
      BY <1>1, <1>3, <1>4, <3>1, <3>2, <3>3, <3>4 DEF LegRow, LegQuiet
  <2>4. row'.attempt <= jobs[Run].attempt /\ RowFinal
    BY <1>3, <1>4 DEF RowFinal
  <2>5. QED
    BY <1>1, <1>2, <2>2, <2>3, <2>4, LegKeepsRow
<1>6. CASE /\ Becomes(l, [l EXCEPT !.todo = <<"settle", "honor">>, !.result = "none"])
           /\ ~l.cont /\ row.status \in Finished
  <2>1. PICK m : m = [l EXCEPT !.todo = <<"settle", "honor">>, !.result = "none"]
    OBVIOUS
  <2>2. Becomes(l, m)
    BY <1>6, <2>1
  <2>3. /\ m.todo = <<"settle", "honor">> /\ m.attempt = l.attempt /\ m.cont = l.cont
        /\ m.result = "none"
    BY <1>1, <2>1 DEF Leg
  <2>4. Head(m.todo) = "settle" /\ m.result = "none"
    BY <2>3
  <2>5. LegRow(m)'
    BY <1>1, <1>3, <1>4, <1>6, <2>3, <2>4 DEF LegRow, LegQuiet
  <2>6. row'.attempt <= jobs[Run].attempt /\ RowFinal
    BY <1>3, <1>4 DEF RowFinal
  <2>7. QED
    BY <1>1, <1>2, <2>2, <2>4, <2>5, <2>6, LegKeepsRow
<1>7. QED
  BY <1>1, <1>3, <1>5, <1>6 DEF Stamp, LegRow

LEMMA AbortKeepsRow ==
  ASSUME TypeInv, LeaseInv, RowInv, NEW l \in legs, Abort(l)
  PROVE  RowInv'
<1>1. /\ Head(l.todo) = "stamp" /\ UNCHANGED jobs /\ LegQuiet /\ l \in Leg /\ row \in Row
      /\ l.attempt \in Nat /\ row.attempt \in Nat /\ "aborted" \in Endings
  BY TypeFacts DEF Abort, On, Row
<1>2. ~Trailing(l)
  BY <1>1 DEF Trailing
<1>3. LegRow(l) /\ l.attempt = jobs[Run].attempt
  BY <1>2, OneLeg DEF RowInv
<1>4. row'.attempt <= l.attempt /\ row'.status = row.status
  BY <1>1, <1>3 DEF Abort, Row, LegRow
<1>5. PICK m : m = Interrupted(l)
  OBVIOUS
<1>6. Becomes(l, m)
  BY <1>5 DEF Abort, Interrupted
<1>7. /\ m.attempt = l.attempt /\ m.cont = l.cont /\ m.result = "aborted"
      /\ Head(m.todo) = "settle"
  BY <1>1, <1>5, InterruptedInOrder
<1>8. LegRow(m)'
  BY <1>1, <1>3, <1>4, <1>7 DEF LegRow, LegQuiet
<1>9. row'.attempt <= jobs[Run].attempt /\ RowFinal
  BY <1>3, <1>4 DEF RowFinal
<1>10. QED
  BY <1>1, <1>2, <1>6, <1>7, <1>8, <1>9, LegKeepsRow

\* The user's cancel is on the row once the leg that it ended has written it.
LEMMA CancelIsWritten ==
  ASSUME TypeInv, AbortInv, row.attempt <= jobs[Run].attempt, NEW l \in legs,
         PersistError(l), l.result = "aborted"
  PROVE  /\ row'.status \in Finished
         /\ row' = row \/ (row'.status = "cancelled" /\ row'.attempt = jobs[Run].attempt)
<1>1. /\ Head(l.todo) = "persist" /\ Persist(l.attempt, "cancelled", row.floor)
      /\ row \in Row /\ row.floor \in Nat /\ l.attempt \in Nat
  BY TypeFacts DEF PersistError, On, Row
<1>2. l.attempt = jobs[Run].attempt
  BY <1>1 DEF AbortInv
<1>3. /\ row' = row \/ (row'.status = "cancelled" /\ row'.attempt = l.attempt)
      /\ row.status \in Finished => row'.status = row.status
      /\ row.attempt <= l.attempt /\ (row.status \in Finished => "cancelled" = row.status) =>
           row'.status = "cancelled"
  BY <1>1, PersistOutcome
<1>4. QED
  BY <1>2, <1>3 DEF Finished

LEMMA ExecutionKeepsRow ==
  ASSUME TypeInv, LeaseInv, AbortInv, RowInv, NEW l \in legs
  PROVE  /\ Enter(l) => RowInv'
         /\ Publish(l) \/ Tell(l) => RowInv'
         /\ \A result \in Endings : Finish(l, result) => RowInv'
         /\ PersistError(l) => RowInv'
<1>1. /\ l \in Leg /\ row \in Row /\ row.floor \in Nat /\ l.attempt \in Nat
      /\ row.attempt \in Nat /\ row.attempt <= jobs[Run].attempt /\ l.floor \in Nat
  BY TypeFacts DEF Row, RowInv
<1>2. ASSUME NEW result \in Results \ {"none"}, NEW told \in Telling(result),
             Becomes(l, Through(l, result, told)),
             ~Trailing(l), UNCHANGED jobs, LegQuiet, row'.attempt <= l.attempt, RowFinal,
             result \in Finished => row'.status = result,
             result # "completed" => row'.status # "completed"
      PROVE  RowInv'
  <2>1. PICK m : m = Through(l, result, told)
    OBVIOUS
  <2>2. /\ Head(m.todo) \in {"tell", "close", "persist", "settle"} /\ m.attempt = l.attempt
        /\ m.cont = l.cont /\ m.result = result
    BY <1>1, <2>1, EndingInOrder
  <2>3. Becomes(l, m)
    BY <1>2, <2>1
  <2>4. LegRow(l) /\ l.attempt = jobs[Run].attempt
    BY <1>2, OneLeg DEF RowInv
  <2>5. LegRow(m)'
    BY <1>2, <2>2, <2>4 DEF LegRow, LegQuiet, Finished
  <2>6. Terminates(m) => m.result \notin {"completed", "cancelled"}
    <3>1. ASSUME result \in {"completed", "cancelled"}
          PROVE  ~Terminates(m)
      <4>1. m.todo = told \o <<"close", "settle">> /\ told \in {<<>>, <<"tell">>}
        BY <1>1, <2>1, <3>1 DEF Through, Ending, Leg, Telling
      <4>2. CASE told = <<>>
        <5>a. <<>> \o <<"close", "settle">> = <<"close", "settle">>
          OBVIOUS
        <5>1. m.todo = <<"close", "settle">>
          BY <4>1, <4>2, <5>a
        <5>2. QED
          BY <5>1 DEF Terminates
      <4>3. CASE told = <<"tell">>
        <5>1. \A i \in 1 .. Len(<<"tell">> \o <<"close", "settle">>) :
                (<<"tell">> \o <<"close", "settle">>)[i] # "terminate"
          OBVIOUS
        <5>2. m.todo = <<"tell">> \o <<"close", "settle">>
          BY <4>1, <4>3
        <5>3. QED
          BY <5>1, <5>2 DEF Terminates
      <4>4. QED
        BY <4>1, <4>2, <4>3
    <3>2. QED
      BY <2>2, <3>1
  <2>7. row'.attempt <= jobs[Run].attempt /\ Head(m.todo) # "terminate"
    BY <1>2, <2>2, <2>4
  <2>8. QED
    BY <1>2, <2>3, <2>5, <2>6, <2>7, LegKeepsRow
<1>3. ASSUME Enter(l) PROVE RowInv'
  <2>1. UNCHANGED <<jobs, row>> /\ LegQuiet /\ Head(l.todo) = "enter"
    BY <1>3 DEF Enter, On
  <2>2. CASE row.status = "cancelled"
    <3>1. Becomes(l, Through(l, "permanent", <<>>))
      BY <1>1, <1>3, <2>2, RefusedEntry
    <3>2. /\ "permanent" \in Results \ {"none"} /\ <<>> \in Telling("permanent")
          /\ "permanent" \notin Finished
      BY DEF Results, Telling, Finished
    <3>3. ~Trailing(l)
      BY <2>1 DEF Trailing
    <3>4. row'.attempt <= l.attempt /\ row'.status # "completed" /\ RowFinal
      BY <2>1, <2>2, <3>3 DEF RowInv, LegRow, RowFinal
    <3>5. QED
      BY <1>2, <2>1, <3>1, <3>2, <3>3, <3>4
  <2>3. CASE row.status # "cancelled"
    BY <1>3, <2>1, <2>3, DoneKeepsRow DEF Enter
  <2>4. QED
    BY <2>2, <2>3
<1>4. ASSUME NEW result \in Endings, Finish(l, result) PROVE RowInv'
  <2>1. UNCHANGED jobs /\ LegQuiet /\ Head(l.todo) = "exec"
    BY <1>4 DEF Finish, On
  <2>2. l.result = "none"
    <3>1. WellOrdered(l) /\ Head(l.todo) = l.todo[1] /\ 1 \in 1 .. Len(l.todo)
      BY TypeFacts
    <3>2. QED
      BY <2>1, <3>1 DEF WellOrdered
  <2>3. ~Trailing(l) /\ LegRow(l)
    BY <2>1, <2>2 DEF Trailing, RowInv
  <2>4. row.status \notin Finished /\ row.attempt <= l.attempt
    BY <2>1, <2>2, <2>3 DEF LegRow
  <2>5. PICK told \in Telling(result) : Becomes(l, Through(l, result, told))
    BY <1>1, <1>4, FinishedLeg
  <2>6. result \in Results \ {"none"} /\ Stored(l) \in Nat
    BY <1>1, StoredNatural, EndingsAssumption DEF Results, Returned
  <2>7. /\ row'.attempt <= l.attempt
        /\ result \in Finished => row'.status = result
        /\ result # "completed" => row'.status # "completed"
    <3>1. ASSUME NEW s \in {"paused", "error", "completed", "cancelled"},
                 Persist(l.attempt, s, Stored(l))
          PROVE  row'.attempt = l.attempt /\ row'.status = s
      BY <1>1, <2>4, <2>6, <3>1, PersistOutcome
    <3>2. CASE result \in Returned \ {"unseen"}
      <4>1. Persist(l.attempt, result, Stored(l))
        BY <1>4, <3>2 DEF Finish, Returned
      <4>2. row'.status = result /\ row'.attempt = l.attempt
        BY <3>1, <3>2, <4>1 DEF Returned
      <4>3. QED
        BY <1>1, <4>2
    <3>3. CASE result = "unseen"
      <4>1. Persist(l.attempt, "error", Stored(l))
        BY <1>4, <3>3 DEF Finish, Returned
      <4>2. row'.status = "error" /\ row'.attempt = l.attempt
        BY <3>1, <4>1
      <4>3. QED
        BY <1>1, <3>3, <4>2 DEF Finished
    <3>4. CASE result \notin Returned
      BY <1>4, <2>4, <3>4 DEF Finish, Finished, Returned
    <3>5. QED
      BY <3>2, <3>3, <3>4
  <2>8. RowFinal
    BY <2>4 DEF RowFinal
  <2>9. QED
    BY <1>2, <2>1, <2>3, <2>5, <2>6, <2>7, <2>8
<1>5. ASSUME PersistError(l) PROVE RowInv'
  <2>1. UNCHANGED jobs /\ LegQuiet /\ Head(l.todo) = "persist" /\ Done(l)
    BY <1>5 DEF PersistError, On
  <2>2. PICK m : m = [l EXCEPT !.todo = Tail(@)]
    OBVIOUS
  <2>3. Becomes(l, m)
    BY <2>1, <2>2 DEF Done
  <2>4. m.todo # <<>> =>
          /\ m.attempt = l.attempt /\ m.cont = l.cont /\ m.result = l.result
          /\ Successor(l, Head(l.todo), Head(m.todo))
          /\ Trailing(l) => Trailing(m)
          /\ Terminates(m) => Terminates(l)
    BY <2>2, Goings
  <2>5. Terminates(l) => l.result \notin {"completed", "cancelled"}
    BY DEF RowInv
  <2>6. CASE l.result = "aborted"
    <3>1. jobs[Run].status = "cancelled"
      BY <2>1, <2>6 DEF AbortInv
    <3>2. (\A x \in legs : Trailing(x)) /\ sweep.pc = "idle"
      BY <3>1, TicketIsFree
    <3>3. /\ row'.status \in Finished
          /\ row' = row \/ (row'.status = "cancelled" /\ row'.attempt = jobs[Run].attempt)
      BY <1>1, <1>5, <2>6, CancelIsWritten
    <3>4. \A x \in legs' : Trailing(x) /\ (Terminates(x) => x.result \notin Finished)
      BY <2>3, <2>4, <2>5, <3>2 DEF Becomes, RowInv, Finished
    <3>5. row'.attempt <= jobs[Run].attempt
      BY <1>1, <3>3, TypeFacts
    <3>6. cont => row'.status # "completed"
      BY <3>1, <3>3 DEF RowInv
    <3>7. QED
      BY <2>1, <3>2, <3>3, <3>4, <3>5, <3>6 DEF RowInv, LegQuiet, Finished
  <2>7. CASE l.result # "aborted"
    <3>1. ~Trailing(l) /\ l.result # "none"
      <4>1. WellOrdered(l) /\ Head(l.todo) = l.todo[1] /\ 1 \in 1 .. Len(l.todo)
        BY TypeFacts
      <4>2. QED
        BY <2>1, <2>7, <4>1 DEF Trailing, WellOrdered
    <3>2. LegRow(l) /\ l.attempt = jobs[Run].attempt
      BY <3>1, OneLeg DEF RowInv
    <3>3. Persist(l.attempt, "error", row.floor)
      BY <1>5, <2>7 DEF PersistError
    <3>4. /\ row' = row \/ (row'.status = "error" /\ row'.attempt = l.attempt)
          /\ RowFinal
      BY <1>1, <3>3, PersistOutcome DEF RowFinal
    <3>5. row'.attempt <= l.attempt
      BY <1>1, <3>2, <3>4 DEF LegRow
    <3>6. /\ l.result = "completed" => row'.status = "completed"
          /\ l.result # "completed" => row'.status # "completed"
          /\ l.result = "cancelled" => row'.status = "cancelled"
      BY <2>7, <3>1, <3>2, <3>4 DEF LegRow, Finished, RowFinal
    <3>7. ASSUME m.todo # <<>>
          PROVE  LegRow(m)'
      <4>1. Head(m.todo) \in {"persist", "settle", "terminate", "honor"}
        BY <2>1, <2>4, <3>7 DEF Successor
      <4>2. QED
        BY <2>1, <2>4, <2>7, <3>1, <3>2, <3>5, <3>6, <3>7, <4>1 DEF LegRow, LegQuiet
    <3>8. m.todo # <<>> => (m.result # "aborted" /\ (Terminates(m) => m.result \notin {"completed", "cancelled"}))
      BY <2>4, <2>5, <2>7
    <3>9. row'.attempt <= jobs[Run].attempt
      BY <3>2, <3>5
    <3>10. QED
      BY <2>1, <2>3, <3>1, <3>4, <3>7, <3>8, <3>9, LegKeepsRow
  <2>8. QED
    BY <2>6, <2>7
<1>6. ASSUME Publish(l) \/ Tell(l) PROVE RowInv'
  <2>1. UNCHANGED <<jobs, row>> /\ LegQuiet /\ Head(l.todo) \in {"exec", "tell"}
    BY <1>6, EventTaken
  <2>2. RowFinal /\ row'.attempt <= jobs[Run].attempt
    BY <1>1, <2>1 DEF RowFinal
  <2>3. CASE Current(l.attempt)
    <3>1. PICK m \in Leg : Becomes(l, m) /\ Adding(l, m)
      BY <1>6, <2>3, EventTaken
    <3>2. /\ Head(m.todo) = "append" /\ m.attempt = l.attempt /\ m.cont = l.cont
          /\ m.result = l.result /\ (Terminates(m) => Terminates(l))
      BY <3>1 DEF Adding
    <3>3. ~Trailing(l)
      <4>1. WellOrdered(l)
        BY TypeFacts
      <4>2. QED
        BY <2>1, <4>1 DEF Trailing
    <3>4. LegRow(l) /\ (Terminates(l) => l.result \notin {"completed", "cancelled"})
      BY <3>3 DEF RowInv
    <3>5. l.result = "none" => Head(l.todo) = "exec"
      <4>1. WellOrdered(l) /\ Head(l.todo) = l.todo[1] /\ 1 \in 1 .. Len(l.todo)
        BY TypeFacts
      <4>2. QED
        BY <2>1, <4>1 DEF WellOrdered
    <3>6. LegRow(m)'
      BY <2>1, <3>2, <3>4, <3>5 DEF LegRow, LegQuiet
    <3>7. QED
      BY <2>1, <2>2, <3>1, <3>2, <3>4, <3>6, LegKeepsRow
  <2>4. CASE ~Current(l.attempt)
    <3>1. CASE legs' = legs
      BY <2>1, <3>1 DEF RowInv, LegRow, LegQuiet
    <3>2. CASE Head(l.todo) = "tell" /\ Done(l)
      BY <2>1, <3>2, DoneKeepsRow
    <3>3. QED
      BY <1>6, <2>4, <3>1, <3>2, EventTaken
  <2>5. QED
    BY <2>3, <2>4
<1>7. QED
  BY <1>3, <1>4, <1>5, <1>6

LEMMA SettleKeepsRow ==
  ASSUME TypeInv, LeaseInv, RowInv, NEW l \in legs, Settle(l)
  PROVE  RowInv'
<1>1. /\ LegQuiet /\ row' = row /\ Head(l.todo) = "settle" /\ Run \in Job /\ l \in Leg
      /\ jobs \in [Job -> Ticket] /\ jobs[Run] \in Ticket
  BY TypeFacts DEF Settle, On, StoreTypeOK
<1>2. ~Trailing(l)
  BY <1>1 DEF Trailing
<1>3. /\ OwnsLease(l.worker, Run, l.attempt) /\ sweep.pc = "idle"
      /\ \A m \in legs : m # l => Trailing(m)
  BY <1>2, OneLeg DEF LeaseInv, Leased
<1>4. Done(l)
  BY <1>3 DEF Settle
<1>5. PICK m : m = [l EXCEPT !.todo = Tail(@)]
  OBVIOUS
<1>6. m.todo # <<>> =>
        /\ Trailing(m) /\ m.result = l.result /\ (Terminates(m) => Terminates(l))
        /\ m.result = "aborted" => Head(m.todo) # "terminate"
  <2>1. m.todo # <<>> =>
          Trailing(m) /\ m.result = l.result /\ (Terminates(m) => Terminates(l))
    BY <1>1, <1>5, Goings
  <2>2. ASSUME l.result = "aborted"
        PROVE  Head(m.todo) = "persist"
    <3>1. l.todo \in Aborted
      BY <2>2, TypeFacts DEF WellOrdered
    <3>2. l.todo = <<"settle", "persist", "terminate">>
      BY <1>1, <3>1 DEF Aborted
    <3>3. m.todo = Tail(l.todo)
      BY <1>1, <1>5 DEF Leg
    <3>4. QED
      BY <3>2, <3>3
  <2>3. QED
    BY <2>1, <2>2
<1>7. \A x \in legs' : /\ Trailing(x)
                       /\ Terminates(x) => x.result \notin {"completed", "cancelled"}
                       /\ x.result = "aborted" /\ Head(x.todo) = "terminate" =>
                            row.status \in Finished
  BY <1>3, <1>4, <1>5, <1>6 DEF Done, Becomes, RowInv
<1>8. /\ l.result \notin {"none", "completed"} /\ cont => row.status # "completed"
      /\ l.result = "none" => row.status \in Finished
  BY <1>1, <1>2 DEF RowInv, LegRow
<1>9. /\ jobs'[Run].attempt = jobs[Run].attempt
      /\ cont /\ jobs'[Run].status # "completed" => row.status # "completed"
  <2>1. ASSUME NEW s, CompleteJob(l.worker, Run, l.attempt, s)
        PROVE  jobs'[Run].attempt = jobs[Run].attempt /\ jobs'[Run].status = s
    <3>1. jobs'[Run] = Settled(Run, s)
      BY <1>1, <2>1 DEF CompleteJob
    <3>2. QED
      BY <1>1, <3>1 DEF Settled, Ticket
  <2>2. ASSUME RetryOrFailJob(l.worker, Run, l.attempt, TRUE)
        PROVE  jobs'[Run].attempt = jobs[Run].attempt
    <3>1. jobs'[Run] = IF jobs[Run].attempt < jobs[Run].maxAttempts
                       THEN [Settled(Run, "queued") EXCEPT !.due = TRUE]
                       ELSE Settled(Run, "failed")
      BY <1>1, <2>2 DEF RetryOrFailJob
    <3>2. QED
      BY <1>1, <3>1 DEF Settled, Ticket
  <2>3. CASE l.result \in {"completed", "unseen"}
    <3>1. CompleteJob(l.worker, Run, l.attempt, "completed")
      BY <1>3, <2>3 DEF Settle
    <3>2. QED
      BY <2>1, <3>1
  <2>4. CASE l.result = "none"
    <3>1. CompleteJob(l.worker, Run, l.attempt, row.status)
      BY <1>3, <2>4 DEF Settle
    <3>2. QED
      BY <2>1, <3>1
  <2>5. ASSUME NEW s, l.result \notin {"none", "completed"},
               CompleteJob(l.worker, Run, l.attempt, s)
        PROVE  /\ jobs'[Run].attempt = jobs[Run].attempt
               /\ cont => row.status # "completed"
    BY <1>8, <2>1, <2>5
  <2>6. CASE l.result = "paused"
    <3>1. CompleteJob(l.worker, Run, l.attempt, "paused")
      BY <1>3, <2>6 DEF Settle
    <3>2. QED
      BY <2>5, <2>6, <3>1
  <2>7. CASE l.result \in {"cancelled", "aborted"}
    <3>1. CompleteJob(l.worker, Run, l.attempt, "cancelled")
      BY <1>3, <2>7 DEF Settle
    <3>2. QED
      BY <2>5, <2>7, <3>1
  <2>8. CASE l.result = "permanent"
    <3>1. CompleteJob(l.worker, Run, l.attempt, "failed")
      BY <1>3, <2>8 DEF Settle
    <3>2. QED
      BY <2>5, <2>8, <3>1
  <2>9. CASE l.result \notin {"completed", "unseen", "none", "paused", "cancelled",
                              "aborted", "permanent"}
    <3>1. RetryOrFailJob(l.worker, Run, l.attempt, TRUE)
      BY <1>3, <2>9 DEF Settle
    <3>2. QED
      BY <1>8, <2>2, <2>9, <3>1
  <2>10. QED
    BY <2>3, <2>4, <2>6, <2>7, <2>8, <2>9
<1>10. sweep' = sweep /\ cont' = cont
  BY <1>1 DEF LegQuiet
<1>11. QED
  BY <1>1, <1>3, <1>7, <1>9, <1>10 DEF RowInv

LEMMA ClaimKeepsRow ==
  ASSUME TypeInv, LeaseInv, RowInv, NEW w \in Worker, Claim(w)
  PROVE  RowInv'
<1>1. /\ ClaimJob(w, Run) /\ UNCHANGED <<row, cont, sweep>> /\ Run \in Job
      /\ jobs \in [Job -> Ticket] /\ jobs[Run] \in Ticket /\ row \in Row
  BY TypeFacts DEF Claim, StoreTypeOK
<1>2. jobs[Run].status = "queued" \/ Reclaimable(Run)
  BY <1>1 DEF ClaimJob, Candidate
<1>3. (\A l \in legs : Trailing(l)) /\ sweep.pc = "idle"
  BY <1>2, TicketIsFree DEF Reclaimable
<1>4. jobs'[Run].status = "running" /\ jobs'[Run].attempt = jobs[Run].attempt + 1
  BY <1>1 DEF ClaimJob, Claimed, Ticket
<1>5. PICK n \in Leg :
        /\ legs' = legs \cup {n}
        /\ n.attempt = jobs[Run].attempt + 1 /\ n.cont = cont /\ n.result = "none"
        /\ Head(n.todo) = "stamp"
  BY ClaimedInOrder
<1>6. jobs[Run].attempt \in Nat /\ jobs[Run].maxAttempts \in Nat /\ row.attempt \in Nat
      /\ row.attempt <= jobs[Run].attempt
  BY <1>1 DEF Ticket, Row, RowInv
<1>7. cont => jobs[Run].status = "queued"
  BY <1>2, <1>6 DEF LeaseInv, Reclaimable
<1>8. cont => row.status # "completed"
  BY <1>7 DEF RowInv
<1>9. LegRow(n)'
  BY <1>1, <1>5, <1>6, <1>8 DEF LegRow
<1>10. \A x \in legs' : Trailing(x) \/ x = n
  BY <1>3, <1>5
<1>11. \A x \in legs' : /\ Terminates(x) => x.result \notin {"completed", "cancelled"}
                        /\ x.result = "aborted" /\ Head(x.todo) = "terminate" =>
                             row.status \in Finished
  BY <1>5 DEF RowInv
<1>12. row'.attempt <= jobs'[Run].attempt
  BY <1>1, <1>4, <1>6
<1>13. QED
  BY <1>1, <1>3, <1>4, <1>9, <1>10, <1>11, <1>12 DEF RowInv

LEMMA SweepKeepsRow ==
  ASSUME TypeInv, LeaseInv, RowInv
  PROVE  /\ \A w \in Worker : Acquire(w) => RowInv'
         /\ Sweep => RowInv'
<1>1. /\ Run \in Job /\ jobs \in [Job -> Ticket] /\ jobs[Run] \in Ticket
      /\ jobs[Run].attempt \in Nat /\ row \in Row /\ row.attempt \in Nat
      /\ row.floor \in Nat /\ sweep.attempt \in Nat
      /\ sweep \in [pc : {"idle", "reconcile", "deface", "fail", "completed", "paused",
                          "cancelled", "failed"},
                    worker : Worker \cup {Nobody}, attempt : Nat, refused : BOOLEAN]
  BY TypeFacts DEF StoreTypeOK, Row, TypeInv, TypeOK
<1>2. ASSUME NEW w \in Worker, Acquire(w) PROVE RowInv'
  <2>1. /\ AcquireSweep(w, Run) /\ row' = row /\ SweepQuiet
        /\ sweep' = [pc |-> "reconcile", worker |-> w, attempt |-> jobs[Run].attempt,
                     refused |-> FALSE]
    BY <1>2 DEF Acquire, NoSweep
  <2>2. \A l \in legs : Trailing(l)
    BY <2>1, TicketIsFree DEF AcquireSweep, Sweepable
  <2>3. jobs'[Run].status = "running" /\ jobs'[Run].attempt = jobs[Run].attempt
    BY <1>1, <2>1 DEF AcquireSweep, Sweepable, Ticket
  <2>4. legs' = legs /\ sweep'.pc = "reconcile"
    BY <2>1 DEF SweepQuiet
  <2>5. QED
    BY <2>1, <2>2, <2>3, <2>4 DEF RowInv
<1>3. sweep.pc # "idle" =>
        /\ \A l \in legs : Trailing(l)
        /\ sweep.attempt = jobs[Run].attempt /\ jobs[Run].status = "running"
        /\ jobs[Run].lockedBy = sweep.worker
  BY DEF LeaseInv, Leased, OwnsLease
<1>4. ASSUME Reconcile PROVE RowInv'
  <2>1. sweep.pc # "idle" /\ UNCHANGED <<jobs, row>> /\ legs' = legs
    BY <1>4 DEF Reconcile, SweepQuiet
  <2>2. \/ row.status \in {"completed", "cancelled", "paused"} /\ sweep'.pc = row.status
        \/ sweep'.pc \in {"deface", "idle"}
    BY <1>1, <1>4 DEF Reconcile, Finished, Unreconciled, NoSweep
  <2>3. QED
    BY <1>3, <2>1, <2>2 DEF RowInv
<1>5. ASSUME Deface PROVE RowInv'
  <2>1. sweep.pc # "idle" /\ UNCHANGED jobs /\ legs' = legs
        /\ Persist(sweep.attempt, "error", row.floor)
    BY <1>5 DEF Deface, SweepQuiet
  <2>2. \/ sweep'.pc = "reconcile"
        \/ sweep'.pc = "fail" /\ ~Refused(sweep.attempt, "error")
    <3>1. row.attempt <= sweep.attempt
      BY <1>3, <2>1 DEF RowInv
    <3>2. CASE row.status \in Finished
      BY <1>1, <1>5, <3>1, <3>2 DEF Deface
    <3>3. CASE row.status \notin Finished
      BY <1>1, <1>5, <3>1, <3>3 DEF Deface, Refused
    <3>4. QED
      BY <3>2, <3>3
  <2>3. /\ row' = row \/ (row'.status = "error" /\ row'.attempt = sweep.attempt)
        /\ ~Refused(sweep.attempt, "error") => row'.status = "error"
        /\ RowFinal
    BY <1>1, <2>1, PersistOutcome DEF RowFinal
  <2>4. row'.attempt <= jobs[Run].attempt
    BY <1>1, <1>3, <2>1, <2>3 DEF RowInv
  <2>5. \A x \in legs : x.result = "aborted" /\ Head(x.todo) = "terminate" =>
                          row'.status \in Finished
    BY <2>3 DEF RowInv, RowFinal
  <2>6. QED
    BY <1>3, <2>1, <2>2, <2>3, <2>4, <2>5 DEF RowInv
<1>6. ASSUME TerminateSwept PROVE RowInv'
  <2>1. sweep.pc = "fail" /\ UNCHANGED <<jobs, row>> /\ legs' = legs
    BY <1>6 DEF TerminateSwept, SweepQuiet
  <2>2. sweep'.pc = "failed"
    BY <1>1, <1>6 DEF TerminateSwept
  <2>3. QED
    BY <1>3, <2>1, <2>2 DEF RowInv
<1>7. ASSUME SettleSwept PROVE RowInv'
  <2>1. /\ sweep.pc \in {"completed", "cancelled", "paused", "failed"} /\ SweepQuiet
        /\ row' = row
    BY <1>7 DEF SettleSwept
  <2>2. SettleSweptJob(sweep.worker, Run, sweep.pc) /\ sweep' = NoSweep
    BY <1>3, <1>7, <2>1 DEF SettleSwept
  <2>3. jobs'[Run] = Settled(Run, sweep.pc)
    BY <1>1, <2>2 DEF SettleSweptJob
  <2>4. jobs'[Run].status = sweep.pc /\ jobs'[Run].attempt = jobs[Run].attempt
    BY <1>1, <2>3 DEF Settled, Ticket
  <2>5. sweep.pc # "completed" => row.status # "completed"
    BY <2>1 DEF RowInv
  <2>6. legs' = legs /\ sweep'.pc = "idle"
    BY <2>1, <2>2 DEF SweepQuiet, NoSweep
  <2>7. QED
    BY <1>3, <2>1, <2>4, <2>5, <2>6 DEF RowInv
<1>8. QED
  BY <1>2, <1>4, <1>5, <1>6, <1>7 DEF Sweep

LEMMA DoorsKeepRow ==
  ASSUME TypeInv, LeaseInv, RowInv
  PROVE  /\ Enqueue \/ Cancel \/ Continue \/ Requeue => RowInv'
         /\ \A door \in owed : Pay(door) \/ DoorDies(door) => RowInv'
<1>1. /\ Run \in Job /\ jobs \in [Job -> Ticket] /\ jobs[Run] \in Ticket
      /\ jobs[Run].attempt \in Nat /\ row \in Row /\ row.floor \in Nat
      /\ row.attempt \in Nat
  BY TypeFacts DEF StoreTypeOK, Row
<1>2. ASSUME DoorQuiet, jobs[Run].status \in {"absent", "queued", "paused", "failed", "cancelled"},
             jobs'[Run].attempt = jobs[Run].attempt, RowFinal,
             row' = row \/ (row'.status = "cancelled" /\ row'.attempt <= jobs[Run].attempt),
             cont' => row'.status # "completed"
      PROVE  RowInv'
  <2>1. (\A l \in legs : Trailing(l)) /\ sweep.pc = "idle"
    BY <1>2, TicketIsFree
  <2>2. legs' = legs /\ sweep' = sweep
    BY <1>2 DEF DoorQuiet
  <2>3. \A x \in legs : /\ Terminates(x) => x.result \notin {"completed", "cancelled"}
                        /\ x.result = "aborted" /\ Head(x.todo) = "terminate" =>
                             row'.status \in Finished
    BY <1>2 DEF RowInv, RowFinal
  <2>4. row'.attempt <= jobs'[Run].attempt
    BY <1>2 DEF RowInv
  <2>5. QED
    BY <1>2, <2>1, <2>2, <2>3, <2>4 DEF RowInv
<1>3. ASSUME Enqueue PROVE RowInv'
  <2>1. PICK created \in Stamps : EnqueueJob(Run, created)
    BY <1>3 DEF Enqueue
  <2>2. jobs[Run].status = "absent" /\ jobs'[Run].attempt = 0
    BY <1>1, <2>1 DEF EnqueueJob, NoTicket
  <2>3. DoorQuiet /\ row' = row /\ cont' = cont
    BY <1>3 DEF Enqueue
  <2>4. QED
    BY <1>2, <2>2, <2>3 DEF LeaseInv, RowFinal
<1>4. ASSUME Cancel PROVE RowInv'
  <2>1. CancelJob(Run) /\ DoorQuiet /\ Persist(jobs[Run].attempt, "cancelled", row.floor)
    BY <1>4 DEF Cancel
  <2>2. jobs[Run].status \in {"queued", "paused"} /\ jobs'[Run].attempt = jobs[Run].attempt
    BY <1>1, <2>1 DEF CancelJob, Ticket
  <2>3. /\ row' = row \/ (row'.status = "cancelled" /\ row'.attempt = jobs[Run].attempt)
        /\ RowFinal
    BY <1>1, <2>1, PersistOutcome DEF RowFinal
  <2>4. cont' => row'.status # "completed"
    BY <1>4, <2>2, <2>3 DEF Cancel, RowInv
  <2>5. QED
    BY <1>1, <1>2, <2>1, <2>2, <2>3, <2>4
<1>5. ASSUME Continue PROVE RowInv'
  <2>1. ContinueJob(Run) /\ DoorQuiet /\ row' = row /\ row.status = "paused"
    BY <1>5 DEF Continue
  <2>2. jobs[Run].status = "paused" /\ jobs'[Run].attempt = jobs[Run].attempt
    BY <1>1, <2>1 DEF ContinueJob, Granted, Ticket
  <2>3. QED
    BY <1>2, <2>1, <2>2 DEF RowFinal
<1>6. ASSUME Requeue PROVE RowInv'
  <2>1. RequeueJob(Run) /\ DoorQuiet /\ row' = row /\ cont' = cont
    BY <1>6 DEF Requeue
  <2>2. jobs[Run].status \in {"failed", "cancelled"}
        /\ jobs'[Run].attempt = jobs[Run].attempt
    BY <1>1, <2>1 DEF RequeueJob, Granted, Ticket
  <2>3. QED
    BY <1>2, <2>1, <2>2 DEF RowInv, RowFinal
<1>7. ASSUME UNCHANGED <<jobs, row, cont>>, legs' = legs, sweep' = sweep
      PROVE  RowInv'
  BY <1>7 DEF RowInv, LegRow
<1>8. \A door \in owed : Pay(door) \/ DoorDies(door) => RowInv'
  BY <1>7 DEF Pay, DoorDies, DoorQuiet
<1>9. QED
  BY <1>3, <1>4, <1>5, <1>6, <1>8

LEMMA TimeKeepsRow ==
  ASSUME TypeInv, LeaseInv, RowInv
  PROVE  /\ Lapse => RowInv'
         /\ \A w \in Worker : Crash(w) => RowInv'
         /\ Expire => RowInv'
         /\ \A w \in Worker : StopsRefreshing(w) /\ Unchanged => RowInv'
         /\ \A c \in Client : (Attach(c) \/ TailStep(c)) /\ Unchanged => RowInv'
         /\ UNCHANGED vars => RowInv'
<1>1. /\ Run \in Job /\ jobs \in [Job -> Ticket] /\ jobs[Run] \in Ticket
  BY TypeFacts DEF StoreTypeOK
<1>2. ASSUME UNCHANGED <<jobs, row, cont>>, legs' \subseteq legs,
             sweep' = sweep \/ sweep' = NoSweep
      PROVE  RowInv'
  BY <1>2 DEF RowInv, LegRow, NoSweep
<1>3. ASSUME Lapse PROVE RowInv'
  <2>1. LeaseLapses(Run) /\ UNCHANGED <<row, cont, legs, sweep>>
    BY <1>3 DEF Lapse
  <2>2. jobs'[Run].attempt = jobs[Run].attempt /\ jobs'[Run].status = jobs[Run].status
    BY <1>1, <2>1 DEF LeaseLapses, Ticket
  <2>3. QED
    BY <2>1, <2>2 DEF RowInv, LegRow
<1>4. \A w \in Worker : Crash(w) => RowInv'
  BY <1>2 DEF Crash
<1>5. Expire => RowInv'
  BY <1>2 DEF Expire
<1>6. Unchanged => RowInv'
  BY <1>2 DEF Unchanged
<1>7. UNCHANGED vars => RowInv'
  BY <1>2 DEF vars
<1>8. QED
  BY <1>3, <1>4, <1>5, <1>6, <1>7

LEMMA InitAgrees == Init => RowInv
<1> SUFFICES ASSUME Init PROVE RowInv
  OBVIOUS
<1>1. /\ legs = {} /\ sweep = NoSweep /\ Run \in Job
      /\ row = [status |-> "pending", attempt |-> 0, floor |-> 0]
  BY RunAssumption DEF Init
<1>2. jobs[Run] = NoTicket("absent")
  BY <1>1 DEF Init, StoreInit
<1>3. QED
  BY <1>1, <1>2 DEF RowInv, NoSweep, NoTicket

LEMMA NextKeepsRow ==
  ASSUME TypeInv, LeaseInv, AbortInv, RowInv, [Next]_vars
  PROVE  RowInv'
  BY ClaimKeepsRow, SweepKeepsRow, StampKeepsRow, AbortKeepsRow, StreamStepsKeepRow,
     ExecutionKeepsRow, SettleKeepsRow, DoorsKeepRow, TimeKeepsRow DEF Next, Execute

-----------------------------------------------------------------------------
(* The ticket of a leg that the user's cancel ended *)

\* The leg has written its ticket and not its row.
Unwritten(l) == l.result = "aborted" /\ Head(l.todo) = "persist"

LEMMA AbortStays ==
  ASSUME AbortInv, jobs' = jobs \/ jobs[Run].status # "cancelled",
         \A x \in legs' : x \in legs \/ ~Unwritten(x)
  PROVE  AbortInv'
  BY DEF AbortInv, Unwritten

LEMMA DoneKeepsAbort ==
  ASSUME TypeInv, AbortInv, NEW l \in legs, Done(l), jobs' = jobs, Head(l.todo) # "settle"
  PROVE  AbortInv'
<1>1. l \in Leg /\ (l.result = "aborted" => l.todo \in Aborted)
  BY TypeFacts DEF WellOrdered
<1>2. PICK m : m = [l EXCEPT !.todo = Tail(@)]
  OBVIOUS
<1>3. m.todo = Tail(l.todo) /\ m.result = l.result
  BY <1>1, <1>2 DEF Leg
<1>4. m.todo # <<>> => ~Unwritten(m)
  <2>1. /\ Head(<<"settle", "persist", "terminate">>) = "settle"
        /\ Head(<<"terminate">>) = "terminate"
        /\ Tail(<<"close", "settle", "persist", "terminate">>) =
             <<"settle", "persist", "terminate">>
        /\ Tail(<<"persist", "terminate">>) = <<"terminate">>
        /\ Tail(<<"terminate">>) = <<>>
    OBVIOUS
  <2>2. QED
    BY <1>1, <1>3, <2>1 DEF Unwritten, Aborted
<1>5. \A x \in legs' : x \in legs \/ (x = m /\ m.todo # <<>>)
  BY <1>2 DEF Done, Becomes
<1>6. QED
  BY <1>4, <1>5, AbortStays

LEMMA LegStepsKeepAbort ==
  ASSUME TypeInv, LeaseInv, AbortInv, NEW l \in legs, Execute(l) \/ Publish(l)
  PROVE  AbortInv'
<1>1. l \in Leg
  BY TypeFacts
<1>2. ASSUME NEW m, Becomes(l, m), ~Unwritten(m), jobs' = jobs
      PROVE  AbortInv'
  BY <1>2, AbortStays DEF Becomes
<1>3. ASSUME Stamp(l) PROVE AbortInv'
  <2>1. jobs' = jobs /\ Head(l.todo) = "stamp"
    BY <1>3 DEF Stamp, On
  <2>2. CASE Becomes(l, [l EXCEPT !.todo = <<"settle", "honor">>, !.result = "none"])
    <3>1. PICK m : m = [l EXCEPT !.todo = <<"settle", "honor">>, !.result = "none"]
      OBVIOUS
    <3>2. m.result = "none"
      BY <1>1, <3>1 DEF Leg
    <3>3. QED
      BY <1>2, <2>1, <2>2, <3>1, <3>2 DEF Unwritten
  <2>3. QED
    BY <1>3, <2>1, <2>2, DoneKeepsAbort DEF Stamp
<1>4. ASSUME Abort(l) PROVE AbortInv'
  <2>1. PICK m : m = Interrupted(l)
    OBVIOUS
  <2>2. Becomes(l, m) /\ jobs' = jobs /\ "aborted" \in Endings
    BY <1>4, <2>1 DEF Abort, Interrupted
  <2>3. Head(m.todo) = "settle"
    BY <1>1, <2>1, <2>2, InterruptedInOrder
  <2>4. QED
    BY <1>2, <2>2, <2>3 DEF Unwritten
<1>5. ASSUME Honor(l) \/ Begin(l) \/ Reset(l) \/ Reopen(l) \/ Start(l) \/ AppendTaken(l)
             \/ Close(l) \/ PersistError(l)
      PROVE  AbortInv'
  BY <1>5, DoneKeepsAbort DEF Honor, Begin, Reset, Reopen, Start, AppendTaken, Close,
     PersistError, On
<1>6. ASSUME Publish(l) \/ Tell(l) PROVE AbortInv'
  <2>1. jobs' = jobs /\ Head(l.todo) \in {"exec", "tell"}
    BY <1>6, EventTaken
  <2>2. CASE Current(l.attempt)
    <3>1. PICK m \in Leg : Becomes(l, m) /\ Adding(l, m)
      BY <1>6, <2>2, EventTaken
    <3>2. QED
      BY <1>2, <2>1, <3>1 DEF Adding, Unwritten
  <2>3. CASE ~Current(l.attempt)
    <3>1. legs' = legs \/ Done(l)
      BY <1>6, <2>3, EventTaken
    <3>2. QED
      BY <2>1, <3>1, DoneKeepsAbort, AbortStays
  <2>4. QED
    BY <2>2, <2>3
<1>7. ASSUME NEW result \in Results \ {"none"}, NEW told \in Telling(result),
             Becomes(l, Through(l, result, told)), jobs' = jobs
      PROVE  AbortInv'
  <2>1. PICK m : m = Through(l, result, told)
    OBVIOUS
  <2>2. ~Unwritten(m)
    BY <1>1, <2>1, EndingInOrder DEF Trailing, Unwritten
  <2>3. QED
    BY <1>2, <1>7, <2>1, <2>2
<1>8. ASSUME Enter(l) PROVE AbortInv'
  <2>1. jobs' = jobs /\ Head(l.todo) = "enter"
    BY <1>8 DEF Enter, On
  <2>2. CASE row.status = "cancelled"
    <3>1. Becomes(l, Through(l, "permanent", <<>>))
      BY <1>1, <1>8, <2>2, RefusedEntry
    <3>2. "permanent" \in Results \ {"none"} /\ <<>> \in Telling("permanent")
      BY DEF Results, Telling
    <3>3. QED
      BY <1>7, <2>1, <3>1, <3>2
  <2>3. CASE row.status # "cancelled"
    BY <1>8, <2>1, <2>3, DoneKeepsAbort DEF Enter
  <2>4. QED
    BY <2>2, <2>3
<1>9. ASSUME NEW result \in Endings, Finish(l, result) PROVE AbortInv'
  <2>1. jobs' = jobs
    BY <1>9 DEF Finish
  <2>2. PICK told \in Telling(result) : Becomes(l, Through(l, result, told))
    BY <1>1, <1>9, FinishedLeg
  <2>3. result \in Results \ {"none"}
    BY EndingsAssumption DEF Results, Returned
  <2>4. QED
    BY <1>7, <2>1, <2>2, <2>3
<1>10. ASSUME Settle(l) PROVE AbortInv'
  <2>1. /\ Head(l.todo) = "settle" /\ Run \in Job /\ jobs \in [Job -> Ticket]
        /\ jobs[Run] \in Ticket
    BY <1>10, TypeFacts DEF Settle, On, StoreTypeOK
  <2>2. OwnsLease(l.worker, Run, l.attempt) /\ jobs[Run].status = "running"
        /\ l.attempt = jobs[Run].attempt
    BY <2>1, OneLeg DEF LeaseInv, Leased, Trailing
  <2>3. Done(l)
    BY <1>10, <2>2 DEF Settle
  <2>4. \A x \in legs : ~Unwritten(x)
    BY <2>2 DEF AbortInv, Unwritten
  <2>5. PICK m : m = [l EXCEPT !.todo = Tail(@)]
    OBVIOUS
  <2>6. m.result = l.result /\ m.attempt = l.attempt
    BY <1>1, <2>5 DEF Leg
  <2>7. ASSUME l.result = "aborted"
        PROVE  jobs'[Run].status = "cancelled" /\ jobs'[Run].attempt = l.attempt
    <3>1. CompleteJob(l.worker, Run, l.attempt, "cancelled")
      BY <1>10, <2>2, <2>7 DEF Settle
    <3>2. jobs'[Run] = Settled(Run, "cancelled")
      BY <2>1, <3>1 DEF CompleteJob
    <3>3. QED
      BY <2>1, <2>2, <3>2 DEF Settled, Ticket
  <2>8. \A x \in legs' : x \in legs \/ x = m
    BY <2>3, <2>5 DEF Done, Becomes
  <2>9. QED
    BY <2>4, <2>6, <2>7, <2>8 DEF AbortInv, Unwritten
<1>11. QED
  BY <1>3, <1>4, <1>5, <1>6, <1>8, <1>9, <1>10 DEF Execute

LEMMA InitAborts == Init => AbortInv
  BY DEF Init, AbortInv

LEMMA NextKeepsAbort ==
  ASSUME "lostEnd" \notin Env, TypeInv, LeaseInv, AbortInv, [Next]_vars
  PROVE  AbortInv'
<1>1. ASSUME legs' \subseteq legs, jobs' = jobs \/ jobs[Run].status # "cancelled"
      PROVE  AbortInv'
  BY <1>1, AbortStays
<1>2. ASSUME NEW w \in Worker, Claim(w) PROVE AbortInv'
  <2>1. PICK n \in Leg : legs' = legs \cup {n} /\ n.result = "none"
    BY <1>2, ClaimedInOrder
  <2>2. jobs[Run].status # "cancelled"
    BY <1>2 DEF Claim, ClaimJob, Candidate, Reclaimable
  <2>3. QED
    BY <2>1, <2>2, AbortStays DEF Unwritten
<1>3. ASSUME NEW w \in Worker, Acquire(w) PROVE AbortInv'
  BY <1>1, <1>3 DEF Acquire, AcquireSweep, Sweepable, SweepQuiet
<1>4. ASSUME Sweep PROVE AbortInv'
  BY <1>1, <1>4 DEF Sweep, Reconcile, Deface, TerminateSwept, SettleSwept, SettleSweptJob,
     SweepQuiet
<1>5. ASSUME Enqueue \/ Cancel \/ Continue PROVE AbortInv'
  BY <1>1, <1>5 DEF Enqueue, EnqueueJob, Cancel, CancelJob, Continue, ContinueJob, DoorQuiet
<1>6. ASSUME Requeue PROVE AbortInv'
  BY <1>6 DEF Requeue, DoorQuiet, Aborting, AbortInv
<1>7. ASSUME NEW door \in owed, Pay(door) \/ DoorDies(door) PROVE AbortInv'
  BY <1>1, <1>7 DEF Pay, DoorDies, DoorQuiet
<1>8. ASSUME Lapse PROVE AbortInv'
  BY <1>1, <1>8 DEF Lapse, LeaseLapses
<1>9. ASSUME \/ \E w \in Worker : Crash(w)
             \/ \E w \in Worker : StopsRefreshing(w) /\ Unchanged
             \/ Expire
             \/ \E c \in Client : (Attach(c) \/ TailStep(c)) /\ Unchanged
             \/ UNCHANGED vars
      PROVE  AbortInv'
  BY <1>1, <1>9 DEF Crash, Unchanged, Expire, vars
<1>10. QED
  BY <1>2, <1>3, <1>4, <1>5, <1>6, <1>7, <1>8, <1>9, LegStepsKeepAbort DEF Next

-----------------------------------------------------------------------------
(* The stream in front of a live leg *)

\* Nothing is promised for a leg that is past its component.
LEMMA PastLegs ==
  ASSUME NEW x, Head(x.todo) \in {"close", "persist", "settle", "terminate", "honor"}
  PROVE  OpenLeg(x) /\ OpenLeg(x)'
  BY DEF OpenLeg, Executing

LEMMA TrailingIsPast ==
  ASSUME NEW x, Trailing(x)
  PROVE  OpenLeg(x) /\ OpenLeg(x)'
<1>1. Head(x.todo) \in {"close", "persist", "settle", "terminate", "honor"}
  BY DEF Trailing
<1>2. QED
  BY <1>1, PastLegs

\* What excuses a sentinel stays: the leg that the user's cancel ended goes on until
\* the row says so.
LEMMA LegExcuses ==
  ASSUME RowFinal, NEW l \in legs, NEW m, Becomes(l, m),
         Cancelling(l) => (m.todo # <<>> /\ Cancelling(m)) \/ row'.status \in Finished
  PROVE  Excused => Excused'
  BY DEF Excused, Becomes, RowFinal

LEMMA DoneExcuses ==
  ASSUME TypeInv, RowFinal, NEW l \in legs, Done(l),
         Head(l.todo) = "persist" /\ l.result = "aborted" => row'.status \in Finished
  PROVE  Excused => Excused'
<1>1. l \in Leg /\ (l.result = "aborted" => l.todo \in Aborted)
  BY TypeFacts DEF WellOrdered
<1>2. PICK m : m = [l EXCEPT !.todo = Tail(@)]
  OBVIOUS
<1>3. m.todo = Tail(l.todo) /\ m.result = l.result
  BY <1>1, <1>2 DEF Leg
<1>4. ASSUME l.result = "aborted", Head(l.todo) = "settle"
      PROVE  m.todo # <<>> /\ Cancelling(m)
  <2>1. l.todo = <<"settle", "persist", "terminate">>
    BY <1>1, <1>4 DEF Aborted
  <2>2. m.todo = <<"persist", "terminate">>
    BY <1>3, <2>1
  <2>3. m.todo # <<>> /\ Head(m.todo) = "persist"
    BY <2>2
  <2>4. QED
    BY <1>3, <1>4, <2>3 DEF Cancelling
<1>5. Becomes(l, m)
  BY <1>2 DEF Done
<1>6. QED
  BY <1>4, <1>5, LegExcuses DEF Cancelling

LEMMA LegsExcuse ==
  ASSUME RowFinal, legs \subseteq legs'
  PROVE  Excused => Excused'
  BY DEF Excused, RowFinal

\* Where the stream stays as it is, it suffices to look at the legs that went on.
LEMMA StillOpen ==
  ASSUME TypeInv, OpenInv, UNCHANGED <<log, status>>, RowFinal, Excused => Excused'
  PROVE  /\ Quiet' <=> Quiet
         /\ \A x \in legs : OpenLeg(x)'
         /\ (\A x \in legs' : x \in legs \/ OpenLeg(x)') => OpenInv'
<1>1. Quiet' <=> Quiet
  BY DEF Quiet
<1>2. \A x \in legs : OpenLeg(x)'
  BY <1>1 DEF OpenInv, OpenLeg, RowFinal, Finished
<1>3. ~Quiet' => status' \in {"paused", "error"} \/ Excused'
  BY <1>1 DEF OpenInv
<1>4. status' = "completed" => row'.status = "completed"
  BY DEF OpenInv, RowFinal, Finished
<1>5. QED
  BY <1>1, <1>2, <1>3, <1>4 DEF OpenInv

\* An entry that is no sentinel, or one of a door, reopens the stream.
LEMMA EntryOpens ==
  ASSUME TypeInv, OrderInv, OpenInv, NEW e \in Entry, log' = Append(log, e),
         e.kind = "terminal" => e.gen = 0
  PROVE  /\ Quiet'
         /\ \A x \in legs : e.gen < x.attempt => OpenLeg(x)'
<1>1. /\ log \in Seq(Entry) /\ Len(log) \in Nat /\ gen \in Nat
      /\ Len(log') = Len(log) + 1 /\ log'[Len(log) + 1] = e
      /\ \A i \in 1 .. Len(log) : log'[i] = log[i]
      /\ \A i \in 1 .. Len(log') : i \in 1 .. Len(log) \/ i = Len(log) + 1
  BY TypeFacts, Appended
<1>2. Quiet'
  BY <1>1 DEF Quiet
<1>3. ASSUME NEW x \in legs, e.gen < x.attempt,
             Head(x.todo) \in {"stamp", "begin", "reset", "reopen"},
             NEW i \in 1 .. Len(log')
      PROVE  log'[i].gen < x.attempt
  <2>1. i \in 1 .. Len(log) => log[i].gen < x.attempt
    BY <1>3 DEF OpenInv, OpenLeg
  <2>2. QED
    BY <1>1, <1>3, <2>1
<1>4. QED
  BY <1>2, <1>3 DEF OpenLeg

\* A sentinel in step with the row closes no leg that lives: it is refused, or older
\* than the leg, which has yet to clear the stream or to reopen it.
LEMMA SentinelKeepsOpen ==
  ASSUME TypeInv, OrderInv, OpenInv, NEW p, NEW s, NEW g \in Nat, CompleteRun(p, s, g),
         row' = row, s = "completed" => row.status = "completed",
         s \notin {"paused", "error", "completed"} => Excused', Excused => Excused',
         \A x \in legs' : \/ x \in legs /\ (Trailing(x) \/ g < x.attempt)
                          \/ OpenLeg(x)'
  PROVE  OpenInv'
<1>1. CASE ~Current(g)
  <2>1. UNCHANGED <<log, status>> /\ RowFinal
    BY <1>1 DEF CompleteRun, keys, RowFinal
  <2>2. QED
    BY <2>1, StillOpen
<1>2. CASE Current(g)
  <2>1. PICK e : e = [kind |-> "terminal", idx |-> 0, gen |-> g]
    OBVIOUS
  <2>2. e \in Entry /\ e.gen = g /\ log' = Append(log, e) /\ status' = s /\ gen <= g
    BY <1>2, <2>1 DEF Entry, CompleteRun, Terminate, Put, Current
  <2>3. /\ log \in Seq(Entry) /\ Len(log) \in Nat /\ gen \in Nat
        /\ log'[Len(log) + 1] = e
        /\ \A i \in 1 .. Len(log) : log'[i] = log[i]
        /\ \A i \in 1 .. Len(log') : i \in 1 .. Len(log) \/ i = Len(log) + 1
    BY <2>2, TypeFacts, Appended
  <2>4. ASSUME NEW x \in legs, g < x.attempt
        PROVE  OpenLeg(x)'
    <3>1. x.attempt \in Nat /\ WriterInv(x) /\ OpenLeg(x)
      BY TypeFacts DEF OrderInv, OpenInv
    <3>2. Head(x.todo) \notin Executing \cup {"start", "enter", "reset", "reopen"}
      <4>1. ~(x.attempt <= gen)
        BY <2>2, <2>3, <2>4, <3>1
      <4>2. QED
        BY <3>1, <4>1 DEF WriterInv
    <3>3. ASSUME Head(x.todo) \in {"stamp", "begin"}, NEW i \in 1 .. Len(log')
          PROVE  log'[i].gen < x.attempt
      <4>1. i \in 1 .. Len(log) => log[i].gen < x.attempt
        BY <3>1, <3>3 DEF OpenLeg
      <4>2. QED
        BY <2>2, <2>3, <2>4, <3>3, <4>1
    <3>4. QED
      BY <3>2, <3>3 DEF OpenLeg
  <2>5. \A x \in legs' : OpenLeg(x)'
    BY <2>4, TrailingIsPast
  <2>6. /\ status' \in {"paused", "error"} \/ Excused'
        /\ status' = "completed" => row'.status = "completed"
    BY <2>2 DEF Finished, Excused
  <2>7. QED
    BY <2>5, <2>6 DEF OpenInv
<1>3. QED
  BY <1>1, <1>2

\* A leg goes on and the stream stays as it is.
LEMMA DoneStaysOpen ==
  ASSUME TypeInv, OrderInv, OpenInv, UNCHANGED <<log, status>>, RowFinal,
         NEW l \in legs, Done(l), Head(l.todo) \notin {"reset", "reopen"},
         Head(l.todo) = "start" /\ ~l.cont => Quiet,
         Head(l.todo) = "enter" => Quiet,
         Head(l.todo) = "persist" /\ l.result = "aborted" => row'.status \in Finished
  PROVE  OpenInv'
<1>a. Excused => Excused'
  BY DoneExcuses
<1>1. PICK m : m = [l EXCEPT !.todo = Tail(@)]
  OBVIOUS
<1>2. /\ l \in Leg /\ WellOrdered(l) /\ Head(l.todo) = l.todo[1] /\ 1 \in 1 .. Len(l.todo)
      /\ l.attempt \in Nat /\ OpenLeg(l) /\ log \in Seq(Entry)
  BY TypeFacts DEF OpenInv
<1>3. (Quiet' <=> Quiet) /\ OpenLeg(l)'
  BY <1>a, StillOpen
<1>4. ASSUME m.todo # <<>>
      PROVE  OpenLeg(m)'
  <2>1. /\ m.attempt = l.attempt /\ m.cont = l.cont
        /\ Successor(l, Head(l.todo), Head(m.todo))
    BY <1>1, <1>4, Goings
  <2>2. CASE Head(l.todo) = "stamp"
    <3>1. Head(m.todo) = "begin"
      BY <2>1, <2>2 DEF Successor
    <3>2. QED
      BY <1>3, <2>1, <2>2, <3>1 DEF OpenLeg, Executing
  <2>3. CASE Head(l.todo) = "begin"
    <3>1. \A i \in 1 .. Len(log) : log[i].gen < l.attempt
      BY <1>2, <2>3 DEF OpenLeg
    <3>2. CASE Head(m.todo) \in {"reset", "reopen"}
      BY <2>1, <3>1, <3>2 DEF OpenLeg, Executing
    <3>3. CASE Head(m.todo) = "start" /\ ~(l.attempt > 1)
      <4>1. Quiet
        <5>1. ASSUME Len(log) > 0
              PROVE  log[Len(log)].gen = 0
          <6>1. PICK n \in 1 .. Len(log) : n = Len(log)
            <7>1. Len(log) \in Nat
              BY <1>2
            <7>2. QED
              BY <5>1, <7>1
          <6>2. log[n] \in Entry
            BY <1>2
          <6>3. log[n].gen \in Nat /\ log[n].gen < l.attempt
            BY <3>1, <6>2 DEF Entry
          <6>4. log[n].gen = 0
            BY <1>2, <3>3, <6>3
          <6>5. QED
            BY <6>1, <6>4
        <5>2. QED
          BY <5>1 DEF Quiet
      <4>2. QED
        BY <1>3, <3>3, <4>1 DEF OpenLeg, Executing
    <3>4. QED
      BY <2>1, <2>3, <3>2, <3>3 DEF Successor
  <2>4. CASE Head(l.todo) = "start" /\ l.cont
    <3>1. Head(m.todo) = "enter"
      BY <2>1, <2>4 DEF Successor
    <3>2. QED
      BY <1>3, <2>4, <3>1 DEF OpenLeg, Executing
  <2>5. CASE (Head(l.todo) = "append" /\ l.result = "none") \/ Head(l.todo) = "enter"
              \/ (Head(l.todo) = "start" /\ ~l.cont)
    <3>1. Quiet'
      BY <1>2, <1>3, <2>5 DEF OpenLeg, Executing
    <3>2. Head(m.todo) = "exec"
      BY <2>1, <2>5 DEF Successor
    <3>3. QED
      BY <3>1, <3>2 DEF OpenLeg, Executing
  <2>6. CASE \/ Head(l.todo) \in {"close", "persist", "settle", "terminate", "tell"}
             \/ Head(l.todo) = "append" /\ l.result # "none"
    <3>1. Head(m.todo) \in {"close", "persist", "settle", "terminate", "honor"}
      BY <2>1, <2>6 DEF Successor
    <3>2. QED
      BY <3>1, PastLegs
  <2>7. QED
    BY <2>1, <2>2, <2>3, <2>4, <2>5, <2>6 DEF Successor
<1>5. \A x \in legs' : x \in legs \/ OpenLeg(x)'
  BY <1>1, <1>4 DEF Done, Becomes
<1>6. QED
  BY <1>a, <1>5, StillOpen

LEMMA QuietStepsStayOpen ==
  ASSUME TypeInv, OrderInv, LeaseInv, AbortInv, RowInv, OpenInv, NEW l \in legs, RowFinal
  PROVE  /\ Stamp(l) => OpenInv'
         /\ Abort(l) => OpenInv'
         /\ Begin(l) => OpenInv'
         /\ Enter(l) => OpenInv'
         /\ Publish(l) \/ Tell(l) => OpenInv'
         /\ \A result \in Endings : Finish(l, result) => OpenInv'
         /\ PersistError(l) => OpenInv'
         /\ Settle(l) => OpenInv'
<1>1. l \in Leg /\ OpenLeg(l)
  BY TypeFacts DEF OpenInv
<1>2. ASSUME UNCHANGED <<log, status>>, NEW m, Becomes(l, m),
             m.todo # <<>> => OpenLeg(m)', ~Cancelling(l)
      PROVE  OpenInv'
  <2>1. \A x \in legs' : x \in legs \/ OpenLeg(x)'
    BY <1>2 DEF Becomes
  <2>2. Excused => Excused'
    BY <1>2, LegExcuses
  <2>3. QED
    BY <1>2, <2>1, <2>2, StillOpen
<1>3. ASSUME UNCHANGED stream, NEW result \in Results \ {"none"}, NEW told \in Telling(result),
             Becomes(l, Through(l, result, told)), Quiet \/ told = <<>>,
             Head(l.todo) \in {"enter", "exec"}
      PROVE  OpenInv'
  <2>1. PICK m : m = Through(l, result, told)
    OBVIOUS
  <2>2. Head(m.todo) \in {"close", "persist", "settle"} \/ (Head(m.todo) = "tell" /\ Quiet)
    <3>1. CASE told = <<>>
      BY <1>1, <2>1, <3>1, EndingHead
    <3>2. CASE Quiet
      BY <1>1, <2>1, <3>2, EndingInOrder
    <3>3. QED
      BY <1>3, <3>1, <3>2
  <2>3. OpenLeg(m)'
    <3>1. CASE Head(m.todo) \in {"close", "persist", "settle"}
      BY <3>1, PastLegs
    <3>2. CASE Head(m.todo) = "tell" /\ Quiet
      <4>1. Quiet'
        BY <1>3, <3>2 DEF Quiet, stream, keys
      <4>2. QED
        BY <3>2, <4>1 DEF OpenLeg
    <3>3. QED
      BY <2>2, <3>1, <3>2
  <2>4. Becomes(l, m) /\ ~Cancelling(l)
    BY <1>3, <2>1 DEF Cancelling
  <2>5. QED
    BY <1>2, <1>3, <2>3, <2>4 DEF stream, keys
<1>4. ASSUME Stamp(l) PROVE OpenInv'
  <2>1. UNCHANGED <<log, status>> /\ Head(l.todo) = "stamp"
    BY <1>4 DEF Stamp, On, stream, keys
  <2>2. CASE Becomes(l, [l EXCEPT !.todo = <<"settle", "honor">>, !.result = "none"])
    <3>1. PICK m : m = [l EXCEPT !.todo = <<"settle", "honor">>, !.result = "none"]
      OBVIOUS
    <3>2. Head(m.todo) = "settle"
      BY <1>1, <3>1 DEF Leg
    <3>3. OpenLeg(m)'
      BY <3>2, PastLegs
    <3>4. Becomes(l, m) /\ ~Cancelling(l)
      BY <2>1, <2>2, <3>1 DEF Cancelling
    <3>5. QED
      BY <1>2, <2>1, <3>3, <3>4
  <2>3. QED
    BY <1>4, <2>1, <2>2, DoneStaysOpen DEF Stamp
<1>a. ASSUME Abort(l) PROVE OpenInv'
  <2>1. UNCHANGED <<log, status>> /\ Head(l.todo) = "stamp" /\ "aborted" \in Endings
    BY <1>a DEF Abort, On, stream, keys
  <2>2. PICK m : m = Interrupted(l)
    OBVIOUS
  <2>3. Becomes(l, m) /\ ~Cancelling(l)
    BY <1>a, <2>1, <2>2 DEF Abort, Interrupted, Cancelling
  <2>4. Head(m.todo) = "settle"
    BY <1>1, <2>1, <2>2, InterruptedInOrder
  <2>5. OpenLeg(m)'
    BY <2>4, PastLegs
  <2>6. QED
    BY <1>2, <2>1, <2>3, <2>5
<1>5. Begin(l) => OpenInv'
  BY DoneStaysOpen DEF Begin, On, BeginAttempt
<1>6. ASSUME Enter(l) PROVE OpenInv'
  <2>1. UNCHANGED stream /\ Head(l.todo) = "enter"
    BY <1>6 DEF Enter, On
  <2>2. CASE row.status = "cancelled"
    <3>1. Becomes(l, Through(l, "permanent", <<>>))
      BY <1>1, <1>6, <2>2, RefusedEntry
    <3>2. "permanent" \in Results \ {"none"} /\ <<>> \in Telling("permanent")
      BY DEF Results, Telling
    <3>3. QED
      BY <1>3, <2>1, <3>1, <3>2 DEF stream, keys
  <2>3. CASE row.status # "cancelled"
    <3>1. Quiet
      BY <1>1, <2>1, <2>3 DEF OpenLeg
    <3>2. QED
      BY <1>6, <2>1, <2>3, <3>1, DoneStaysOpen DEF Enter, stream, keys
  <2>4. QED
    BY <2>2, <2>3
<1>7. ASSUME Publish(l) \/ Tell(l) PROVE OpenInv'
  <2>1. UNCHANGED <<log, status>> /\ Head(l.todo) \in {"exec", "tell"}
    BY <1>7, EventTaken DEF TakeIndex, keys
  <2>2. Quiet /\ ~Cancelling(l)
    BY <1>1, <2>1 DEF OpenLeg, Executing, Cancelling
  <2>3. Quiet'
    BY <2>1, <2>2 DEF Quiet
  <2>4. CASE Current(l.attempt)
    <3>1. PICK m \in Leg : Becomes(l, m) /\ Adding(l, m)
      BY <1>7, <2>4, EventTaken
    <3>2. OpenLeg(m)'
      BY <2>3, <3>1 DEF OpenLeg, Adding
    <3>3. QED
      BY <1>2, <2>1, <2>2, <3>1, <3>2
  <2>5. CASE ~Current(l.attempt)
    <3>1. CASE legs' = legs
      <4>1. Excused => Excused'
        BY <3>1, LegsExcuse
      <4>2. QED
        BY <2>1, <3>1, <4>1, StillOpen
    <3>2. CASE Head(l.todo) = "tell" /\ Done(l)
      BY <2>1, <3>2, DoneStaysOpen
    <3>3. QED
      BY <1>7, <2>5, <3>1, <3>2, EventTaken
  <2>6. QED
    BY <2>4, <2>5
<1>8. ASSUME NEW result \in Endings, Finish(l, result) PROVE OpenInv'
  <2>1. UNCHANGED stream /\ Head(l.todo) = "exec"
    BY <1>8 DEF Finish, On
  <2>2. PICK told \in Telling(result) : Becomes(l, Through(l, result, told))
    BY <1>1, <1>8, FinishedLeg
  <2>3. result \in Results \ {"none"}
    BY EndingsAssumption DEF Results, Returned
  <2>4. Quiet
    BY <1>1, <2>1 DEF OpenLeg, Executing
  <2>5. QED
    BY <1>3, <2>1, <2>2, <2>3, <2>4
<1>9. ASSUME PersistError(l) PROVE OpenInv'
  <2>1. /\ UNCHANGED <<log, status>> /\ Head(l.todo) = "persist" /\ Done(l)
        /\ row.attempt <= jobs[Run].attempt
    BY <1>9 DEF PersistError, On, stream, keys, RowInv
  <2>2. l.result = "aborted" => row'.status \in Finished
    BY <1>9, <2>1, CancelIsWritten
  <2>3. QED
    BY <2>1, <2>2, DoneStaysOpen
<1>10. ASSUME Settle(l) PROVE OpenInv'
  <2>1. UNCHANGED <<log, status>> /\ Head(l.todo) = "settle"
    BY <1>10 DEF Settle, On, stream, keys
  <2>2. CASE Becomes(l, [l EXCEPT !.todo = <<>>]) /\ l.result = "drain"
    <3>1. PICK m : m = [l EXCEPT !.todo = <<>>]
      OBVIOUS
    <3>2. m.todo = <<>> /\ Becomes(l, m) /\ ~Cancelling(l)
      BY <1>1, <2>2, <3>1 DEF Leg, Cancelling
    <3>3. QED
      BY <1>2, <2>1, <3>2
  <2>3. QED
    BY <1>10, <2>1, <2>2, DoneStaysOpen DEF Settle
<1>11. QED
  BY <1>a, <1>4, <1>5, <1>6, <1>7, <1>8, <1>9, <1>10

\* The steps that write the stream.
LEMMA StreamStepsStayOpen ==
  ASSUME TypeInv, OrderInv, LeaseInv, AbortInv, RowInv, OpenInv, NEW l \in legs, RowFinal
  PROVE  /\ Honor(l) => OpenInv'
         /\ Reset(l) => OpenInv'
         /\ Reopen(l) => OpenInv'
         /\ Start(l) => OpenInv'
         /\ AppendTaken(l) => OpenInv'
         /\ Close(l) => OpenInv'
<1>1. /\ l \in Leg /\ LegInv(l) /\ WriterInv(l) /\ OpenLeg(l) /\ l.attempt \in Nat
      /\ l.idx \in Nat /\ gen \in Nat /\ log \in Seq(Entry) /\ row.floor \in Nat
      /\ WellOrdered(l) /\ Head(l.todo) = l.todo[1] /\ 1 \in 1 .. Len(l.todo)
      /\ gen <= jobs[Run].attempt
  BY TypeFacts DEF TypeInv, OrderInv, OpenInv, LeaseInv, Row
<1>2. PICK m : m = [l EXCEPT !.todo = Tail(@)]
  OBVIOUS
<1>3. ASSUME Done(l)
      PROVE  /\ \A x \in legs' : (x \in legs /\ x # l) \/ (x = m /\ m.todo # <<>>)
             /\ m.todo # <<>> => Successor(l, Head(l.todo), Head(m.todo))
  BY <1>2, <1>3, Goings DEF Done, Becomes
<1>4. \A x \in legs : x # l => Trailing(x) \/ l.attempt < x.attempt
  BY OneLeg
<1>5. \A x \in legs : x.attempt \in Nat /\ 0 < x.attempt
  BY TypeFacts DEF TypeInv, LegInv
<1>6. ASSUME Done(l), m.todo # <<>> => OpenLeg(m)',
             \A x \in legs : x # l => Trailing(x) \/ OpenLeg(x)',
             ~Quiet' => status' \in {"paused", "error"} \/ Excused',
             status' = "completed" => row'.status = "completed"
      PROVE  OpenInv'
  BY <1>3, <1>6, TrailingIsPast DEF OpenInv
<1>7. ASSUME NEW s, CompleteRun(l.worker, s, l.attempt), Done(l), row' = row,
             s = "completed" => row.status = "completed",
             s \notin {"paused", "error", "completed"} => Excused',
             Head(l.todo) \in {"close", "terminate", "honor"}
      PROVE  OpenInv'
  <2>1. ASSUME m.todo # <<>>
        PROVE  OpenLeg(m)'
    <3>1. Head(m.todo) \in {"persist", "settle", "terminate", "honor"}
      BY <1>3, <1>7, <2>1 DEF Successor
    <3>2. QED
      BY <3>1, PastLegs
  <2>2. \A x \in legs' : \/ x \in legs /\ (Trailing(x) \/ l.attempt < x.attempt)
                         \/ OpenLeg(x)'
    BY <1>3, <1>4, <1>7, <2>1
  <2>3. Excused => Excused'
    BY <1>7, DoneExcuses
  <2>4. QED
    BY <1>1, <1>7, <2>2, <2>3, SentinelKeepsOpen
<1>8. ASSUME Honor(l) PROVE OpenInv'
  <2>1. /\ Head(l.todo) = "honor" /\ Done(l) /\ row' = row
        /\ CompleteRun(l.worker, row.status, l.attempt)
    BY <1>8 DEF Honor, On
  <2>2. row.status \in Finished
    BY <1>1, <2>1 DEF LegInv
  <2>3. row.status \in {"completed", "cancelled"} /\ Excused'
    BY <2>1, <2>2 DEF Finished, Excused
  <2>4. QED
    BY <1>7, <2>1, <2>3
<1>9. ASSUME Close(l) PROVE OpenInv'
  <2>1. /\ Head(l.todo) \in {"close", "terminate"} /\ Done(l) /\ row' = row
        /\ CompleteRun(l.worker, Shown(l.result), l.attempt)
    BY <1>9 DEF Close, On
  <2>2. /\ l.result = "completed" => row.status = "completed"
        /\ l.result = "cancelled" => row.status = "cancelled"
    <3>1. CASE Trailing(l)
      <4>1. Head(l.todo) = "close" => l.result # "aborted"
        BY <3>1 DEF Trailing
      <4>2. Terminates(l)
        BY <2>1, <3>1, Goings DEF Trailing
      <4>3. QED
        BY <4>2 DEF RowInv
    <3>2. CASE ~Trailing(l)
      BY <2>1, <3>2 DEF RowInv, LegRow
    <3>3. QED
      BY <3>1, <3>2
  <2>3. l.result = "aborted" => Excused'
    <3>1. ASSUME l.result = "aborted", Head(l.todo) = "terminate"
          PROVE  row'.status \in Finished
      BY <2>1, <3>1 DEF RowInv
    <3>2. ASSUME l.result = "aborted", Head(l.todo) = "close"
          PROVE  m \in legs' /\ Cancelling(m)
      <4>1. l.todo \in Aborted
        BY <1>1, <3>2 DEF WellOrdered
      <4>2. l.todo = <<"close", "settle", "persist", "terminate">>
        BY <3>2, <4>1 DEF Aborted
      <4>3. m.todo = Tail(l.todo) /\ m.result = l.result
        BY <1>1, <1>2 DEF Leg
      <4>4. m.todo = <<"settle", "persist", "terminate">>
        BY <4>2, <4>3
      <4>5. m.todo # <<>> /\ Head(m.todo) = "settle"
        BY <4>4
      <4>6. QED
        BY <1>2, <2>1, <3>2, <4>3, <4>5 DEF Done, Becomes, Cancelling
    <3>3. QED
      BY <2>1, <3>1, <3>2 DEF Excused
  <2>4. /\ Shown(l.result) = "completed" => row.status = "completed"
        /\ Shown(l.result) \notin {"paused", "error", "completed"} => Excused'
    <3>1. Shown(l.result) = "completed" => l.result = "completed"
      BY DEF Shown
    <3>2. Shown(l.result) \notin {"paused", "error", "completed"} =>
            l.result \in {"cancelled", "aborted"}
      BY DEF Shown
    <3>3. l.result = "cancelled" => Excused'
      BY <2>1, <2>2 DEF Excused, Finished
    <3>4. QED
      BY <2>2, <2>3, <3>1, <3>2, <3>3
  <2>5. QED
    BY <1>7, <2>1, <2>4
<1>10. ASSUME Reset(l) PROVE OpenInv'
  <2>1. Head(l.todo) = "reset" /\ Done(l) /\ ResetRunEvents(l.attempt) /\ row' = row
    BY <1>10 DEF Reset, On
  <2>2. ~Trailing(l) /\ l.attempt <= gen
    BY <1>1, <2>1 DEF Trailing, WriterInv
  <2>3. l.attempt = jobs[Run].attempt
    BY <2>2, OneLeg
  <2>4. log' = <<>> /\ status' = status
    BY <1>1, <2>1, <2>2, <2>3 DEF ResetRunEvents, Current
  <2>5. Quiet'
    BY <2>4 DEF Quiet
  <2>6. ASSUME m.todo # <<>>
        PROVE  OpenLeg(m)'
    <3>1. Head(m.todo) = "start"
      BY <1>3, <2>1, <2>6 DEF Successor
    <3>2. QED
      BY <2>5, <3>1 DEF OpenLeg, Executing
  <2>7. \A x \in legs : x # l => Trailing(x)
    BY <2>2, OneLeg
  <2>8. status' = "completed" => row'.status = "completed"
    BY <2>1, <2>4 DEF OpenInv
  <2>9. QED
    BY <1>6, <2>1, <2>5, <2>6, <2>7, <2>8
<1>11. ASSUME Reopen(l) PROVE OpenInv'
  <2>1. PICK floor : floor = IF counter = 0 THEN row.floor ELSE 0
    OBVIOUS
  <2>2. /\ Head(l.todo) = "reopen" /\ Done(l) /\ row' = row
        /\ ReopenRun({"paused", "error"}, floor)
    BY <1>11, <2>1 DEF Reopen, On
  <2>3. ~Trailing(l)
    BY <2>2 DEF Trailing
  <2>4. l.cont /\ row.status # "completed"
    <3>1. l.cont
      BY <1>1, <2>2 DEF WellOrdered
    <3>2. QED
      BY <2>2, <2>3, <3>1 DEF RowInv, LegRow
  <2>5. \A x \in legs : x # l => Trailing(x)
    BY <2>3, OneLeg
  <2>6. /\ Quiet' \/ row.status = "cancelled"
        /\ status' = "completed" => row'.status = "completed"
    <3>1. CASE status \in {"none", "pending"} \cup {"paused", "error"}
      <4>1. PICK e \in Entry : e = [kind |-> "reopen", idx |-> 0, gen |-> 0]
        BY DEF Entry
      <4>2. log' = Append(log, e) /\ e.kind = "reopen" /\ status' = "pending"
        BY <2>2, <3>1, <4>1 DEF ReopenRun, Put
      <4>3. Quiet'
        BY <4>2, EntryOpens
      <4>4. QED
        BY <4>2, <4>3
    <3>2. CASE status \notin {"none", "pending"} \cup {"paused", "error"}
      <4>1. UNCHANGED <<log, status>>
        BY <2>2, <3>2 DEF ReopenRun, keys
      <4>2. status # "completed"
        BY <2>4 DEF OpenInv
      <4>a. \A x \in legs : ~Cancelling(x)
        <5>1. ASSUME NEW x \in legs, Cancelling(x)
              PROVE  FALSE
          <6>1. x # l /\ x.result = "aborted"
            BY <2>2, <5>1 DEF Cancelling
          <6>2. Trailing(x) /\ jobs[Run].status = "running"
            BY <2>3, <6>1, OneLeg
          <6>3. Head(x.todo) = "persist"
            BY <5>1, <6>2 DEF Cancelling, Trailing
          <6>4. QED
            BY <6>1, <6>2, <6>3 DEF AbortInv
        <5>2. QED
          BY <5>1
      <4>3. Quiet \/ row.status = "cancelled"
        BY <2>4, <3>2, <4>2, <4>a DEF OpenInv, Excused, Finished
      <4>4. QED
        BY <4>1, <4>2, <4>3 DEF Quiet
    <3>3. QED
      BY <3>1, <3>2
  <2>7. ASSUME m.todo # <<>>
        PROVE  OpenLeg(m)'
    <3>1. Head(m.todo) = "start"
      BY <1>3, <2>2, <2>7 DEF Successor
    <3>2. QED
      BY <2>2, <2>6, <3>1 DEF OpenLeg, Executing
  <2>8. Quiet' \/ Excused'
    BY <2>2, <2>6 DEF Excused, Finished
  <2>9. QED
    BY <1>6, <2>2, <2>5, <2>6, <2>7, <2>8
<1>12. ASSUME Start(l) PROVE OpenInv'
  <2>1. /\ Head(l.todo) = "start" /\ Done(l) /\ row' = row /\ log' = log
        /\ status' \in {"running", "pending", status}
    BY <1>12 DEF Start, On, StartRun, RegisterRun
  <2>2. ~Trailing(l)
    BY <2>1 DEF Trailing
  <2>3. \A x \in legs : x # l => Trailing(x)
    BY <2>2, OneLeg
  <2>4. (Quiet' <=> Quiet) /\ (Quiet \/ row.status = "cancelled")
    BY <1>1, <2>1 DEF Quiet, OpenLeg, Executing
  <2>5. status' = "completed" => row'.status = "completed"
    BY <2>1 DEF OpenInv
  <2>6. ASSUME m.todo # <<>>
        PROVE  OpenLeg(m)'
    <3>1. Head(m.todo) = IF l.cont THEN "enter" ELSE "exec"
      BY <1>3, <2>1, <2>6 DEF Successor
    <3>2. ~l.cont => row.status \notin Finished
      BY <2>1, <2>2 DEF RowInv, LegRow
    <3>3. QED
      BY <2>1, <2>4, <3>1, <3>2 DEF OpenLeg, Executing, Finished
  <2>7. Quiet' \/ Excused'
    BY <2>1, <2>4 DEF Excused, Finished
  <2>8. QED
    BY <1>6, <2>1, <2>3, <2>5, <2>6, <2>7
<1>13. ASSUME AppendTaken(l) PROVE OpenInv'
  <2>1. /\ Head(l.todo) = "append" /\ Done(l) /\ row' = row /\ status' = status
        /\ AppendEvent(l.attempt, l.idx)
    BY <1>13 DEF AppendTaken, On, AppendEvent
  <2>2. ~Trailing(l)
    BY <2>1 DEF Trailing
  <2>3. \A x \in legs : x # l => Trailing(x)
    BY <2>2, OneLeg
  <2>4. Quiet'
    <3>1. CASE Current(l.attempt)
      <4>1. PICK e \in Entry : e = [kind |-> "event", idx |-> l.idx, gen |-> l.attempt]
        BY <1>1 DEF Entry
      <4>2. log' = Append(log, e) /\ e.kind = "event"
        BY <2>1, <3>1, <4>1 DEF AppendEvent, Put
      <4>3. QED
        BY <4>2, EntryOpens
    <3>2. CASE ~Current(l.attempt)
      BY <1>1, <2>1, <3>2 DEF AppendEvent, OpenLeg, Executing, Quiet
    <3>3. QED
      BY <3>1, <3>2
  <2>5. ASSUME m.todo # <<>>
        PROVE  OpenLeg(m)'
    <3>1. Head(m.todo) \in {"exec", "close", "settle"}
      BY <1>3, <2>1, <2>5 DEF Successor
    <3>2. QED
      BY <2>4, <3>1, PastLegs DEF OpenLeg, Executing
  <2>6. status' = "completed" => row'.status = "completed"
    BY <2>1 DEF OpenInv
  <2>7. QED
    BY <1>6, <2>1, <2>3, <2>4, <2>5, <2>6
<1>14. QED
  BY <1>8, <1>9, <1>10, <1>11, <1>12, <1>13

LEMMA ClaimStaysOpen ==
  ASSUME TypeInv, OrderInv, LeaseInv, OpenInv, NEW w \in Worker, Claim(w)
  PROVE  OpenInv'
<1>1. UNCHANGED <<log, status>> /\ RowFinal
  BY DEF Claim, stream, keys, RowFinal
<1>2. /\ log \in Seq(Entry) /\ gen \in Nat /\ jobs[Run].attempt \in Nat
      /\ gen <= jobs[Run].attempt
  BY TypeFacts DEF LeaseInv
<1>3. PICK n \in Leg : /\ legs' = legs \cup {n}
                       /\ n.attempt = jobs[Run].attempt + 1
                       /\ Head(n.todo) = "stamp"
  BY ClaimedInOrder
<1>4. ASSUME NEW i \in 1 .. Len(log)
      PROVE  log[i].gen < n.attempt
  <2>1. log[i] \in Entry
    BY <1>2
  <2>2. log[i].gen \in Nat /\ log[i].gen <= gen
    BY <2>1 DEF Entry, OrderInv
  <2>3. QED
    BY <1>2, <1>3, <2>2
<1>5. OpenLeg(n)'
  BY <1>1, <1>3, <1>4 DEF OpenLeg, Executing
<1>6. Excused => Excused'
  BY <1>1, <1>3, LegsExcuse
<1>7. QED
  BY <1>1, <1>3, <1>5, <1>6, StillOpen

LEMMA SweepStaysOpen ==
  ASSUME TypeInv, OrderInv, LeaseInv, RowInv, OpenInv, RowFinal
  PROVE  /\ \A w \in Worker : Acquire(w) => OpenInv'
         /\ Sweep => OpenInv'
<1>1. sweep.attempt \in Nat
  BY DEF TypeInv, TypeOK
<1>2. ASSUME UNCHANGED <<log, status>>, legs' = legs
      PROVE  OpenInv'
  BY <1>2, StillOpen, LegsExcuse
<1>3. ASSUME NEW s, CompleteRun(sweep.worker, s, sweep.attempt), sweep.pc # "idle",
             row' = row, legs' = legs,
             s \in {"paused", "error"} \/ (s \in Finished /\ row.status = s)
      PROVE  OpenInv'
  <2>1. \A x \in legs' : x \in legs /\ Trailing(x)
    BY <1>3 DEF LeaseInv
  <2>2. /\ s = "completed" => row.status = "completed"
        /\ s \notin {"paused", "error", "completed"} => Excused'
    BY <1>3 DEF Excused
  <2>3. Excused => Excused'
    BY <1>3, LegsExcuse
  <2>4. QED
    BY <1>1, <1>3, <2>1, <2>2, <2>3, SentinelKeepsOpen
<1>4. \A w \in Worker : Acquire(w) => OpenInv'
  BY <1>2 DEF Acquire, SweepQuiet, stream, keys
<1>5. ASSUME Reconcile PROVE OpenInv'
  <2>1. sweep.pc # "idle" /\ row' = row /\ legs' = legs
    BY <1>5 DEF Reconcile, SweepQuiet
  <2>2. CASE row.status \in Finished \cup {"paused"}
    BY <1>3, <1>5, <2>1, <2>2 DEF Reconcile
  <2>3. CASE row.status \notin Finished \cup {"paused"}
    BY <1>2, <1>5, <2>1, <2>3 DEF Reconcile, keys
  <2>4. QED
    BY <2>2, <2>3
<1>6. Deface => OpenInv'
  BY <1>2 DEF Deface, SweepQuiet, stream, keys
<1>7. TerminateSwept => OpenInv'
  BY <1>3 DEF TerminateSwept, SweepQuiet
<1>8. SettleSwept => OpenInv'
  BY <1>2 DEF SettleSwept, SweepQuiet, stream, keys
<1>9. QED
  BY <1>4, <1>5, <1>6, <1>7, <1>8 DEF Sweep

LEMMA DoorsStayOpen ==
  ASSUME TypeInv, OrderInv, LeaseInv, RowInv, OpenInv, RowFinal
  PROVE  /\ Enqueue \/ Cancel \/ Continue \/ Requeue => OpenInv'
         /\ \A door \in owed : Pay(door) \/ DoorDies(door) => OpenInv'
<1>1. ASSUME UNCHANGED <<log, status>>, legs' = legs
      PROVE  OpenInv'
  BY <1>1, StillOpen, LegsExcuse
<1>2. /\ owed \in SUBSET {"register", "cancel", "reopen"}
      /\ status = "none" => log = <<>>
      /\ \A x \in legs : x.attempt \in Nat /\ 0 < x.attempt
  BY TypeFacts DEF TypeInv, TypeOK, LegInv
<1>3. Enqueue \/ Cancel \/ Continue \/ Requeue => OpenInv'
  BY <1>1 DEF Enqueue, Cancel, Continue, Requeue, DoorQuiet, stream, keys
<1>4. \A door \in owed : DoorDies(door) => OpenInv'
  BY <1>1 DEF DoorDies, stream, keys
<1>5. ASSUME NEW e \in Entry, log' = Append(log, e), e.gen = 0, legs' = legs,
             status' # "completed"
      PROVE  OpenInv'
  <2>1. Quiet' /\ \A x \in legs : OpenLeg(x)'
    BY <1>2, <1>5, EntryOpens
  <2>2. QED
    BY <1>5, <2>1 DEF OpenInv
<1>6. ASSUME NEW door \in owed, Pay(door) PROVE OpenInv'
  <2>1. legs' = legs /\ row' = row
    BY <1>6 DEF Pay, DoorQuiet
  <2>2. CASE door = "register"
    <3>1. log' = log /\ status' = IF status = "none" THEN "pending" ELSE status
      BY <1>6, <2>2 DEF Pay, RegisterRun
    <3>2. CASE status = "none"
      <4>1. log' = <<>> /\ Len(<<>>) = 0
        BY <1>2, <3>1, <3>2
      <4>2. Quiet'
        BY <4>1 DEF Quiet
      <4>3. \A x \in legs' : OpenLeg(x)'
        BY <2>1, <3>1, <4>1, <4>2 DEF OpenLeg, OpenInv
      <4>4. QED
        BY <3>1, <3>2, <4>2, <4>3 DEF OpenInv
    <3>3. QED
      BY <1>1, <2>1, <3>1, <3>2
  <2>3. CASE door = "reopen"
    <3>1. ReopenRun({"paused"}, 0)
      BY <1>6, <2>3 DEF Pay
    <3>2. CASE status \in {"none", "pending"} \cup {"paused"}
      <4>1. PICK e \in Entry : e = [kind |-> "reopen", idx |-> 0, gen |-> 0]
        BY DEF Entry
      <4>2. log' = Append(log, e) /\ e.gen = 0 /\ status' = "pending"
        BY <3>1, <3>2, <4>1 DEF ReopenRun, Put
      <4>3. QED
        BY <1>5, <2>1, <4>2
    <3>3. CASE status \notin {"none", "pending"} \cup {"paused"}
      BY <1>1, <2>1, <3>1, <3>3 DEF ReopenRun, keys
    <3>4. QED
      BY <3>2, <3>3
  <2>4. CASE door = "cancel"
    <3>1. PICK w \in alive : CompleteAnyway(w, "cancelled")
      BY <1>6, <2>4 DEF Pay
    <3>2. PICK e \in Entry : e = [kind |-> "terminal", idx |-> 0, gen |-> 0]
      BY DEF Entry
    <3>3. log' = Append(log, e) /\ e.gen = 0 /\ status' = "cancelled"
      BY <3>1, <3>2 DEF CompleteAnyway, Terminate, Put
    <3>4. QED
      BY <1>5, <2>1, <3>3
  <2>5. QED
    BY <1>2, <2>2, <2>3, <2>4
<1>7. QED
  BY <1>3, <1>4, <1>6

LEMMA TimeStaysOpen ==
  ASSUME "lostEnd" \notin Env, TypeInv, OrderInv, OpenInv, RowFinal
  PROVE  /\ Lapse => OpenInv'
         /\ \A w \in Worker : Crash(w) => OpenInv'
         /\ "lateLeg" \notin Env /\ Expire => OpenInv'
         /\ \A w \in Worker : StopsRefreshing(w) /\ Unchanged => OpenInv'
         /\ \A c \in Client : (Attach(c) \/ TailStep(c)) /\ Unchanged => OpenInv'
         /\ UNCHANGED vars => OpenInv'
<1>1. ASSUME UNCHANGED <<log, status>>, legs' \subseteq legs,
             \A x \in legs : Cancelling(x) => x \in legs'
      PROVE  OpenInv'
  <2>1. Excused => Excused'
    BY <1>1 DEF Excused, RowFinal
  <2>2. QED
    BY <1>1, <2>1, StillOpen
<1>2. Lapse => OpenInv'
  BY <1>1 DEF Lapse, stream, keys
<1>3. \A w \in Worker : Crash(w) => OpenInv'
  BY <1>1 DEF Crash, keys, Lagging, Aborting, Cancelling
<1>4. ASSUME "lateLeg" \notin Env, Expire PROVE OpenInv'
  <2>1. legs' = {} /\ log' = <<>> /\ status' = "none" /\ Len(<<>>) = 0
    BY <1>4 DEF Expire, KeysExpire
  <2>2. Quiet'
    BY <2>1 DEF Quiet
  <2>3. QED
    BY <2>1, <2>2 DEF OpenInv
<1>5. \A w \in Worker : StopsRefreshing(w) /\ Unchanged => OpenInv'
  BY <1>1 DEF StopsRefreshing, Unchanged, keys
<1>6. \A c \in Client : (Attach(c) \/ TailStep(c)) /\ Unchanged => OpenInv'
  BY <1>1, TailsKeepTypes, TypeFacts DEF Unchanged, keys
<1>7. UNCHANGED vars => OpenInv'
  BY <1>1 DEF vars, stream, keys
<1>8. QED
  BY <1>2, <1>3, <1>4, <1>5, <1>6, <1>7

LEMMA InitOpen == Init => OpenInv
<1> SUFFICES ASSUME Init PROVE OpenInv
  OBVIOUS
<1>1. legs = {} /\ log = <<>> /\ status = "none" /\ Len(<<>>) = 0
  BY DEF Init, StreamInit
<1>2. QED
  BY <1>1 DEF OpenInv, Quiet

LEMMA NextKeepsOpen ==
  ASSUME "lateLeg" \notin Env, "lostEnd" \notin Env, TypeInv, OrderInv, LeaseInv, AbortInv,
         RowInv, OpenInv, [Next]_vars
  PROVE  OpenInv'
<1>1. RowFinal
  BY FinalRow DEF RowFinal
<1>2. QED
  BY <1>1, ClaimStaysOpen, SweepStaysOpen, QuietStepsStayOpen, StreamStepsStayOpen,
     DoorsStayOpen, TimeStaysOpen DEF Next, Execute

\* The last entry, where there is one.
LEMMA LastEntry ==
  ASSUME TypeInv, Kept # {}
  PROVE  Len(log) \in 1 .. Len(log) /\ At(End) = log[Len(log)]
<1>1. head \in Nat /\ Len(log) \in Nat
  BY TypeFacts DEF StreamOK, StreamTypeOK
<1>2. PICK n \in Nat : n = Len(log)
  BY <1>1
<1>3. End = head + n
  BY <1>2 DEF End
<1>4. n > 0
  BY <1>1, <1>3 DEF Kept
<1>5. At(End) = log[n]
  <2>1. End - head = n
    BY <1>1, <1>3
  <2>2. QED
    BY <2>1 DEF At
<1>6. QED
  BY <1>2, <1>4, <1>5

\* A fresh execution clears the stream of all that came before it, so whatever
\* lapses, its own sentinel is the only one that it can find in front of it; a
\* continuation opens what it finds, and that is what a lease is needed for.
LEMMA NoneLivesClosed ==
  ASSUME TypeInv, OrderInv, "falseLapse" \notin Env => OpenInv
  PROVE  LiveStreamIsOpen
<1> SUFFICES ASSUME NEW l \in legs, Head(l.todo) \in {"exec", "append"},
                    gen = l.attempt, Kept # {}, At(End).kind = "terminal",
                    l.cont => "falseLapse" \notin Env
             PROVE  At(End).gen \in {0, l.attempt}
  BY DEF LiveStreamIsOpen
<1>1. /\ Len(log) \in 1 .. Len(log) /\ At(End) = log[Len(log)]
      /\ gen \in Nat /\ l.attempt \in Nat /\ log \in Seq(Entry)
  BY LastEntry, TypeFacts
<1>2. PICK n \in 1 .. Len(log) : n = Len(log)
  BY <1>1
<1>3. log[n] \in Entry
  BY <1>1
<1>4. log[n].gen \in Nat /\ log[n].gen <= gen
  BY <1>3 DEF Entry, OrderInv
<1>5. CASE l.cont
  <2>1. Quiet
    BY <1>5 DEF OpenInv, OpenLeg, Executing
  <2>2. Len(log) > 0
    BY <1>1
  <2>3. QED
    BY <1>1, <2>1, <2>2 DEF Quiet
<1>6. CASE ~l.cont
  <2>1. WriterInv(l)
    BY DEF OrderInv
  <2>2. Fresh(l)
    BY <1>1, <1>6, <2>1 DEF WriterInv, Executing
  <2>3. log[n].gen = 0 \/ log[n].gen >= l.attempt
    BY <2>2 DEF Fresh
  <2>4. QED
    BY <1>1, <1>2, <1>4, <2>3
<1>7. QED
  BY <1>5, <1>6

\* A leg that executes as the newest writer of its stream never sits behind the
\* sentinel of an attempt before its own: a fresh execution never, a continuation
\* unless a lease lapses under a leg that lives.  Keys do not expire under a leg, and
\* none dies between the ticket that the user's cancel ended and the row.
THEOREM StreamStaysOpen ==
  ASSUME {"lateLeg", "lostEnd"} \cap Env = {}
  PROVE  Spec => []LiveStreamIsOpen
<1> DEFINE Held == /\ TypeInv /\ OrderInv
                   /\ "falseLapse" \notin Env =>
                        LeaseInv /\ AbortInv /\ RowInv /\ OpenInv
<1>1. Init => Held
  BY InitTyped, InitOrdered, InitLeased, InitAborts, InitAgrees, InitOpen
<1>2. Held /\ [Next]_vars => Held'
  BY NextKeepsTypes, NextKeepsOrder, NextKeepsLease, NextKeepsAbort, NextKeepsRow,
     NextKeepsOpen
<1>3. Held => LiveStreamIsOpen
  BY NoneLivesClosed
<1>4. QED
  BY <1>1, <1>2, <1>3, PTL DEF Spec

-----------------------------------------------------------------------------
(* What a tail has been given *)

Unmoved == UNCHANGED <<log, head>>
Cleared == head' = End /\ log' = <<>>
Gains(e) == head' = head /\ log' = Append(log, e)

\* What a step does to the stream key: an event is one whose index a leg has taken
\* and whose attempt is current.
Grows ==
  \/ Unmoved \/ Cleared
  \/ \E e \in Entry :
       /\ Gains(e)
       /\ e.kind = "event" =>
            \E l \in legs : Head(l.todo) = "append" /\ Current(l.attempt) /\ e.idx = l.idx

\* A tail that has looked so far is past every event up to there, and one that
\* starts has yet to look.
TailInv ==
  \A c \in Client :
    /\ tails[c].from <= End
    /\ tails[c].pc \in {"away", "replay"} => tails[c].from = 0
    /\ \A i \in Kept :
         i <= tails[c].from /\ IsEvent(i) => At(i).idx < tails[c].next

LEMMA ProducersGrow ==
  ASSUME StreamOK
  PROVE  /\ UNCHANGED keys => Grows
         /\ \A g : BeginAttempt(g) => Grows
         /\ \A g : ResetRunEvents(g) => Grows
         /\ UNCHANGED <<log, head>> => Grows
         /\ \A p, g : StartRun(p, g) => Grows
         /\ \A p, g : TakeIndex(p, g) => Grows
         /\ \A p, s : \A g \in Nat : CompleteRun(p, s, g) => Grows
         /\ \A p, s : CompleteAnyway(p, s) => Grows
         /\ \A reopenable, floor : ReopenRun(reopenable, floor) => Grows
         /\ KeysExpire => Grows
<1>1. UNCHANGED keys => Unmoved
  BY DEF keys, Unmoved
<1>2. ASSUME NEW kind \in {"terminal", "reopen"}, NEW g \in Nat, Put(kind, 0, g), head' = head
      PROVE  Grows
  <2>1. PICK e : e = [kind |-> kind, idx |-> 0, gen |-> g]
    OBVIOUS
  <2>2. e \in Entry /\ e.kind # "event" /\ Gains(e)
    BY <1>2, <2>1 DEF Put, Entry, Gains
  <2>3. QED
    BY <2>2 DEF Grows
<1>3. \A g : ResetRunEvents(g) => Grows
  BY <1>1 DEF ResetRunEvents, Grows, Cleared
<1>4. \A p, s : \A g \in Nat : CompleteRun(p, s, g) => Grows
  BY <1>1, <1>2 DEF CompleteRun, Terminate, Grows
<1>5. \A p, s : CompleteAnyway(p, s) => Grows
  BY <1>2 DEF CompleteAnyway, Terminate
<1>6. \A reopenable, floor : ReopenRun(reopenable, floor) => Grows
  BY <1>1, <1>2 DEF ReopenRun, Grows
<1>7. /\ \A g : BeginAttempt(g) => Grows
      /\ UNCHANGED <<log, head>> => Grows
      /\ \A p, g : StartRun(p, g) => Grows
      /\ \A p, g : TakeIndex(p, g) => Grows
      /\ KeysExpire => Grows
  BY <1>1 DEF BeginAttempt, StartRun, TakeIndex, RegisterRun, KeysExpire, Grows, Unmoved,
              Cleared, keys
<1>8. QED
  BY <1>1, <1>3, <1>4, <1>5, <1>6, <1>7 DEF Grows

LEMMA LegStepsGrow ==
  ASSUME TypeInv, NEW l \in legs, Execute(l) \/ Publish(l)
  PROVE  Grows /\ UNCHANGED tails
<1>1. l \in Leg /\ l.attempt \in Nat /\ l.idx \in Nat /\ StreamOK
  BY TypeFacts
<1>2. CASE AppendTaken(l)
  <2>1. Head(l.todo) = "append" /\ AppendEvent(l.attempt, l.idx) /\ UNCHANGED tails
    BY <1>2 DEF AppendTaken, On
  <2>2. CASE Current(l.attempt)
    <3>1. PICK e \in Entry : e = [kind |-> "event", idx |-> l.idx, gen |-> l.attempt]
      BY <1>1 DEF Entry
    <3>2. Gains(e) /\ e.idx = l.idx
      BY <2>1, <2>2, <3>1 DEF AppendEvent, Put, Gains
    <3>3. QED
      BY <2>1, <2>2, <3>2 DEF Grows
  <2>3. CASE ~Current(l.attempt)
    BY <2>1, <2>3 DEF AppendEvent, Grows, Unmoved
  <2>4. QED
    BY <2>2, <2>3
<1>3. CASE Stamp(l) \/ Abort(l) \/ Enter(l) \/ PersistError(l) \/ Settle(l)
           \/ \E result \in Endings : Finish(l, result)
  <2>1. UNCHANGED stream
    BY <1>3 DEF Stamp, Abort, Enter, PersistError, Settle, Finish
  <2>2. QED
    BY <1>1, <2>1, ProducersGrow DEF stream
<1>4. CASE Honor(l) \/ Close(l)
  BY <1>1, <1>4, ProducersGrow DEF Honor, Close
<1>5. CASE Begin(l) \/ Reset(l) \/ Reopen(l) \/ Start(l)
  BY <1>1, <1>5, ProducersGrow DEF Begin, Reset, Reopen, Start
<1>6. CASE Publish(l) \/ Tell(l)
  BY <1>1, <1>6, ProducersGrow, EventTaken
<1>7. QED
  BY <1>2, <1>3, <1>4, <1>5, <1>6 DEF Execute

\* A tail reads the stream, or the stream grows under the tails.
LEMMA StepsGrow ==
  ASSUME TypeInv, [Next]_vars
  PROVE  \/ Grows /\ UNCHANGED tails
         \/ UNCHANGED keys /\ \E c \in Client : Attach(c) \/ TailStep(c)
<1>1. StreamOK /\ sweep.attempt \in Nat
  BY TypeFacts DEF TypeInv, TypeOK
<1>2. ASSUME NEW l \in legs, Execute(l) \/ Publish(l)
      PROVE  Grows /\ UNCHANGED tails
  BY <1>2, LegStepsGrow
<1>3. ASSUME UNCHANGED stream \/ (UNCHANGED keys /\ UNCHANGED tails)
      PROVE  Grows /\ UNCHANGED tails
  BY <1>1, <1>3, ProducersGrow DEF stream
<1>4. CASE \E w \in Worker : Claim(w) \/ Acquire(w) \/ Crash(w)
  BY <1>3, <1>4 DEF Claim, Acquire, Crash
<1>5. CASE \E w \in Worker : StopsRefreshing(w) /\ Unchanged
  BY <1>3, <1>5 DEF StopsRefreshing
<1>6. CASE Sweep
  <2>1. CASE Reconcile
    BY <1>1, <2>1, ProducersGrow DEF Reconcile, keys
  <2>2. CASE TerminateSwept
    BY <1>1, <2>2, ProducersGrow DEF TerminateSwept
  <2>3. CASE Deface \/ SettleSwept
    BY <1>3, <2>3 DEF Deface, SettleSwept
  <2>4. QED
    BY <1>6, <2>1, <2>2, <2>3 DEF Sweep
<1>7. CASE Enqueue \/ Cancel \/ Continue \/ Requeue \/ Lapse
  BY <1>3, <1>7 DEF Enqueue, Cancel, Continue, Requeue, Lapse
<1>8. CASE \E door \in owed : Pay(door) \/ DoorDies(door)
  <2>1. PICK door \in owed : Pay(door) \/ DoorDies(door)
    BY <1>8
  <2>2. door \in {"register", "cancel", "reopen"}
    BY DEF TypeInv, TypeOK
  <2>3. CASE DoorDies(door)
    BY <1>3, <2>3 DEF DoorDies
  <2>4. CASE Pay(door)
    BY <1>1, <2>2, <2>4, ProducersGrow DEF Pay
  <2>5. QED
    BY <2>1, <2>3, <2>4
<1>9. CASE Expire
  BY <1>1, <1>9, ProducersGrow DEF Expire, KeysExpire
<1>10. CASE \E c \in Client : (Attach(c) \/ TailStep(c)) /\ Unchanged
  BY <1>1, <1>10, TailsKeepTypes
<1>11. CASE UNCHANGED vars
  BY <1>3, <1>11 DEF vars
<1>12. QED
  BY <1>2, <1>4, <1>5, <1>6, <1>7, <1>8, <1>9, <1>10, <1>11 DEF Next

\* What is appended comes after all that a tail has looked at.
LEMMA GrowsKeepsTails ==
  ASSUME StreamOK, TailInv, Grows, UNCHANGED tails
  PROVE  TailInv'
<1>1. /\ log \in Seq(Entry) /\ head \in Nat /\ Len(log) \in Nat /\ End \in Nat
      /\ tails \in [Client -> Reader]
  BY KeptEntries DEF StreamOK, StreamTypeOK
<1>2. \A c \in Client : tails[c].from \in Nat /\ tails[c].from <= End
  BY <1>1 DEF Reader, TailInv
<1>3. CASE Unmoved
  BY <1>3 DEF Unmoved, TailInv, End, Kept, At, IsEvent
<1>4. CASE Cleared
  <2>1. End' = End /\ Kept' = {}
    <3>1. Len(log') = 0 /\ head' = End
      BY <1>4 DEF Cleared
    <3>2. QED
      BY <1>1, <3>1 DEF End, Kept
  <2>2. QED
    BY <2>1 DEF TailInv
<1>5. ASSUME NEW e \in Entry, Gains(e)
      PROVE  TailInv'
  <2>1. /\ Len(log') = Len(log) + 1
        /\ \A i \in 1 .. Len(log) : log'[i] = log[i]
    BY <1>1, <1>5, Appended DEF Gains
  <2>2. End' = End + 1 /\ head' = head
    BY <1>1, <1>5, <2>1 DEF End, Gains
  <2>3. \A i \in Kept' : i <= End => i \in Kept /\ At(i)' = At(i)
    BY <1>1, <2>1, <2>2 DEF Kept, At, End
  <2>4. ASSUME NEW c \in Client, NEW i \in Kept', i <= tails[c].from, IsEvent(i)'
        PROVE  At(i)'.idx < tails[c].next
    <3>1. i <= End
      BY <1>1, <1>2, <2>2, <2>4 DEF Kept
    <3>2. i \in Kept /\ At(i)' = At(i)
      BY <2>3, <3>1
    <3>3. QED
      BY <2>4, <3>2 DEF TailInv, IsEvent
  <2>5. QED
    BY <1>1, <1>2, <2>2, <2>4 DEF TailInv
<1>6. QED
  BY <1>3, <1>4, <1>5 DEF Grows

\* Where the indices only increase, a look passes over nothing: every event that a
\* tail looks at is yielded, or has been.
LEMMA LooksPassNothing ==
  ASSUME StreamOK, StreamOrdered, NEW t \in Reader, NEW to \in Nat,
         \A i \in Kept : i <= t.from /\ IsEvent(i) => At(i).idx < t.next
  PROVE  \A i \in Kept : i <= to /\ IsEvent(i) => At(i).idx < Highest(t, to)
<1> SUFFICES ASSUME NEW i \in Kept, i <= to, IsEvent(i)
             PROVE  At(i).idx < Highest(t, to)
  OBVIOUS
<1>1. /\ t.from \in Nat /\ t.next \in Nat /\ i \in Nat /\ At(i).idx \in Nat
      /\ Highest(t, to) \in Nat /\ t.next <= Highest(t, to)
  BY KeptEntries, HighestFound DEF Reader, Entry
<1>2. CASE At(i).idx < t.next
  BY <1>1, <1>2
<1>3. CASE ~(At(i).idx < t.next)
  <2>1. t.from < i
    BY <1>1, <1>3
  <2>2. \A k \in Kept : At(k).kind = "event" /\ k < i => At(k).idx < At(i).idx
    BY DEF StreamOrdered, IsEvent
  <2>3. i \in Yielded(t, to)
    BY <1>1, <1>3, <2>1, <2>2 DEF Yielded, IsEvent
  <2>4. QED
    BY <2>3, HighestFound
<1>4. QED
  BY <1>2, <1>3

LEMMA ReadsKeepTails ==
  ASSUME StreamOK, StreamOrdered, TailInv, NEW c \in Client, Attach(c) \/ TailStep(c)
  PROVE  TailInv'
<1>1. /\ tails \in [Client -> Reader] /\ tails[c] \in Reader /\ End \in Nat
      /\ Kept \subseteq Nat
  BY KeptEntries DEF StreamOK, StreamTypeOK
<1>2. \A i \in Kept : i <= tails[c].from /\ IsEvent(i) => At(i).idx < tails[c].next
  BY DEF TailInv
<1>3. UNCHANGED keys
  BY TailsKeepTypes
<1>4. End' = End /\ Kept' = Kept /\ \A i : At(i)' = At(i) /\ (IsEvent(i)' <=> IsEvent(i))
  BY <1>3 DEF keys, End, Kept, At, IsEvent
<1>5. ASSUME NEW t \in Reader, Goes(c, t), t.from <= End,
             t.pc \in {"away", "replay"} => t.from = 0,
             \A i \in Kept : i <= t.from /\ IsEvent(i) => At(i).idx < t.next
      PROVE  TailInv'
  <2>1. tails' = [tails EXCEPT ![c] = t]
    BY <1>5 DEF Goes
  <2>2. \A d \in Client : tails'[d] = IF d = c THEN t ELSE tails[d]
    BY <1>1, <2>1
  <2>3. QED
    BY <1>4, <1>5, <2>2 DEF TailInv
<1>7. \A i \in Kept : ~(i <= 0)
  BY <1>1 DEF Kept, StreamOK, StreamTypeOK
<1>6. ASSUME NEW to \in Nat, NEW pc \in {"read", "peek"}, to <= End,
             Goes(c, [After(tails[c], to) EXCEPT !.pc = pc])
             \/ Goes(c, Ends(After(tails[c], to)))
      PROVE  TailInv'
  <2>1. \A i \in Kept : i <= to /\ IsEvent(i) => At(i).idx < Highest(tails[c], to)
    BY <1>1, <1>2, LooksPassNothing
  <2>2. Highest(tails[c], to) \in Nat
    BY <1>1, HighestFound
  <2>3. CASE Goes(c, Ends(After(tails[c], to)))
    <3>1. PICK t : t = Ends(After(tails[c], to))
      OBVIOUS
    <3>2. t \in Reader /\ t.from = 0 /\ t.next = Highest(tails[c], to)
      BY <1>1, <2>2, <3>1 DEF Ends, After, Reader
    <3>3. QED
      BY <1>1, <1>5, <1>7, <2>3, <3>1, <3>2
  <2>4. CASE Goes(c, [After(tails[c], to) EXCEPT !.pc = pc])
    <3>1. PICK t : t = [After(tails[c], to) EXCEPT !.pc = pc]
      OBVIOUS
    <3>2. t \in Reader /\ t.from = to /\ t.next = Highest(tails[c], to) /\ t.pc = pc
      BY <1>1, <2>2, <3>1 DEF After, Reader
    <3>3. QED
      BY <1>5, <1>6, <2>1, <2>4, <3>1, <3>2
  <2>5. QED
    BY <1>6, <2>3, <2>4
<1>8. CASE Attach(c)
  <2>1. Goes(c, [tails[c] EXCEPT !.pc = "replay"]) /\ tails[c].pc = "away"
    BY <1>8 DEF Attach
  <2>2. PICK t : t = [tails[c] EXCEPT !.pc = "replay"]
    OBVIOUS
  <2>3. t \in Reader /\ t.from = 0
    BY <1>1, <2>1, <2>2 DEF Reader, TailInv
  <2>4. Goes(c, t) /\ t.from <= End /\ \A i \in Kept : ~(i <= t.from)
    BY <1>1, <1>7, <2>1, <2>2, <2>3
  <2>5. QED
    BY <1>5, <2>3, <2>4
<1>9. CASE Replay(c)
  <2>1. PICK to \in Nat, pc \in {"read", "peek"} : to = End /\ pc = "read"
    BY <1>1
  <2>2. to <= End /\ (\/ Goes(c, [After(tails[c], to) EXCEPT !.pc = pc])
                     \/ Goes(c, Ends(After(tails[c], to))))
    BY <1>9, <2>1 DEF Replay
  <2>3. QED
    BY <1>6, <2>2
<1>10. CASE Read(c)
  <2>1. PICK to : to = BatchEnd(tails[c])
    OBVIOUS
  <2>2. PICK pc \in {"read", "peek"} :
          Unread(tails[c]) # {} /\ Goes(c, [After(tails[c], to) EXCEPT !.pc = pc])
    BY <1>10, <2>1 DEF Read
  <2>3. to \in Nat /\ to <= End
    BY <1>1, <2>1, <2>2, BatchEnds DEF Unread, Kept, StreamOK, StreamTypeOK
  <2>4. QED
    BY <1>6, <2>2, <2>3
<1>11. ASSUME NEW pc \in {"away", "replay", "read", "peek", "probe"},
              pc \notin {"away", "replay"}, Goes(c, [tails[c] EXCEPT !.pc = pc])
       PROVE  TailInv'
  <2>1. PICK t : t = [tails[c] EXCEPT !.pc = pc]
    OBVIOUS
  <2>2. t \in Reader /\ t.from = tails[c].from /\ t.next = tails[c].next /\ t.pc = pc
    BY <1>1, <2>1 DEF Reader
  <2>3. t.from <= End
    BY <2>2 DEF TailInv
  <2>4. QED
    BY <1>2, <1>5, <1>11, <2>1, <2>2, <2>3
<1>12. ASSUME Goes(c, Ends(tails[c])) PROVE TailInv'
  <2>1. PICK t : t = Ends(tails[c])
    OBVIOUS
  <2>2. t \in Reader /\ t.from = 0 /\ t.next = tails[c].next
    BY <1>1, <2>1 DEF Ends, Reader
  <2>3. QED
    BY <1>1, <1>5, <1>7, <1>12, <2>1, <2>2
<1>13. CASE Peek(c) \/ ReadsNothing(c) \/ Probe(c)
  BY <1>11, <1>12, <1>13 DEF Peek, ReadsNothing, Probe
<1>14. QED
  BY <1>8, <1>9, <1>10, <1>13 DEF TailStep

LEMMA InitLooks == Init => TailInv
<1> SUFFICES ASSUME Init PROVE TailInv
  OBVIOUS
<1>1. log = <<>> /\ head = 0 /\ Len(<<>>) = 0
      /\ tails = [c \in Client |-> [pc |-> "away", from |-> 0, next |-> 0]]
  BY DEF Init, StreamInit
<1>2. End = 0 /\ Kept = {}
  BY <1>1 DEF End, Kept
<1>3. QED
  BY <1>1, <1>2 DEF TailInv

LEMMA NextKeepsTails ==
  ASSUME TypeInv, OrderInv, TailInv, [Next]_vars
  PROVE  TailInv'
<1>1. StreamOK /\ StreamOrdered
  BY TypeFacts, OrderOfPositions DEF OrderInv
<1>2. QED
  BY <1>1, StepsGrow, GrowsKeepsTails, ReadsKeepTails

\* A tail ends on a sentinel where nothing follows it: it has looked at all there is.
LEMMA EndsHavingAll ==
  ASSUME TypeInv, OrderInv, TailInv, [Next]_vars, NEW c \in Client,
         tails[c].pc \in {"replay", "peek"}, tails'[c].pc = "away"
  PROVE  HasAll(c)
<1>1. /\ StreamOK /\ StreamOrdered /\ tails \in [Client -> Reader]
      /\ tails[c] \in Reader /\ End \in Nat /\ Kept \subseteq Nat
      /\ \A i \in Kept : i <= End
  BY TypeFacts, OrderOfPositions, KeptEntries DEF OrderInv, StreamOK, StreamTypeOK, Kept
<1>2. \A i \in Kept : i <= tails[c].from /\ IsEvent(i) => At(i).idx < tails[c].next
  BY DEF TailInv
<1>3. PICK d \in Client : Attach(d) \/ TailStep(d)
  BY StepsGrow
<1>4. c = d
  <2>1. \A t : Goes(d, t) /\ c # d => tails'[c] = tails[c]
    BY <1>1 DEF Goes
  <2>2. QED
    BY <1>3, <2>1 DEF Attach, TailStep, Replay, Read, Peek, ReadsNothing, Probe
<1>5. Replay(c) \/ Peek(c)
  BY <1>3, <1>4 DEF Attach, TailStep, Read, ReadsNothing, Probe
<1>6. \A t : Goes(c, t) => tails'[c] = t
  BY <1>1 DEF Goes
<1>7. CASE Replay(c)
  <2>1. \A i \in Kept : i <= End /\ IsEvent(i) => At(i).idx < Highest(tails[c], End)
    BY <1>1, <1>2, LooksPassNothing
  <2>2. After(tails[c], End).pc = "replay" /\ Highest(tails[c], End) \in Nat
    BY <1>1, <1>7, HighestFound DEF After, Replay, Reader
  <2>3. tails'[c] = Ends(After(tails[c], End))
          \/ tails'[c] = [After(tails[c], End) EXCEPT !.pc = "read"]
    BY <1>6, <1>7 DEF Replay
  <2>4. tails'[c].next = Highest(tails[c], End)
    BY <1>1, <2>2, <2>3 DEF Ends, After, Reader
  <2>5. QED
    BY <1>1, <2>1, <2>4 DEF HasAll
<1>8. CASE Peek(c)
  <2>1. Unread(tails[c]) = {} /\ tails'[c] = Ends(tails[c])
    <3>1. [tails[c] EXCEPT !.pc = "read"].pc = "read"
      BY <1>1 DEF Reader
    <3>2. QED
      BY <1>6, <1>8, <3>1 DEF Peek
  <2>2. tails'[c].next = tails[c].next /\ tails[c].from \in Nat
    BY <1>1, <2>1 DEF Ends, Reader
  <2>3. \A i \in Kept : i <= tails[c].from
    BY <1>1, <2>1, <2>2 DEF Unread
  <2>4. QED
    BY <1>2, <2>2, <2>3 DEF HasAll
<1>9. QED
  BY <1>5, <1>7, <1>8

\* A tail that a sentinel ended has yielded every event that the stream held,
\* however far it was behind and however often the run had been paused.
THEOREM SentinelsEndLast ==
  ASSUME "lateLeg" \notin Env
  PROVE  Spec => SentinelEndsComplete
<1>1. TypeInv /\ OrderInv /\ TailInv /\ [Next]_vars => TypeInv' /\ OrderInv' /\ TailInv'
  BY NextKeepsTypes, NextKeepsOrder, NextKeepsTails
<1>2. TypeInv /\ OrderInv /\ TailInv /\ [Next]_vars =>
        [\A c \in Client :
           tails[c].pc \in {"replay", "peek"} /\ tails'[c].pc = "away" => HasAll(c)]_vars
  BY EndsHavingAll
<1>3. QED
  BY <1>1, <1>2, InitTyped, InitOrdered, InitLooks, PTL DEF Spec, SentinelEndsComplete

-----------------------------------------------------------------------------
(* Events are new *)

\* Every client has been given indices below n only.
Past(n) == \A c \in Client : tails[c].next <= n

\* The keys have expired and the counter has yet to be seeded again: who executes
\* the run next continues it, has not reopened the stream and will find it open for
\* that, unless the user's cancel ends it before.
Lost ==
  /\ counter = 0
  /\ status \in {"none", "pending", "paused", "error"}
  /\ \A l \in legs : /\ cont /\ l.cont
                     /\ \/ Head(l.todo) \in {"stamp", "begin", "reopen"}
                        \/ Cancelling(l)
  /\ ~cont => /\ jobs[Run].status \notin {"absent", "queued", "running"}
              /\ status = "none" /\ owed = {} /\ sweep = NoSweep

\* What the doors and the sweep leave behind.
DoorInv ==
  /\ jobs[Run].status = "absent" =>
       jobs[Run].attempt = 0 /\ status = "none" /\ owed = {} /\ sweep = NoSweep
  /\ row.attempt <= jobs[Run].attempt
  /\ sweep.attempt <= jobs[Run].attempt
  /\ "cancel" \in owed => row.status \in Finished

\* The steps that a leg takes once its attempt is on the row, or a newer one is.
Stamped == {"begin", "reset", "reopen", "start", "enter"} \cup Executing

StampInv ==
  \A l \in legs : /\ l.floor <= counter
                  /\ Head(l.todo) \in Stamped => l.attempt <= row.attempt

\* n is new to every client, or the run continues and the row does not hold n.
New(n) == Past(n) \/ (cont /\ row.floor <= n)

\* The counter is new, unless it is lost, and so is the index of an event that is yet
\* to be appended.
CountInv ==
  row.status \notin Finished =>
    /\ New(counter) \/ Lost
    /\ \A l \in legs : Head(l.todo) = "append" /\ gen = l.attempt => New(l.idx)

\* No step takes the ticket away, or an attempt back.
LEMMA TicketGoesOn ==
  ASSUME TypeInv, [Next]_vars
  PROVE  Onward(Run)
<1>1. StoreTypeOK /\ Run \in Job
  BY TypeFacts
<1>2. UNCHANGED jobs => Onward(Run)
  BY StoreStays
<1>3. ASSUME NEW l \in legs, Settle(l) PROVE Onward(Run)
  <2>1. \A s : CompleteJob(l.worker, Run, l.attempt, s) => Onward(Run)
    BY <1>1, MethodsGoOnward
  <2>2. RetryOrFailJob(l.worker, Run, l.attempt, TRUE) => Onward(Run)
    BY <1>1, MethodsGoOnward
  <2>3. QED
    BY <1>2, <1>3, <2>1, <2>2 DEF Settle
<1>4. ASSUME NEW l \in legs, Execute(l) \/ Publish(l) PROVE Onward(Run)
  BY <1>2, <1>3, <1>4, EventTaken DEF Execute, Stamp, Abort, Honor, Begin, Reset, Reopen,
     Start, Enter, AppendTaken, Close, PersistError, Finish
<1>5. ASSUME Sweep PROVE Onward(Run)
  BY <1>1, <1>2, <1>5, MethodsGoOnward
  DEF Sweep, Reconcile, Deface, TerminateSwept, SettleSwept
<1>6. ASSUME NEW w \in Worker, Claim(w) \/ Acquire(w) \/ Crash(w) PROVE Onward(Run)
  BY <1>1, <1>2, <1>6, MethodsGoOnward DEF Claim, Acquire, Crash
<1>7. ASSUME Enqueue \/ Cancel \/ Continue \/ Requeue \/ Lapse \/ Expire PROVE Onward(Run)
  BY <1>1, <1>2, <1>7, MethodsGoOnward DEF Enqueue, Cancel, Continue, Requeue, Lapse, Expire
<1>8. QED
  BY <1>2, <1>4, <1>5, <1>6, <1>7 DEF Next, Pay, DoorDies, Unchanged, vars

\* The attempt on the row is one that the ticket has had and does not go back; what the
\* row holds changes when the component of a current leg saves it.
Saves(l) ==
  Head(l.todo) = "exec" /\ row.attempt <= l.attempt /\ row'.floor = Stored(l)

LEMMA RowMoves ==
  ASSUME TypeInv, DoorInv, [Next]_vars
  PROVE  /\ row.attempt <= row'.attempt /\ row'.attempt <= jobs[Run].attempt
         /\ row'.floor = row.floor \/ \E l \in legs : Saves(l)
<1> DEFINE Rises == row.attempt <= row'.attempt /\ row'.attempt <= jobs[Run].attempt
           Moves == Rises /\ row'.floor = row.floor
<1>1. /\ row \in Row /\ row.floor \in Nat /\ row.attempt \in Nat /\ jobs[Run].attempt \in Nat
      /\ \A l \in legs : l.attempt \in Nat /\ l.floor \in Nat /\ l.attempt <= jobs[Run].attempt
      /\ sweep.attempt \in Nat /\ sweep.attempt <= jobs[Run].attempt
      /\ row.attempt <= jobs[Run].attempt
  BY TypeFacts DEF Row, TypeInv, TypeOK, LegInv, DoorInv
<1>2. ASSUME NEW attempt \in Nat, attempt <= jobs[Run].attempt, NEW floor \in Nat,
             NEW s, Persist(attempt, s, floor)
      PROVE  Rises /\ (row'.floor = row.floor \/ (row.attempt <= attempt /\ row'.floor = floor))
  BY <1>1, <1>2 DEF Persist, Refused
<1>3. row' = row => Moves
  BY <1>1
<1>4. ASSUME NEW l \in legs, Stamp(l) \/ Abort(l) PROVE Moves
  <2>1. CASE row' = IF row.attempt > l.attempt THEN row ELSE [row EXCEPT !.attempt = l.attempt]
    BY <1>1, <2>1 DEF Row
  <2>2. CASE Persist(l.attempt, "running", row.floor)
    BY <1>1, <1>2, <2>2
  <2>3. QED
    BY <1>4, <2>1, <2>2 DEF Stamp, Abort
<1>5. ASSUME NEW l \in legs, NEW result \in Endings, Finish(l, result)
      PROVE  Rises /\ (row'.floor = row.floor \/ Saves(l))
  <2>1. Stored(l) \in Nat /\ Head(l.todo) = "exec"
    BY <1>1, <1>5, StoredNatural DEF Finish, On
  <2>2. \/ \E s : Persist(l.attempt, s, Stored(l))
        \/ row' = row
    <3>1. CASE result \in Returned \ {"unseen"}
      BY <1>5, <3>1 DEF Finish, Returned
    <3>2. CASE result = "unseen"
      BY <1>5, <3>2 DEF Finish, Returned
    <3>3. CASE result \notin Returned
      BY <1>5, <3>3 DEF Finish, Returned
    <3>4. QED
      BY <3>1, <3>2, <3>3
  <2>3. QED
    BY <1>1, <1>2, <1>3, <2>1, <2>2 DEF Saves
<1>6. ASSUME NEW l \in legs, PersistError(l) PROVE Moves
  BY <1>1, <1>2, <1>6 DEF PersistError
<1>7. ASSUME NEW l \in legs, Execute(l) \/ Publish(l)
      PROVE  Rises /\ (row'.floor = row.floor \/ Saves(l))
  BY <1>3, <1>4, <1>5, <1>6, <1>7, EventTaken DEF Execute, Honor, Begin, Reset, Reopen,
     Start, Enter, AppendTaken, Close, Settle
<1>8. ASSUME Sweep PROVE Moves
  BY <1>1, <1>2, <1>3, <1>8 DEF Sweep, Reconcile, Deface, TerminateSwept, SettleSwept
<1>9. ASSUME Enqueue \/ Cancel \/ Continue \/ Requeue PROVE Moves
  BY <1>1, <1>2, <1>3, <1>9 DEF Enqueue, Cancel, Continue, Requeue
<1>10. ASSUME \/ \E w \in Worker : Claim(w) \/ Acquire(w) \/ Crash(w)
              \/ \E w \in Worker : StopsRefreshing(w) /\ Unchanged
              \/ \E door \in owed : Pay(door) \/ DoorDies(door)
              \/ Lapse \/ Expire
              \/ \E c \in Client : (Attach(c) \/ TailStep(c)) /\ Unchanged
              \/ UNCHANGED vars
       PROVE  Moves
  BY <1>3, <1>10 DEF Claim, Acquire, Crash, Unchanged, Pay, DoorDies, Lapse, Expire, vars
<1>11. QED
  BY <1>7, <1>8, <1>9, <1>10 DEF Next

\* Before a ticket is accepted nothing happens to its run.
LEMMA AbsentWaits ==
  ASSUME TypeInv, DoorInv, [Next]_vars, jobs[Run].status = "absent"
  PROVE  /\ row' = row /\ status' = "none" /\ sweep' = NoSweep /\ owed' \subseteq {"register"}
         /\ \/ jobs' = jobs /\ owed' = {}
            \/ jobs'[Run].status = "queued" /\ jobs'[Run].attempt = 0
<1>1. legs = {} /\ status = "none" /\ owed = {} /\ sweep = NoSweep /\ StreamOK
      /\ Run \in Job /\ jobs \in [Job -> Ticket]
  BY TypeFacts DEF TypeInv, DoorInv, StoreTypeOK
<1>2. sweep.pc = "idle"
  BY <1>1 DEF NoSweep
<1>3. ~Sweep
  BY <1>2 DEF Sweep, Reconcile, Deface, TerminateSwept, SettleSwept
<1>4. /\ \A w \in Worker : ~Claim(w) /\ ~Acquire(w)
      /\ ~Cancel /\ ~Continue /\ ~Requeue /\ ~Lapse /\ ~Expire
  BY <1>1 DEF Claim, ClaimJob, Candidate, Reclaimable, Acquire, AcquireSweep, Sweepable,
     Cancel, CancelJob, Continue, ContinueJob, Requeue, RequeueJob, Lapse, LeaseLapses,
     Expire, KeysExpire
<1>5. ASSUME Enqueue
      PROVE  jobs'[Run].status = "queued" /\ jobs'[Run].attempt = 0
  <2>1. PICK created \in Stamps, s \in Seqs :
          jobs' = [jobs EXCEPT ![Run] =
            [NoTicket("queued") EXCEPT !.maxAttempts = MaxAttempts,
                                       !.seq = s, !.created = created]]
    BY <1>5 DEF Enqueue, EnqueueJob
  <2>2. QED
    BY <1>1, <2>1 DEF NoTicket
<1>6. \A c \in Client : (Attach(c) \/ TailStep(c)) => UNCHANGED keys
  BY <1>1, TailsKeepTypes
<1>7. ASSUME Enqueue
      PROVE  row' = row /\ status' = "none" /\ sweep' = NoSweep /\ owed' \subseteq {"register"}
  BY <1>1, <1>7 DEF Enqueue, DoorQuiet, stream, keys
<1>8. CASE \E w \in Worker : Crash(w) \/ (StopsRefreshing(w) /\ Unchanged)
  BY <1>1, <1>8 DEF Crash, StopsRefreshing, Unchanged, keys
<1>9. CASE UNCHANGED vars \/ \E c \in Client : (Attach(c) \/ TailStep(c)) /\ Unchanged
  BY <1>1, <1>6, <1>9 DEF Unchanged, keys, vars, stream
<1>10. Enqueue \/ (\E w \in Worker : Crash(w) \/ (StopsRefreshing(w) /\ Unchanged))
       \/ UNCHANGED vars \/ \E c \in Client : (Attach(c) \/ TailStep(c)) /\ Unchanged
  BY <1>1, <1>3, <1>4 DEF Next
<1>11. QED
  BY <1>5, <1>7, <1>8, <1>9, <1>10

\* The sweep works for the attempt that it acquired.
LEMMA SweepAttempt ==
  ASSUME TypeInv, DoorInv, [Next]_vars
  PROVE  /\ sweep'.attempt <= jobs[Run].attempt
         /\ "cancel" \in owed' => "cancel" \in owed \/ Cancel
<1>1. /\ sweep.attempt \in Nat /\ sweep.attempt <= jobs[Run].attempt
      /\ jobs[Run].attempt \in Nat /\ NoSweep.attempt <= jobs[Run].attempt
      /\ jobs[Run].attempt <= jobs[Run].attempt
      /\ \A pc : [sweep EXCEPT !.pc = pc].attempt = sweep.attempt
      /\ \A w, n : [NoSweep EXCEPT !.pc = "reconcile", !.worker = w, !.attempt = n].attempt = n
  BY TypeFacts DEF TypeInv, TypeOK, DoorInv, NoSweep
<1>2. UNCHANGED <<sweep, owed>> =>
        /\ sweep'.attempt <= jobs[Run].attempt
        /\ "cancel" \in owed' => "cancel" \in owed
  BY <1>1
<1>3. ASSUME NEW l \in legs, Execute(l) \/ Publish(l) PROVE UNCHANGED <<sweep, owed>>
  BY <1>3, EventTaken DEF Execute, Stamp, Abort, Honor, Begin, Reset, Reopen, Start, Enter,
     AppendTaken, Close, PersistError, Settle, Finish, LegQuiet
<1>4. ASSUME Sweep
      PROVE  sweep'.attempt <= jobs[Run].attempt /\ owed' = owed
  <2>1. \/ sweep' = NoSweep
        \/ \E pc : sweep' = [sweep EXCEPT !.pc = pc]
        \/ Deface
    BY <1>4 DEF Sweep, Reconcile, Unreconciled, TerminateSwept, SettleSwept
  <2>2. owed' = owed
    BY <1>4 DEF Sweep, Reconcile, Deface, TerminateSwept, SettleSwept, SweepQuiet
  <2>3. QED
    BY <1>1, <2>1, <2>2, DefacedSweep
<1>5. ASSUME NEW w \in Worker, Acquire(w)
      PROVE  sweep'.attempt <= jobs[Run].attempt /\ owed' = owed
  BY <1>1, <1>5 DEF Acquire, SweepQuiet
<1>6. ASSUME NEW w \in Worker, Claim(w) \/ Crash(w) \/ (StopsRefreshing(w) /\ Unchanged)
      PROVE  sweep'.attempt <= jobs[Run].attempt /\ owed' = owed
  BY <1>1, <1>6 DEF Claim, Crash, Unchanged
<1>7. ASSUME \/ Enqueue \/ Continue \/ Requeue \/ Lapse \/ Expire
             \/ \E door \in owed : Pay(door) \/ DoorDies(door)
             \/ \E c \in Client : (Attach(c) \/ TailStep(c)) /\ Unchanged
             \/ UNCHANGED vars
      PROVE  sweep' = sweep /\ ("cancel" \in owed' => "cancel" \in owed)
  BY <1>7 DEF Enqueue, Continue, Requeue, Lapse, Expire, Pay, DoorDies, Unchanged, vars,
     DoorQuiet
<1>8. Cancel => sweep' = sweep
  BY DEF Cancel, DoorQuiet
<1>9. QED
  BY <1>1, <1>2, <1>3, <1>4, <1>5, <1>6, <1>7, <1>8 DEF Next

LEMMA InitDoors == Init => DoorInv
<1> SUFFICES ASSUME Init PROVE DoorInv
  OBVIOUS
<1>1. Run \in Job /\ jobs = [j \in Job |-> NoTicket("absent")]
  BY RunAssumption DEF Init, StoreInit
<1>2. jobs[Run].attempt = 0
  BY <1>1 DEF NoTicket
<1>3. QED
  BY <1>2 DEF Init, StreamInit, DoorInv, NoSweep

LEMMA NextKeepsDoors ==
  ASSUME TypeInv, TypeInv', DoorInv, [Next]_vars
  PROVE  DoorInv'
<1>1. /\ jobs[Run].attempt \in Nat /\ jobs'[Run].attempt \in Nat
      /\ row \in Row /\ row.attempt \in Nat /\ row'.attempt \in Nat /\ row.floor \in Nat
      /\ row.attempt <= jobs[Run].attempt
      /\ sweep'.attempt \in Nat /\ Onward(Run)
  BY TypeFacts, TicketGoesOn DEF TypeInv, TypeOK, Row, StoreTypeOK, Ticket, DoorInv
<1>2. CASE jobs[Run].status = "absent"
  <2>1. /\ row'.attempt = 0 /\ sweep'.attempt = 0
        /\ status' = "none" /\ sweep' = NoSweep /\ "cancel" \notin owed'
    BY <1>1, <1>2, AbsentWaits DEF DoorInv, NoSweep
  <2>2. jobs'[Run].status = "absent" => jobs'[Run].attempt = 0 /\ owed' = {}
    BY <1>2, AbsentWaits DEF DoorInv
  <2>3. QED
    BY <1>1, <2>1, <2>2 DEF DoorInv
<1>3. CASE jobs[Run].status # "absent"
  <2>1. jobs'[Run].status # "absent" /\ jobs[Run].attempt <= jobs'[Run].attempt
    BY <1>3, <1>1 DEF Onward
  <2>2. row'.attempt <= jobs'[Run].attempt /\ sweep'.attempt <= jobs'[Run].attempt
    BY <1>1, <2>1, RowMoves, SweepAttempt
  <2>3. ASSUME "cancel" \in owed'
        PROVE  row'.status \in Finished
    <3>1. CASE "cancel" \in owed
      BY <3>1, FinalRow DEF DoorInv
    <3>2. CASE Cancel
      <4>1. Persist(jobs[Run].attempt, "cancelled", row.floor)
        BY <3>2 DEF Cancel
      <4>2. row.status \in Finished \/ row'.status = "cancelled"
        BY <1>1, <4>1, PersistOutcome
      <4>3. QED
        BY <4>2, FinalRow DEF Finished
    <3>3. QED
      BY <2>3, <3>1, <3>2, SweepAttempt
  <2>4. QED
    BY <2>1, <2>2, <2>3 DEF DoorInv
<1>4. QED
  BY <1>2, <1>3

\* Neither the counter nor the generation goes back.
Forward == counter <= counter' /\ gen <= gen'

LEMMA ProducersGoForward ==
  ASSUME StreamOK
  PROVE  /\ UNCHANGED <<counter, gen>> => Forward
         /\ \A g \in Nat : BeginAttempt(g) => Forward
         /\ \A g \in Nat : ResetRunEvents(g) => Forward
         /\ \A p : \A g \in Nat : StartRun(p, g) => Forward
         /\ \A p : \A g \in Nat : TakeIndex(p, g) => Forward
         /\ \A idx : \A g \in Nat : AppendEvent(g, idx) => Forward
         /\ \A p, s : \A g \in Nat : CompleteRun(p, s, g) => Forward
         /\ \A p, s : CompleteAnyway(p, s) => Forward
         /\ \A reopenable : \A floor \in Nat : ReopenRun(reopenable, floor) => Forward
<1>1. counter \in Nat /\ gen \in Nat
  BY DEF StreamOK, StreamTypeOK
<1>2. UNCHANGED <<counter, gen>> => Forward
  BY <1>1 DEF Forward
<1>3. /\ \A g \in Nat : BeginAttempt(g) => Forward
      /\ \A g \in Nat : ResetRunEvents(g) => Forward
      /\ \A p : \A g \in Nat : StartRun(p, g) => Forward
  BY <1>1 DEF BeginAttempt, ResetRunEvents, StartRun, Current, Forward, keys
<1>4. /\ \A p : \A g \in Nat : TakeIndex(p, g) => Forward
      /\ \A idx : \A g \in Nat : AppendEvent(g, idx) => Forward
  BY <1>1 DEF TakeIndex, AppendEvent, Current, Forward, keys
<1>5. /\ \A p, s : \A g \in Nat : CompleteRun(p, s, g) => Forward
      /\ \A p, s : CompleteAnyway(p, s) => Forward
  BY <1>1 DEF CompleteRun, CompleteAnyway, Current, Forward, keys
<1>6. \A reopenable : \A floor \in Nat : ReopenRun(reopenable, floor) => Forward
  BY <1>1 DEF ReopenRun, Forward, keys
<1>7. QED
  BY <1>2, <1>3, <1>4, <1>5, <1>6

\* No step but an expiry sets them back, and only tails move the tails.
LEMMA StepsGoForward ==
  ASSUME TypeInv, [Next]_vars
  PROVE  \/ Forward /\ UNCHANGED tails
         \/ Expire
         \/ \E c \in Client : (Attach(c) \/ TailStep(c)) /\ Unchanged
<1>1. StreamOK /\ sweep.attempt \in Nat /\ row.floor \in Nat
  BY TypeFacts DEF TypeInv, TypeOK, Row
<1>2. ASSUME UNCHANGED stream \/ (UNCHANGED keys /\ UNCHANGED tails)
      PROVE  Forward /\ UNCHANGED tails
  BY <1>1, <1>2, ProducersGoForward DEF stream, keys
<1>3. ASSUME NEW l \in legs, Execute(l) \/ Publish(l)
      PROVE  Forward /\ UNCHANGED tails
  <2>1. l.attempt \in Nat
    BY TypeFacts
  <2>2. CASE Stamp(l) \/ Abort(l) \/ Enter(l) \/ PersistError(l) \/ Settle(l)
             \/ \E result \in Endings : Finish(l, result)
    BY <1>2, <2>2 DEF Stamp, Abort, Enter, PersistError, Settle, Finish
  <2>3. CASE Honor(l) \/ Close(l) \/ Begin(l) \/ Reset(l) \/ Start(l)
    BY <1>1, <2>1, <2>3, ProducersGoForward DEF Honor, Close, Begin, Reset, Start
  <2>4. CASE Publish(l) \/ Tell(l) \/ AppendTaken(l)
    BY <1>1, <2>1, <2>4, ProducersGoForward, EventTaken DEF AppendTaken
  <2>5. CASE Reopen(l)
    <3>1. PICK floor \in Nat : floor = IF counter = 0 THEN row.floor ELSE 0
      BY <1>1
    <3>2. QED
      BY <1>1, <2>5, <3>1, ProducersGoForward DEF Reopen
  <2>6. QED
    BY <1>3, <2>2, <2>3, <2>4, <2>5 DEF Execute
<1>4. CASE \E w \in Worker : Claim(w) \/ Acquire(w) \/ Crash(w)
                              \/ (StopsRefreshing(w) /\ Unchanged)
  BY <1>2, <1>4 DEF Claim, Acquire, Crash, StopsRefreshing
<1>5. CASE Sweep
  <2>1. CASE Reconcile
    BY <1>1, <2>1, ProducersGoForward DEF Reconcile, keys
  <2>2. CASE TerminateSwept
    BY <1>1, <2>2, ProducersGoForward DEF TerminateSwept
  <2>3. CASE Deface \/ SettleSwept
    BY <1>2, <2>3 DEF Deface, SettleSwept
  <2>4. QED
    BY <1>5, <2>1, <2>2, <2>3 DEF Sweep
<1>6. CASE Enqueue \/ Cancel \/ Continue \/ Requeue \/ Lapse
  BY <1>2, <1>6 DEF Enqueue, Cancel, Continue, Requeue, Lapse
<1>7. CASE \E door \in owed : Pay(door) \/ DoorDies(door)
  <2>1. PICK door \in owed : Pay(door) \/ DoorDies(door)
    BY <1>7
  <2>2. door \in {"register", "cancel", "reopen"}
    BY DEF TypeInv, TypeOK
  <2>3. CASE DoorDies(door)
    BY <1>2, <2>3 DEF DoorDies
  <2>4. CASE Pay(door)
    BY <1>1, <2>2, <2>4, ProducersGoForward DEF Pay
  <2>5. QED
    BY <2>1, <2>3, <2>4
<1>8. CASE UNCHANGED vars
  BY <1>2, <1>8 DEF vars
<1>9. QED
  BY <1>3, <1>4, <1>5, <1>6, <1>7, <1>8 DEF Next

\* A leg has taken the index that the counter had.
Took(x) ==
  /\ x.idx = counter /\ x.floor = counter'
  /\ \E l \in legs : Head(l.todo) \in {"exec", "tell"} /\ x.attempt = l.attempt

\* A leg has taken another step.
Moved(x, l) ==
  /\ x.attempt = l.attempt /\ x.floor = l.floor /\ Head(x.todo) # "append"
  /\ Head(x.todo) \in Stamped => Head(l.todo) \in Stamped \/ l.attempt <= row'.attempt

Came(x) == x.floor = 0 /\ Head(x.todo) = "stamp"

Origin(x) == x \in legs \/ (\E l \in legs : Moved(x, l)) \/ Took(x) \/ Came(x)

LEMMA LegMoves ==
  ASSUME TypeInv, [Next]_vars, NEW x \in legs'
  PROVE  Origin(x)
<1>1. /\ \A l \in legs : l \in Leg /\ WellOrdered(l) /\ l.attempt \in Nat
      /\ row \in Row /\ row.floor \in Nat /\ row.attempt \in Nat
      /\ counter \in Nat /\ gen \in Nat
  BY TypeFacts DEF Row
<1>2. ASSUME NEW l \in legs, NEW m, Becomes(l, m), m.todo # <<>> => Moved(m, l)
      PROVE  Origin(x)
  BY <1>2 DEF Becomes, Origin
<1>3. ASSUME NEW l \in legs, Done(l), Head(l.todo) # "stamp" \/ l.attempt <= row'.attempt
      PROVE  Origin(x)
  <2>1. PICK m : m = [l EXCEPT !.todo = Tail(@)]
    OBVIOUS
  <2>2. /\ m.todo # <<>> => Successor(l, Head(l.todo), Head(m.todo))
        /\ m.attempt = l.attempt /\ m.floor = l.floor
    BY <1>1, <2>1, DoneInOrder
  <2>3. m.todo # <<>> => Moved(m, l)
    BY <1>3, <2>2 DEF Successor, Moved, Stamped, Executing
  <2>4. QED
    BY <1>2, <1>3, <2>1, <2>3 DEF Done
<1>4. ASSUME NEW l \in legs, NEW result \in Results \ {"none"}, NEW told \in Telling(result),
             Head(l.todo) \in {"enter", "exec"}, Becomes(l, Through(l, result, told))
      PROVE  Origin(x)
  <2>1. PICK m : m = Through(l, result, told)
    OBVIOUS
  <2>2. Head(m.todo) # "append" /\ m.attempt = l.attempt
    BY <1>1, <2>1, EndingInOrder
  <2>3. m.floor = l.floor
    BY <1>1, <2>1 DEF Leg, Through
  <2>4. Moved(m, l)
    BY <1>4, <2>2, <2>3 DEF Moved, Stamped, Executing
  <2>5. QED
    BY <1>2, <1>4, <2>1, <2>4
<1>5. ASSUME NEW l \in legs, NEW t, NEW r, Head(t) = "settle",
             Becomes(l, [l EXCEPT !.todo = t, !.result = r])
      PROVE  Origin(x)
  <2>1. PICK m : m = [l EXCEPT !.todo = t, !.result = r]
    OBVIOUS
  <2>2. m.todo = t /\ m.attempt = l.attempt /\ m.floor = l.floor
    BY <1>1, <2>1 DEF Leg
  <2>3. Moved(m, l)
    BY <1>5, <2>2 DEF Moved, Stamped, Executing
  <2>4. QED
    BY <1>2, <1>5, <2>1, <2>3
<1>6. ASSUME NEW l \in legs, Stamp(l)
      PROVE  Origin(x)
  <2>1. \/ Becomes(l, [l EXCEPT !.todo = <<"settle", "honor">>, !.result = "none"])
        \/ Done(l) /\ l.attempt <= row'.attempt
    <3>1. CASE l.cont
      BY <1>1, <1>6, <3>1 DEF Stamp, Row
    <3>2. CASE ~l.cont
      BY <1>1, <1>6, <3>2 DEF Stamp, Persist, Refused
    <3>3. QED
      BY <3>1, <3>2
  <2>2. Head(<<"settle", "honor">>) = "settle"
    OBVIOUS
  <2>3. QED
    BY <1>3, <1>5, <1>6, <2>1, <2>2
<1>7. ASSUME NEW l \in legs, Abort(l)
      PROVE  Origin(x)
  <2>1. Head(<<"settle", "persist", "terminate">>) = "settle"
    OBVIOUS
  <2>2. QED
    BY <1>5, <1>7, <2>1 DEF Abort
<1>8. ASSUME NEW l \in legs, Enter(l)
      PROVE  Origin(x)
  <2>1. "permanent" \in Results \ {"none"} /\ <<>> \in Telling("permanent")
        /\ Head(l.todo) = "enter" /\ l \in Leg
    BY <1>1, <1>8 DEF Results, Telling, Enter, On
  <2>2. row.status = "cancelled" => Becomes(l, Through(l, "permanent", <<>>))
    BY <1>8, <2>1, RefusedEntry
  <2>3. row.status # "cancelled" => Done(l)
    BY <1>8 DEF Enter
  <2>4. QED
    BY <1>3, <1>4, <2>1, <2>2, <2>3
<1>9. ASSUME NEW l \in legs, NEW result \in Endings, Finish(l, result)
      PROVE  Origin(x)
  <2>1. result \in Results \ {"none"} /\ Head(l.todo) = "exec"
    BY <1>9, EndingsAssumption DEF Results, Returned, Finish, On
  <2>2. PICK told \in Telling(result) : Becomes(l, Through(l, result, told))
    BY <1>1, <1>9, FinishedLeg
  <2>3. QED
    BY <1>4, <2>1, <2>2
<1>10. ASSUME NEW l \in legs, Settle(l)
       PROVE  Origin(x)
  <2>1. PICK m : m = [l EXCEPT !.todo = <<>>]
    OBVIOUS
  <2>2. m.todo = <<>>
    BY <1>1, <2>1 DEF Leg
  <2>3. Head(l.todo) # "stamp" /\ (Done(l) \/ Becomes(l, m))
    BY <1>10, <2>1 DEF Settle, On
  <2>4. QED
    BY <1>2, <1>3, <2>2, <2>3
<1>11. ASSUME NEW l \in legs, Publish(l) \/ Tell(l)
       PROVE  Origin(x)
  <2>1. Head(l.todo) \in {"exec", "tell"} /\ TakeIndex(l.worker, l.attempt)
    BY <1>11, EventTaken
  <2>2. CASE Current(l.attempt)
    <3>1. PICK m \in Leg : Becomes(l, m) /\ Adding(l, m)
      BY <1>11, <2>2, EventTaken
    <3>2. counter' = counter + 1
      BY <2>1, <2>2 DEF TakeIndex
    <3>3. m.idx = counter /\ m.floor = counter' /\ m.attempt = l.attempt
      BY <3>1, <3>2 DEF Adding
    <3>4. Took(m)
      BY <2>1, <3>3 DEF Took
    <3>5. QED
      BY <3>1, <3>4 DEF Becomes, Origin
  <2>3. CASE ~Current(l.attempt)
    <3>1. legs' = legs \/ Done(l)
      BY <1>11, <2>3, EventTaken
    <3>2. QED
      BY <1>3, <2>1, <3>1 DEF Origin
  <2>4. QED
    BY <2>2, <2>3
<1>12. ASSUME NEW l \in legs, Execute(l)
       PROVE  Origin(x)
  BY <1>3, <1>6, <1>7, <1>8, <1>9, <1>10, <1>11, <1>12 DEF Execute, Honor, Begin, Reset,
     Reopen, Start, AppendTaken, Close, PersistError, On
<1>13. ASSUME NEW w \in Worker, Claim(w)
       PROVE  Origin(x)
  BY <1>13, ClaimedInOrder DEF Came, Origin
<1>14. ASSUME \/ Sweep \/ Enqueue \/ Cancel \/ Continue \/ Requeue \/ Lapse \/ Expire
              \/ \E w \in Worker : Acquire(w) \/ Crash(w) \/ (StopsRefreshing(w) /\ Unchanged)
              \/ \E door \in owed : Pay(door) \/ DoorDies(door)
              \/ \E c \in Client : (Attach(c) \/ TailStep(c)) /\ Unchanged
              \/ UNCHANGED vars
       PROVE  x \in legs
  BY <1>14 DEF Sweep, Reconcile, Deface, TerminateSwept, SettleSwept, SweepQuiet, Enqueue,
     Cancel, Continue, Requeue, DoorQuiet, Lapse, Expire, Acquire, Crash, Unchanged, Pay,
     DoorDies, vars
<1>15. QED
  BY <1>11, <1>12, <1>13, <1>14 DEF Next, Origin

LEMMA InitStamped == Init => StampInv
  BY DEF Init, StampInv

LEMMA NextKeepsStamps ==
  ASSUME "lateLeg" \notin Env, TypeInv, TypeInv', DoorInv, StampInv, [Next]_vars
  PROVE  StampInv'
<1>1. /\ counter \in Nat /\ counter' \in Nat /\ row.attempt \in Nat /\ row'.attempt \in Nat
      /\ \A l \in legs : l.floor \in Nat /\ l.attempt \in Nat
  BY TypeFacts DEF Row, TypeInv, TypeOK, StreamTypeOK
<1>2. row.attempt <= row'.attempt
  BY RowMoves
<1>3. CASE Expire
  BY <1>3 DEF Expire, StampInv
<1>4. CASE ~Expire
  <2>1. counter <= counter'
    BY <1>1, <1>4, StepsGoForward, TypeFacts, TailsKeepTypes DEF Forward, keys
  <2>2. ASSUME NEW l \in legs
        PROVE  /\ l.floor <= counter'
               /\ Head(l.todo) \in Stamped => l.attempt <= row'.attempt
    BY <1>1, <1>2, <2>1 DEF StampInv
  <2>3. ASSUME NEW x \in legs'
        PROVE  /\ x.floor <= counter'
               /\ Head(x.todo) \in Stamped => x.attempt <= row'.attempt
    <3>1. CASE x \in legs
      BY <2>2, <3>1
    <3>2. CASE \E l \in legs : Moved(x, l)
      BY <2>2, <3>2 DEF Moved
    <3>3. CASE Took(x)
      BY <1>1, <2>2, <3>3 DEF Took, Stamped, Executing
    <3>4. CASE Came(x)
      BY <1>1, <3>4 DEF Came, Stamped, Executing
    <3>5. QED
      BY <3>1, <3>2, <3>3, <3>4, LegMoves DEF Origin
  <2>4. QED
    BY <2>3 DEF StampInv
<1>5. QED
  BY <1>3, <1>4

\* What a tail yields lies below n if all events of the stream do.
LEMMA ReadsStayPast ==
  ASSUME StreamOK, NEW n \in Nat, \A i \in Kept : IsEvent(i) => At(i).idx < n,
         Past(n), NEW c \in Client, Attach(c) \/ TailStep(c)
  PROVE  \A d \in Client : tails'[d].next <= n
<1>1. tails \in [Client -> Reader] /\ tails[c] \in Reader /\ End \in Nat
  BY KeptEntries DEF StreamOK, StreamTypeOK
<1>2. tails[c].next \in Nat /\ tails[c].next <= n
  BY <1>1 DEF Reader, Past
<1>3. ASSUME NEW t \in Reader, Goes(c, t), t.next <= n
      PROVE  \A d \in Client : tails'[d].next <= n
  BY <1>1, <1>3 DEF Goes, Past
<1>4. ASSUME NEW to \in Nat
      PROVE  After(tails[c], to) \in Reader /\ After(tails[c], to).next <= n
  <2>1. \A i \in Yielded(tails[c], to) : At(i).idx < n /\ At(i).idx \in Nat
    BY KeptEntries DEF Yielded, IsEvent, Entry
  <2>2. Highest(tails[c], to) \in Nat /\ Highest(tails[c], to) <= n
    BY <1>1, <1>2, <2>1, HighestFound
  <2>3. QED
    BY <1>1, <2>2 DEF After, Reader
<1>5. \A t \in Reader : /\ Ends(t) \in Reader /\ Ends(t).next = t.next
                        /\ \A pc \in {"away", "replay", "read", "peek", "probe"} :
                             /\ [t EXCEPT !.pc = pc] \in Reader
                             /\ [t EXCEPT !.pc = pc].next = t.next
  BY DEF Ends, Reader
<1>6. CASE Attach(c)
  BY <1>1, <1>2, <1>3, <1>5, <1>6 DEF Attach
<1>7. CASE Replay(c)
  BY <1>1, <1>3, <1>4, <1>5, <1>7 DEF Replay
<1>8. CASE Read(c)
  BY <1>3, <1>4, <1>5, <1>8, <1>1, BatchEnds DEF Read
<1>9. CASE Peek(c) \/ ReadsNothing(c) \/ Probe(c)
  BY <1>1, <1>2, <1>3, <1>5, <1>9 DEF Peek, ReadsNothing, Probe
<1>10. QED
  BY <1>6, <1>7, <1>8, <1>9 DEF TailStep

\* A reading tail learns of nothing that the counter or the writer of the next event is
\* not past.
LEMMA ReadsKeepCount ==
  ASSUME TypeInv, OrderInv, CountInv, NEW c \in Client, Attach(c) \/ TailStep(c), Unchanged
  PROVE  CountInv'
<1>1. /\ StreamOK /\ counter \in Nat /\ log \in Seq(Entry)
      /\ UNCHANGED keys /\ UNCHANGED <<jobs, row, cont, legs, sweep, owed>>
  BY TypeFacts, TailsKeepTypes DEF Unchanged
<1>2. ASSUME NEW n \in Nat, \A i \in Kept : IsEvent(i) => At(i).idx < n, New(n)
      PROVE  (\A d \in Client : tails'[d].next <= n) \/ (cont' /\ row'.floor <= n)
  BY <1>1, <1>2, ReadsStayPast DEF New
<1>3. \A i \in Kept : IsEvent(i) => At(i).idx < counter /\ At(i).idx \in Nat
  BY <1>1, KeptEntries DEF IsEvent, Entry
<1>4. New(counter) => New(counter)'
  BY <1>1, <1>2, <1>3 DEF New, Past, keys
<1>5. Lost => Lost'
  BY <1>1 DEF Lost, Cancelling, keys
<1>6. ASSUME NEW l \in legs, Head(l.todo) = "append", gen = l.attempt, New(l.idx)
      PROVE  New(l.idx)'
  <2>1. l.idx \in Nat
    BY TypeFacts
  <2>2. \A i \in Kept : IsEvent(i) => At(i).idx < l.idx
    BY <1>1, <1>6, KeptEntries DEF OrderInv, WriterInv, IsEvent
  <2>3. QED
    BY <1>2, <1>6, <2>1, <2>2 DEF New, Past
<1>7. QED
  BY <1>1, <1>4, <1>5, <1>6 DEF CountInv, keys

\* A run that is over, and whose next execution would continue it, stays as it is
\* until somebody continues it.
LEMMA FinishedStaysLost ==
  ASSUME TypeInv, DoorInv, "lateRetry" \notin Env, Lost, ~cont, [Next]_vars,
         UNCHANGED tails, row'.status \notin Finished
  PROVE  Lost'
<1>1. /\ jobs[Run].status \notin {"absent", "queued", "running"}
      /\ status = "none" /\ owed = {} /\ sweep = NoSweep /\ legs = {}
      /\ row \in Row /\ row.attempt \in Nat /\ row.attempt <= jobs[Run].attempt
      /\ jobs[Run].attempt \in Nat /\ row.floor \in Nat
  BY TypeFacts DEF Lost, DoorInv, Row
<1>2. sweep.pc = "idle"
  BY <1>1 DEF NoSweep
<1>3. ~Sweep
  BY <1>2 DEF Sweep, Reconcile, Deface, TerminateSwept, SettleSwept
<1>4. /\ \A w \in Worker : ~Claim(w) /\ ~Acquire(w)
      /\ ~Enqueue /\ ~Requeue /\ ~Lapse /\ ~Expire
  BY <1>1 DEF Claim, ClaimJob, Candidate, Reclaimable, Acquire, AcquireSweep, Sweepable,
     Enqueue, EnqueueJob, Requeue, Lapse, LeaseLapses, Expire, KeysExpire
<1>5. ~Cancel
  <2>1. SUFFICES ASSUME Cancel PROVE FALSE
    OBVIOUS
  <2>2. Persist(jobs[Run].attempt, "cancelled", row.floor)
    BY <2>1 DEF Cancel
  <2>3. row.status \in Finished \/ row'.status = "cancelled"
    BY <1>1, <2>2, PersistOutcome
  <2>4. QED
    BY <2>3, FinalRow DEF Finished
<1>6. CASE Continue
  BY <1>1, <1>6 DEF Continue, DoorQuiet, Lost, stream, keys
<1>7. CASE \/ \E w \in Worker : Crash(w) \/ (StopsRefreshing(w) /\ Unchanged)
           \/ \E c \in Client : (Attach(c) \/ TailStep(c)) /\ Unchanged
           \/ UNCHANGED vars
  <2>1. UNCHANGED <<jobs, row, cont, legs, owed, keys>> /\ sweep' = NoSweep
    <3>1. \A c \in Client : Attach(c) \/ TailStep(c) => UNCHANGED keys
      BY TypeFacts, TailsKeepTypes
    <3>2. QED
      BY <1>1, <1>7, <3>1 DEF Crash, StopsRefreshing, Unchanged, vars, stream
  <2>2. QED
    BY <1>1, <2>1 DEF Lost, keys
<1>8. QED
  BY <1>1, <1>3, <1>4, <1>5, <1>6, <1>7 DEF Next

\* The steps of a leg that is to continue a lost run: reopening the stream seeds the
\* counter from the row, and the user's cancel finishes the row.
LEMMA LegSeeds ==
  ASSUME TypeInv, DoorInv, "aborted" \in Endings => AbortInv, Lost, cont,
         NEW l \in legs, Execute(l) \/ Publish(l), row'.status \notin Finished
  PROVE  Lost' \/ New(counter)'
<1>1. /\ l \in Leg /\ WellOrdered(l) /\ l.cont /\ l.result \in Results
      /\ counter = 0 /\ status \in {"none", "pending", "paused", "error"}
      /\ row \in Row /\ row.floor \in Nat
  BY TypeFacts DEF Lost, Row
<1>2. ASSUME NEW m, Becomes(l, m), counter' = counter, status' = status, cont' = cont,
             m.todo # <<>> => /\ m.cont
                              /\ \/ Head(m.todo) \in {"stamp", "begin", "reopen"}
                                 \/ Cancelling(m)
      PROVE  Lost'
  <2>1. \A x \in legs' : x \in legs \/ (x = m /\ m.todo # <<>>)
    BY <1>2 DEF Becomes
  <2>2. QED
    BY <1>2, <2>1 DEF Lost, Cancelling
<1>3. PICK m : m = [l EXCEPT !.todo = Tail(@)]
  OBVIOUS
<1>4. /\ m.cont = l.cont /\ m.result = l.result /\ m.todo = Tail(l.todo)
      /\ m.todo # <<>> => Successor(l, Head(l.todo), Head(m.todo))
  BY <1>1, <1>3, DoneInOrder DEF Leg
<1>5. Done(l) => Becomes(l, m)
  BY <1>3 DEF Done
<1>6. Head(l.todo) \in {"stamp", "begin", "reopen"} \/ Cancelling(l)
  BY DEF Lost
<1>7. CASE Stamp(l) \/ Begin(l)
  <2>1. Head(l.todo) \in {"stamp", "begin"} /\ Done(l)
    BY <1>1, <1>7 DEF Stamp, Begin, On
  <2>2. m.todo # <<>> => m.cont /\ Head(m.todo) \in {"begin", "reopen"}
    BY <1>1, <1>4, <2>1 DEF Successor
  <2>3. counter' = counter /\ status' = status /\ cont' = cont
    BY <1>7 DEF Stamp, Begin, BeginAttempt, LegQuiet, stream, keys
  <2>4. QED
    BY <1>2, <1>5, <2>1, <2>2, <2>3
<1>8. CASE Abort(l)
  <2>1. PICK n : n = Interrupted(l)
    OBVIOUS
  <2>2. /\ Becomes(l, n) /\ counter' = counter /\ status' = status /\ cont' = cont
        /\ "aborted" \in Endings
    BY <1>8, <2>1 DEF Abort, Interrupted, LegQuiet, stream, keys
  <2>3. n.cont /\ Head(n.todo) = "settle" /\ n.result = "aborted"
    BY <1>1, <2>1, <2>2, InterruptedInOrder
  <2>4. QED
    BY <1>2, <2>2, <2>3 DEF Cancelling
<1>9. CASE Reopen(l)
  <2>1. ReopenRun({"paused", "error"}, row.floor) /\ row' = row /\ cont' = cont
    BY <1>1, <1>9 DEF Reopen, LegQuiet
  <2>2. counter' = row.floor
    BY <1>1, <2>1 DEF ReopenRun
  <2>3. QED
    BY <1>1, <2>1, <2>2 DEF New
<1>10. ASSUME Cancelling(l), Settle(l)
       PROVE  Lost'
  <2>1. /\ l.result = "aborted" /\ Head(l.todo) = "settle" /\ l.todo \in Aborted
    BY <1>1, <1>10 DEF Cancelling, Settle, On, WellOrdered
  <2>2. Done(l) /\ UNCHANGED stream /\ cont' = cont
    BY <1>10, <2>1 DEF Settle, LegQuiet
  <2>3. m.todo = <<"persist", "terminate">>
    <3>1. /\ Head(<<"close", "settle", "persist", "terminate">>) = "close"
          /\ Head(<<"persist", "terminate">>) = "persist"
          /\ Head(<<"terminate">>) = "terminate"
          /\ Tail(<<"settle", "persist", "terminate">>) = <<"persist", "terminate">>
      OBVIOUS
    <3>2. QED
      BY <1>4, <2>1, <3>1 DEF Aborted
  <2>4. Cancelling(m) /\ m.cont
    <3>1. Head(<<"persist", "terminate">>) = "persist"
      OBVIOUS
    <3>2. QED
      BY <1>1, <1>4, <2>1, <2>3, <3>1 DEF Cancelling
  <2>5. QED
    BY <1>2, <1>5, <2>2, <2>4 DEF stream, keys
<1>11. ~(Cancelling(l) /\ PersistError(l))
  <2>1. SUFFICES ASSUME Cancelling(l), PersistError(l) PROVE FALSE
    OBVIOUS
  <2>2. l.result = "aborted" /\ "aborted" \in Endings
    BY <1>1, <2>1 DEF Cancelling, Results
  <2>3. row'.status \in Finished
    BY <2>1, <2>2, CancelIsWritten DEF DoorInv
  <2>4. QED
    BY <2>3
<1>12. \/ Stamp(l) \/ Abort(l) \/ Begin(l) \/ Reopen(l)
       \/ Cancelling(l) /\ (Settle(l) \/ PersistError(l))
  <2>1. CASE Head(l.todo) \in {"stamp", "begin", "reopen"}
    BY <2>1 DEF Execute, Publish, On, Honor, Reset, Start, Enter, AppendTaken, Tell, Close,
       PersistError, Settle, Finish
  <2>2. CASE Cancelling(l)
    BY <2>2 DEF Cancelling, Execute, Publish, On, Stamp, Abort, Begin, Reopen, Honor, Reset,
       Start, Enter, AppendTaken, Tell, Close, Finish
  <2>3. QED
    BY <1>6, <2>1, <2>2
<1>13. QED
  BY <1>7, <1>8, <1>9, <1>10, <1>11, <1>12

\* Everybody else leaves a run that is to be continued as lost as it is.
LEMMA ContinuedStaysLost ==
  ASSUME TypeInv, DoorInv, "aborted" \in Endings => AbortInv, Lost, cont, [Next]_vars,
         ~Expire, row.status \notin Finished, row'.status \notin Finished
  PROVE  Lost' \/ New(counter)'
<1>1. /\ row \in Row /\ row.floor \in Nat /\ sweep.attempt \in Nat
      /\ counter = 0 /\ status \in {"none", "pending", "paused", "error"}
      /\ row.attempt <= jobs[Run].attempt /\ jobs[Run].attempt \in Nat
      /\ owed \subseteq {"register", "cancel", "reopen"} /\ "cancel" \notin owed
  BY TypeFacts DEF Lost, Row, DoorInv, TypeInv, TypeOK
<1>2. ASSUME counter' = counter, status' \in {"none", "pending", "paused", "error"},
             cont', \A l \in legs' : l \in legs
      PROVE  Lost'
  BY <1>1, <1>2 DEF Lost, Cancelling
<1>3. ASSUME UNCHANGED keys, cont' = cont, legs' \subseteq legs
      PROVE  Lost'
  BY <1>1, <1>2, <1>3 DEF keys
<1>4. ASSUME NEW w \in Worker, Claim(w) PROVE Lost'
  <2>1. PICK n \in Leg : legs' = legs \cup {n} /\ n.cont = cont /\ Head(n.todo) = "stamp"
    BY <1>4, ClaimedInOrder
  <2>2. UNCHANGED <<stream, row, cont>>
    BY <1>4 DEF Claim
  <2>3. QED
    BY <1>1, <2>1, <2>2 DEF Lost, Cancelling, stream, keys
<1>5. CASE Sweep
  <2>1. cont' = cont /\ legs' = legs
    BY <1>5 DEF Sweep, Reconcile, Deface, TerminateSwept, SettleSwept, SweepQuiet
  <2>2. CASE Reconcile
    <3>1. UNCHANGED keys \/ CompleteRun(sweep.worker, "paused", sweep.attempt)
      <4>1. CASE row.status \in Finished \cup {"paused"}
        BY <2>2, <4>1 DEF Reconcile
      <4>2. CASE row.status \notin Finished \cup {"paused"}
        <5>1. UNCHANGED <<log, head, counter, status, gen>>
          BY <2>2, <4>2 DEF Reconcile, keys
        <5>2. QED
          BY <5>1 DEF keys
      <4>3. QED
        BY <4>1, <4>2
    <3>2. UNCHANGED keys \/ (counter' = counter /\ status' = "paused")
      BY <3>1 DEF CompleteRun, Terminate
    <3>3. QED
      BY <1>1, <1>2, <1>3, <2>1, <3>2
  <2>3. CASE Deface \/ SettleSwept
    BY <1>3, <2>1, <2>3 DEF Deface, SettleSwept, stream
  <2>4. CASE TerminateSwept
    <3>1. CompleteRun(sweep.worker, "error", sweep.attempt)
      BY <2>4 DEF TerminateSwept
    <3>2. UNCHANGED keys \/ (counter' = counter /\ status' = "error")
      BY <3>1 DEF CompleteRun, Terminate
    <3>3. QED
      BY <1>1, <1>2, <1>3, <2>1, <3>2
  <2>5. QED
    BY <1>5, <2>2, <2>3, <2>4 DEF Sweep
<1>6. CASE Enqueue \/ Requeue \/ Lapse
  BY <1>3, <1>6 DEF Enqueue, Requeue, Lapse, DoorQuiet, stream
<1>7. CASE Continue
  BY <1>1, <1>2, <1>7 DEF Continue, DoorQuiet, stream, keys
<1>8. ~Cancel
  <2>1. SUFFICES ASSUME Cancel PROVE FALSE
    OBVIOUS
  <2>2. Persist(jobs[Run].attempt, "cancelled", row.floor)
    BY <2>1 DEF Cancel
  <2>3. row'.status = "cancelled"
    BY <1>1, <2>2, PersistOutcome
  <2>4. QED
    BY <2>3 DEF Finished
<1>9. CASE \E door \in owed : Pay(door) \/ DoorDies(door)
  <2>1. PICK door \in owed : Pay(door) \/ DoorDies(door)
    BY <1>9
  <2>2. door \in {"register", "reopen"}
    BY <1>1
  <2>3. CASE DoorDies(door)
    BY <1>3, <2>3 DEF DoorDies, stream
  <2>4. CASE Pay(door)
    <3>1. cont' = cont /\ legs' = legs
      BY <2>4 DEF Pay, DoorQuiet
    <3>2. CASE door = "register"
      BY <1>1, <1>2, <2>4, <3>1, <3>2 DEF Pay, RegisterRun
    <3>3. CASE door = "reopen"
      <4>1. ReopenRun({"paused"}, 0)
        BY <2>4, <3>3 DEF Pay
      <4>2. UNCHANGED keys \/ (counter' = counter /\ status' = "pending")
        BY <1>1, <4>1 DEF ReopenRun
      <4>3. QED
        BY <1>1, <1>2, <1>3, <3>1, <4>2
    <3>4. QED
      BY <2>2, <3>2, <3>3
  <2>5. QED
    BY <2>1, <2>3, <2>4
<1>10. CASE \/ \E w \in Worker : \/ Acquire(w) \/ Crash(w)
                                 \/ StopsRefreshing(w) /\ Unchanged
            \/ UNCHANGED vars
  BY <1>3, <1>10 DEF Acquire, SweepQuiet, Crash, StopsRefreshing, Unchanged, vars, stream
<1>11. CASE \E c \in Client : (Attach(c) \/ TailStep(c)) /\ Unchanged
  BY <1>3, <1>11, TypeFacts, TailsKeepTypes DEF Unchanged
<1>12. QED
  BY <1>4, <1>5, <1>6, <1>7, <1>8, <1>9, <1>10, <1>11, LegSeeds DEF Next

\* The keys expire when nobody executes the run, and a ticket that waits continues it.
LEMMA ExpiryLoses ==
  ASSUME DoorInv, {"lateLeg", "lateRetry"} \cap Env = {}, Expire
  PROVE  CountInv'
<1>1. /\ status # "none" /\ legs = {} /\ sweep = NoSweep /\ owed = {}
      /\ cont \/ jobs[Run].status \notin {"queued", "running"}
      /\ counter' = 0 /\ status' = "none"
      /\ UNCHANGED <<jobs, row, cont, legs, sweep, owed>>
  BY DEF Expire, KeysExpire
<1>2. jobs[Run].status # "absent"
  BY <1>1 DEF DoorInv
<1>3. Lost' /\ legs' = {}
  BY <1>1, <1>2 DEF Lost
<1>4. QED
  BY <1>3 DEF CountInv

\* A ticket that continues its run does so from then on.
LEMMA ContinuesOn ==
  ASSUME [Next]_vars, cont
  PROVE  cont'
<1>1. ASSUME NEW l \in legs, Publish(l) \/ Tell(l) PROVE cont' = cont
  BY <1>1 DEF Publish, Tell, AddEvent, LegQuiet
<1>2. ASSUME NEW l \in legs, Execute(l) \/ Publish(l) PROVE cont' = cont
  BY <1>1, <1>2 DEF Execute, Stamp, Abort, Honor, Begin, Reset, Reopen, Start, Enter,
     AppendTaken, Close, PersistError, Settle, Finish, LegQuiet
<1>3. ASSUME Sweep \/ Enqueue \/ Cancel \/ Continue \/ Requeue \/ Lapse \/ Expire
      PROVE  cont' = cont \/ cont'
  BY <1>3 DEF Sweep, Reconcile, Deface, TerminateSwept, SettleSwept, SweepQuiet, Enqueue,
     Cancel, Continue, Requeue, Lapse, Expire
<1>4. ASSUME \/ \E w \in Worker : \/ Claim(w) \/ Acquire(w) \/ Crash(w)
                                  \/ StopsRefreshing(w) /\ Unchanged
             \/ \E door \in owed : Pay(door) \/ DoorDies(door)
             \/ \E c \in Client : (Attach(c) \/ TailStep(c)) /\ Unchanged
             \/ UNCHANGED vars
      PROVE  cont' = cont
  BY <1>4 DEF Claim, Acquire, SweepQuiet, Crash, Unchanged, Pay, DoorDies, vars
<1>5. QED
  BY <1>2, <1>3, <1>4 DEF Next

\* What is new stays so: no tail moves, and a component saves no index that the counter
\* is not past, nor any while another leg of a current attempt has one to append.
LEMMA NewStays ==
  ASSUME TypeInv, OrderInv, DoorInv, StampInv, [Next]_vars, UNCHANGED tails
  PROVE  /\ New(counter) => \A n \in Nat : counter <= n => New(n)'
         /\ \A l \in legs : Head(l.todo) = "append" /\ gen = l.attempt /\ New(l.idx) =>
              New(l.idx)'
<1>1. /\ counter \in Nat /\ gen \in Nat /\ row \in Row /\ row.floor \in Nat
      /\ row.attempt \in Nat
      /\ \A l \in legs : l.attempt \in Nat /\ l.floor \in Nat /\ l.idx \in Nat
      /\ tails \in [Client -> Reader]
  BY TypeFacts DEF Row, StreamOK, StreamTypeOK
<1>2. \A c \in Client : tails[c].next \in Nat
  BY <1>1 DEF Reader
<1>3. cont => cont'
  BY ContinuesOn
<1>4. row'.floor = row.floor \/ \E l \in legs : Saves(l)
  BY RowMoves
<1>5. ASSUME NEW l \in legs, Saves(l)
      PROVE  row'.floor = row.floor \/ row'.floor <= counter
  <2>1. l.floor <= counter /\ row'.floor = Stored(l)
    BY <1>5 DEF StampInv, Saves
  <2>2. Stored(l) \in {0, l.floor, row.floor}
    BY <1>1 DEF Stored
  <2>3. QED
    BY <1>1, <2>1, <2>2
<1>6. ASSUME New(counter), NEW n \in Nat, counter <= n
      PROVE  New(n)'
  <2>1. CASE Past(counter)
    BY <1>1, <1>2, <1>6, <2>1 DEF Past, New
  <2>2. CASE cont /\ row.floor <= counter
    <3>1. row'.floor = row.floor \/ row'.floor <= counter
      BY <1>4, <1>5
    <3>2. row'.floor \in Nat /\ row'.floor <= counter
      <4>1. ASSUME NEW l \in legs, Saves(l) PROVE row'.floor \in Nat
        BY <1>1, <4>1, StoredNatural DEF Saves
      <4>2. QED
        BY <1>1, <1>4, <2>2, <3>1, <4>1
    <3>3. QED
      BY <1>1, <1>3, <1>6, <2>2, <3>2 DEF New
  <2>3. QED
    BY <1>6, <2>1, <2>2 DEF New
<1>7. ASSUME NEW l \in legs, Head(l.todo) = "append", gen = l.attempt, New(l.idx)
      PROVE  New(l.idx)'
  <2>1. ASSUME NEW k \in legs, Saves(k) PROVE FALSE
    <3>1. /\ k.attempt <= row.attempt /\ l.attempt <= row.attempt
          /\ row.attempt <= k.attempt /\ k.attempt <= gen
      BY <1>7, <2>1 DEF StampInv, Stamped, Executing, Saves, OrderInv, WriterInv
    <3>2. k.attempt = l.attempt
      BY <1>1, <1>7, <3>1
    <3>3. QED
      BY <1>7, <2>1, <3>2 DEF TypeInv, Saves
  <2>2. row'.floor = row.floor
    BY <1>4, <2>1
  <2>3. QED
    BY <1>3, <1>7, <2>2 DEF New, Past
<1>8. QED
  BY <1>6, <1>7

LEMMA NextKeepsCount ==
  ASSUME {"lateLeg", "lateRetry"} \cap Env = {}, "aborted" \in Endings => AbortInv,
         TypeInv, TypeInv', OrderInv, DoorInv, StampInv, CountInv, [Next]_vars
  PROVE  CountInv'
<1>1. CASE Expire
  BY <1>1, ExpiryLoses
<1>2. CASE \E c \in Client : (Attach(c) \/ TailStep(c)) /\ Unchanged
  BY <1>2, ReadsKeepCount
<1>3. CASE Forward /\ UNCHANGED tails /\ ~Expire
  <2> SUFFICES ASSUME row'.status \notin Finished
               PROVE  /\ New(counter)' \/ Lost'
                      /\ \A x \in legs' : Head(x.todo) = "append" /\ gen' = x.attempt =>
                           New(x.idx)'
    BY DEF CountInv
  <2>1. /\ counter \in Nat /\ counter' \in Nat /\ gen \in Nat /\ gen' \in Nat
        /\ \A l \in legs : l.attempt \in Nat
    BY TypeFacts DEF TypeInv, TypeOK, StreamTypeOK
  <2>2. row.status \notin Finished
    BY FinalRow
  <2>3. New(counter) => New(counter)'
    BY <1>3, <2>1, NewStays DEF Forward
  <2>4. CASE Lost
    <3>1. New(counter)' \/ Lost'
      BY <1>3, <2>2, <2>4, FinishedStaysLost, ContinuedStaysLost
    <3>2. ASSUME NEW l \in legs
          PROVE  Head(l.todo) \notin {"append", "exec", "tell"}
      BY <2>4 DEF Lost, Cancelling
    <3>3. ASSUME NEW x \in legs', Head(x.todo) = "append" PROVE FALSE
      BY <3>2, <3>3, LegMoves DEF Origin, Moved, Took, Came
    <3>4. QED
      BY <3>1, <3>3
  <2>5. CASE New(counter)
    <3>1. ASSUME NEW x \in legs', Head(x.todo) = "append", gen' = x.attempt
          PROVE  New(x.idx)'
      <4>1. CASE x.idx = counter
        BY <1>3, <2>1, <2>5, <4>1, NewStays
      <4>2. CASE x \in legs
        <5>1. x.attempt <= gen
          BY <3>1, <4>2 DEF OrderInv, WriterInv, Executing
        <5>2. gen = x.attempt
          BY <1>3, <2>1, <3>1, <4>2, <5>1 DEF Forward
        <5>3. New(x.idx)
          BY <2>2, <3>1, <4>2, <5>2 DEF CountInv
        <5>4. QED
          BY <1>3, <3>1, <4>2, <5>2, <5>3, NewStays
      <4>3. QED
        BY <3>1, <4>1, <4>2, LegMoves DEF Origin, Moved, Took, Came
    <3>2. QED
      BY <2>3, <2>5, <3>1
  <2>6. QED
    BY <2>2, <2>4, <2>5 DEF CountInv
<1>4. QED
  BY <1>1, <1>2, <1>3, StepsGoForward

LEMMA InitCounts == Init => CountInv
<1> SUFFICES ASSUME Init PROVE CountInv
  OBVIOUS
<1>1. /\ counter = 0 /\ legs = {}
      /\ tails = [c \in Client |-> [pc |-> "away", from |-> 0, next |-> 0]]
  BY DEF Init, StreamInit
<1>2. QED
  BY <1>1 DEF CountInv, New, Past

\* The event that a step adds is that of a leg which has taken its index under the
\* current attempt.
LEMMA EventIsNew ==
  ASSUME TypeInv, OrderInv, CountInv, [Next]_vars,
         End' > End, log'[Len(log')].kind = "event", row.status \notin Finished
  PROVE  New(log'[Len(log')].idx)
<1>1. /\ log \in Seq(Entry) /\ head \in Nat /\ Len(log) \in Nat /\ gen \in Nat
      /\ \A l \in legs : l.attempt \in Nat
  BY TypeFacts DEF StreamOK, StreamTypeOK
<1>2. ~(UNCHANGED keys)
  BY <1>1 DEF keys, End
<1>3. Grows
  BY <1>2, StepsGrow
<1>4. ~Unmoved /\ ~Cleared
  <2>1. ~Unmoved
    BY <1>1 DEF Unmoved, End
  <2>2. Cleared => End' = End
    <3>1. ASSUME Cleared PROVE End' = End
      <4>1. Len(log') = 0 /\ head' = End /\ End \in Nat
        BY <1>1, <3>1 DEF Cleared, End
      <4>2. QED
        BY <4>1 DEF End
    <3>2. QED
      BY <3>1
  <2>3. QED
    BY <1>1, <2>1, <2>2 DEF End
<1>5. PICK e \in Entry :
        /\ Gains(e)
        /\ e.kind = "event" =>
             \E l \in legs : Head(l.todo) = "append" /\ Current(l.attempt) /\ e.idx = l.idx
  BY <1>3, <1>4 DEF Grows
<1>6. log'[Len(log')] = e
  BY <1>1, <1>5, Appended DEF Gains
<1>7. PICK l \in legs : Head(l.todo) = "append" /\ Current(l.attempt) /\ e.idx = l.idx
  BY <1>5, <1>6
<1>8. gen = l.attempt
  <2>1. l.attempt <= gen
    BY <1>7 DEF OrderInv, WriterInv, Executing
  <2>2. QED
    BY <1>1, <1>7, <2>1 DEF Current
<1>9. New(l.idx)
  BY <1>7, <1>8 DEF CountInv
<1>10. QED
  BY <1>6, <1>7, <1>9

\* An event of a run that is not finished is new to every client, across retries,
\* continuations, keys that expired and writers that were given up for dead; but the
\* continuation of a pause may give an index out again that the row does not hold.  The
\* user's cancel of a leg that waits is not taken together with lapses under live legs
\* or lost endings: such a leg may show the stream cancelled, which a continuation that
\* was granted meanwhile does not reopen.
THEOREM IndicesAreNew ==
  ASSUME {"lateLeg", "lateRetry"} \cap Env = {},
         "aborted" \in Endings => {"falseLapse", "lostEnd"} \cap Env = {}
  PROVE  Spec => EventsAreNew
<1> DEFINE Held == /\ TypeInv /\ OrderInv /\ DoorInv /\ StampInv /\ CountInv
                   /\ "aborted" \in Endings => LeaseInv /\ AbortInv
<1>1. Init => Held
  BY InitTyped, InitOrdered, InitDoors, InitStamped, InitCounts, InitLeased, InitAborts
<1>2. Held /\ [Next]_vars => Held'
  BY NextKeepsTypes, NextKeepsOrder, NextKeepsDoors, NextKeepsStamps, NextKeepsCount,
     NextKeepsLease, NextKeepsAbort
<1>3. Held /\ [Next]_vars =>
        [End' > End /\ log'[Len(log')].kind = "event" /\ row.status \notin Finished =>
           LET idx == log'[Len(log')].idx
           IN  (\A c \in Client : tails[c].next <= idx) \/ (cont /\ row.floor <= idx)]_vars
  BY EventIsNew DEF New, Past
<1>4. QED
  BY <1>1, <1>2, <1>3, PTL DEF Spec, EventsAreNew

=============================================================================
