------------------------------ MODULE RunStream ------------------------------
(***************************************************************************)
(* A durable streaming run: its ticket (JobStore), the legs that execute   *)
(* it (QueueWorker._execute_streaming), the sweep, the cancel and continue *)
(* doors, and the event stream they all write (EventStream) while clients  *)
(* on any replica tail it.                                                 *)
(*                                                                         *)
(* The run row is reduced to what the stream depends on: a save happens at *)
(* once and does not fail (QueueWorker has the rest), and a cancel writes  *)
(* row and ticket in one step.                                             *)
(***************************************************************************)
EXTENDS JobStore, EventStream

CONSTANTS
  Run,        \* the ticket
  MaxBudget,  \* bound: a ticket this many attempts old is granted no more
  MaxEvents,  \* bound: events ever published
  MaxLog,     \* bound: no grant once the log has come this far
  Endings,    \* the ways a component comes to an end that an instance admits
  Env         \* the events of the environment an instance admits

ASSUME RunAssumption == Job = {Run} /\ Process = Worker
\* What a component returns.  An error is "unseen" if the stream of an agent or a
\* team ends in it: no output is yielded, and the worker takes the run for complete.
Returned == {"completed", "paused", "cancelled", "error", "unseen"}

ASSUME EndingsAssumption ==
  Endings \subseteq Returned \cup {"aborted", "exception", "permanent", "timeout", "drain"}
ASSUME EnvAssumption ==
  Env \subseteq {"cancel", "continue", "requeue", "crash", "falseLapse", "expire", "slowDoor",
                 "lostCancel", "lostEnd", "lateRetry", "lateLeg", "unstored"}

VARIABLES
  row,     \* the run row; floor is one past the highest event index it holds
  cont,    \* the ticket's payload has a continue block
  legs,    \* the executions of a claim
  sweep,   \* the sweep of the ticket, after it acquired it
  owed,    \* the stream writes that doors have yet to make
  alive

vars == <<jobs, stream, row, cont, legs, sweep, owed, alive>>

Row == [status : {"pending", "running", "paused", "error", "completed", "cancelled"},
        attempt : Nat, floor : Nat]

Steps == {"stamp", "honor", "begin", "reset", "reopen", "start", "enter", "exec", "append",
          "tell", "close", "persist", "settle", "terminate"}
Results == {"none", "permanent"} \cup Endings

\* todo   the steps the leg has yet to take, in order
\* idx    the index taken for an event that is yet to be appended
\* floor  one past the highest index the leg has stamped on an event
Leg == [worker : Worker, attempt : Nat, cont : BOOLEAN, last : BOOLEAN,
        todo : Seq(Steps), result : Results, idx : Nat, floor : Nat]

\* refused   the ERROR write was refused once by a finished row
NoSweep == [pc |-> "idle", worker |-> Nobody, attempt |-> 0, refused |-> FALSE]

\* Every type; the processes enrolled are live, and a run that is not known has
\* no entries.
TypeOK ==
  /\ StreamTypeOK
  /\ jobs \in [Job -> Ticket] /\ row \in Row
  /\ cont \in BOOLEAN /\ legs \in SUBSET Leg
  /\ sweep \in [pc : {"idle", "reconcile", "deface", "fail", "completed", "paused",
                      "cancelled", "failed"},
                worker : Worker \cup {Nobody}, attempt : Nat, refused : BOOLEAN]
  /\ owed \in SUBSET {"register", "cancel", "reopen"}
  /\ alive \in SUBSET Worker /\ enrolled \subseteq alive
  /\ status = "none" => log = <<>>

Init ==
  /\ StoreInit /\ StreamInit
  /\ row = [status |-> "pending", attempt |-> 0, floor |-> 0]
  /\ cont = FALSE /\ legs = {} /\ sweep = NoSweep /\ owed = {} /\ alive = Worker

Finished == {"completed", "cancelled"}

\* The fenced write of the run row (QueueWorker's Persist).
Refused(attempt, s) ==
  \/ row.attempt > attempt
  \/ row.status \in Finished /\ s # row.status

Persist(attempt, s, floor) ==
  row' = IF Refused(attempt, s) THEN row
         ELSE [status |-> s, attempt |-> attempt, floor |-> floor]

-----------------------------------------------------------------------------
(* A leg *)

Claim(w) ==
  /\ w \in alive /\ ClaimJob(w, Run)
  /\ LET attempt == jobs[Run].attempt + 1
     IN  legs' = legs \cup
           {[worker |-> w, attempt |-> attempt, cont |-> cont,
             last |-> attempt >= jobs[Run].maxAttempts,
             todo |-> <<"stamp", "begin">>
                        \o (IF cont THEN <<"reopen", "start", "enter">>
                            ELSE IF attempt > 1 THEN <<"reset", "start">>
                            ELSE <<"start">>)
                        \o <<"exec">>,
             result |-> "none", idx |-> 0, floor |-> 0]}
  /\ UNCHANGED <<stream, row, cont, sweep, owed, alive>>

On(l, step) == l \in legs /\ Head(l.todo) = step

Becomes(l, m) == legs' = (legs \ {l}) \cup (IF m.todo = <<>> THEN {} ELSE {m})

Done(l) == Becomes(l, [l EXCEPT !.todo = Tail(@)])

LegQuiet == UNCHANGED <<cont, sweep, owed, alive>>

\* The attempt goes on the row, with RUNNING unless it continues a pause; a
\* finished row is honored and not executed.
Stamp(l) ==
  /\ On(l, "stamp")
  /\ IF l.cont
     THEN /\ row' = IF row.attempt > l.attempt THEN row
                    ELSE [row EXCEPT !.attempt = l.attempt]
          /\ Done(l)
     ELSE /\ Persist(l.attempt, "running", row.floor)
          /\ IF row.attempt <= l.attempt /\ row.status \in Finished
             THEN Becomes(l, [l EXCEPT !.todo = <<"settle", "honor">>,
                                       !.result = "none"])
             ELSE Done(l)
  /\ UNCHANGED <<jobs, stream>> /\ LegQuiet

\* The user's cancel meets the leg while it waits for its slot.
Abort(l) ==
  /\ "aborted" \in Endings /\ On(l, "stamp")
  /\ row' = IF row.attempt > l.attempt THEN row ELSE [row EXCEPT !.attempt = l.attempt]
  /\ Becomes(l, [l EXCEPT !.todo = <<"settle", "persist", "terminate">>,
                          !.result = "aborted"])
  /\ UNCHANGED <<jobs, stream>> /\ LegQuiet

\* _ahonor_terminal_row, after the ticket.
Honor(l) ==
  /\ On(l, "honor") /\ Done(l)
  /\ CompleteRun(l.worker, row.status, l.attempt)
  /\ UNCHANGED <<jobs, row, tails>> /\ LegQuiet

Begin(l) ==
  /\ On(l, "begin") /\ Done(l)
  /\ BeginAttempt(l.attempt)
  /\ UNCHANGED <<jobs, row, enrolled, tails>> /\ LegQuiet

Reset(l) ==
  /\ On(l, "reset") /\ Done(l)
  /\ ResetRunEvents(l.attempt)
  /\ UNCHANGED <<jobs, row, enrolled, tails>> /\ LegQuiet

\* Not fenced; an ERROR is reopened, and a lost counter seeded from the row.
Reopen(l) ==
  /\ On(l, "reopen") /\ Done(l)
  /\ ReopenRun({"paused", "error"}, IF counter = 0 THEN row.floor ELSE 0)
  /\ UNCHANGED <<jobs, row, enrolled, tails>> /\ LegQuiet

Start(l) ==
  /\ On(l, "start") /\ Done(l)
  /\ StartRun(l.worker, l.attempt)
  /\ UNCHANGED <<jobs, row, tails>> /\ LegQuiet

\* add_event in its two halves; a refusal at either loses the event.
AddEvent(l, rest) ==
  /\ TakeIndex(l.worker, l.attempt)
  /\ Becomes(l, IF Current(l.attempt)
                THEN [l EXCEPT !.todo = <<"append">> \o rest, !.idx = counter,
                               !.floor = counter + 1]
                ELSE [l EXCEPT !.todo = rest])
  /\ UNCHANGED <<jobs, row, tails>> /\ LegQuiet

Publish(l) ==
  /\ On(l, "exec") /\ counter < MaxEvents /\ End < MaxLog
  /\ AddEvent(l, l.todo)

\* The event that tells of the ending, once the row is saved.
Tell(l) == On(l, "tell") /\ AddEvent(l, Tail(l.todo))

AppendTaken(l) ==
  /\ On(l, "append") /\ Done(l)
  /\ AppendEvent(l.attempt, l.idx)
  /\ UNCHANGED <<jobs, row, enrolled, tails>> /\ LegQuiet

\* Mutant: an exception passes the sentinel by.
EndingWithoutFinally(result, last) ==
  CASE result \in {"completed", "paused", "cancelled"} -> <<"close", "settle">>
    [] result = "aborted" -> <<"settle", "persist", "terminate">>
    [] result \in {"error", "unseen"} /\ last -> <<"close", "settle">>
    [] result \in {"error", "unseen"} /\ ~last -> <<"settle">>
    [] OTHER -> IF last THEN <<"persist", "settle">> ELSE <<"settle">>

\* What is left to do when the component is through: the sentinel, unless the
\* run will be retried, and then what _execute_claimed_inner makes of it.
Ending(result, last) ==
  CASE result \in {"completed", "paused", "cancelled"} -> <<"close", "settle">>
    [] result = "aborted" -> <<"close", "settle", "persist", "terminate">>
    [] result = "permanent" ->
         (IF last THEN <<"close">> ELSE <<>>) \o <<"persist", "settle", "terminate">>
    [] result \in {"error", "unseen", "exception", "timeout", "drain"} /\ ~last -> <<"settle">>
    [] result \in {"error", "unseen"} /\ last -> <<"close", "settle">>
    [] result = "exception" /\ last -> <<"close", "persist", "settle">>
    [] result = "timeout" /\ last -> <<"close", "persist", "terminate", "settle">>
    [] result = "drain" /\ last -> <<"close", "persist", "settle", "terminate">>

\* The component refuses to continue a cancelled run.
Enter(l) ==
  /\ On(l, "enter")
  /\ IF row.status = "cancelled"
     THEN Becomes(l, [l EXCEPT !.todo = Ending("permanent", l.last),
                               !.result = "permanent"])
     ELSE Done(l)
  /\ UNCHANGED <<jobs, stream, row>> /\ LegQuiet

\* One past the highest index in the events of the component, if it stores them:
\* a continuation adds to those that the row holds.
Stored(l) ==
  CASE "unstored" \in Env -> 0
    [] "unstored" \notin Env /\ l.floor > 0 -> l.floor
    [] "unstored" \notin Env /\ l.floor = 0 -> IF l.cont THEN row.floor ELSE 0

\* The component saves its row and returns, or is interrupted.  The event that tells
\* of the ending, if there is one, has no index when the row is saved, and is not
\* saved again.  A door that is not slow has reopened the stream before.
Finish(l, result) ==
  /\ On(l, "exec")
  /\ "slowDoor" \in Env \/ "reopen" \notin owed
  /\ \E told \in {<<>>} \cup (IF result \in Returned THEN {<<"tell">>} ELSE {}) :
       Becomes(l, [l EXCEPT !.result = result, !.todo = told \o Ending(result, l.last)])
  /\ CASE result \in Returned \ {"unseen"} -> Persist(l.attempt, result, Stored(l))
       [] result = "unseen" -> Persist(l.attempt, "error", Stored(l))
       [] result \notin Returned -> UNCHANGED row
  /\ UNCHANGED <<jobs, stream>> /\ LegQuiet

\* The terminal status of the stream.
Shown(result) ==
  CASE result \in {"completed", "paused"} -> result
    [] result \in {"cancelled", "aborted"} -> "cancelled"
    [] OTHER -> "error"

Close(l) ==
  /\ On(l, "close") \/ On(l, "terminate")
  /\ Done(l)
  /\ CompleteRun(l.worker, Shown(l.result), l.attempt)
  /\ UNCHANGED <<jobs, row, tails>> /\ LegQuiet

\* _persist_run_error, with the status CANCELLED if the user's cancel ended the run.
PersistError(l) ==
  /\ On(l, "persist") /\ Done(l)
  /\ Persist(l.attempt, IF l.result = "aborted" THEN "cancelled" ELSE "error", row.floor)
  /\ UNCHANGED <<jobs, stream>> /\ LegQuiet

\* The ticket write, refused if the leg lost its lease.  After a drain the
\* stream is terminated only if the ticket failed.
Settle(l) ==
  /\ On(l, "settle")
  /\ \/ /\ CASE l.result \in {"completed", "unseen"} ->
                  CompleteJob(l.worker, Run, l.attempt, "completed")
             [] l.result = "paused" ->
                  CompleteJob(l.worker, Run, l.attempt, "paused")
             [] l.result \in {"cancelled", "aborted"} ->
                  CompleteJob(l.worker, Run, l.attempt, "cancelled")
             [] l.result = "none" ->
                  CompleteJob(l.worker, Run, l.attempt, row.status)
             [] l.result = "permanent" ->
                  CompleteJob(l.worker, Run, l.attempt, "failed")
             [] OTHER -> RetryOrFailJob(l.worker, Run, l.attempt, TRUE)
        /\ Done(l)
     \/ /\ ~OwnsLease(l.worker, Run, l.attempt) /\ UNCHANGED jobs
        /\ IF l.result = "drain" THEN Becomes(l, [l EXCEPT !.todo = <<>>]) ELSE Done(l)
  /\ UNCHANGED <<stream, row>> /\ LegQuiet

Execute(l) ==
  \/ Stamp(l) \/ Abort(l) \/ Tell(l) \/ Honor(l) \/ Begin(l) \/ Reset(l) \/ Reopen(l) \/ Start(l)
  \/ Enter(l) \/ AppendTaken(l) \/ Close(l) \/ PersistError(l) \/ Settle(l)
  \/ \E result \in Endings : Finish(l, result)

-----------------------------------------------------------------------------
(* The sweep *)

SweepQuiet == UNCHANGED <<cont, legs, owed, alive>>

Acquire(w) ==
  /\ w \in alive /\ sweep = NoSweep
  /\ AcquireSweep(w, Run)
  /\ sweep' = [NoSweep EXCEPT !.pc = "reconcile", !.worker = w,
                              !.attempt = jobs[Run].attempt]
  /\ UNCHANGED <<stream, row>> /\ SweepQuiet

\* The row turned out not to be settled, or the ticket not to be the sweep's: the run
\* is failed, unless its row has refused that.
Unreconciled == IF sweep.refused THEN NoSweep ELSE [sweep EXCEPT !.pc = "deface"]

\* A settled row is shown on the stream.
Reconcile ==
  /\ sweep.pc = "reconcile"
  /\ IF row.status \in Finished \cup {"paused"}
     THEN /\ CompleteRun(sweep.worker, row.status, sweep.attempt)
          /\ sweep' = [sweep EXCEPT !.pc = row.status]
     ELSE /\ sweep' = Unreconciled
          /\ UNCHANGED <<keys, enrolled>>
  /\ UNCHANGED <<jobs, row, tails>> /\ SweepQuiet

\* The row is fenced: a newer attempt keeps row and stream, and a row that has settled
\* since is looked at once more.
Deface ==
  /\ sweep.pc = "deface"
  /\ Persist(sweep.attempt, "error", row.floor)
  /\ sweep' =
       CASE row.attempt > sweep.attempt -> [sweep EXCEPT !.pc = "failed"]
         [] row.attempt <= sweep.attempt /\ row.status \in Finished ->
              [sweep EXCEPT !.pc = "reconcile", !.refused = TRUE]
         [] row.attempt <= sweep.attempt /\ row.status \notin Finished ->
              [sweep EXCEPT !.pc = "fail"]
  /\ UNCHANGED <<jobs, stream>> /\ SweepQuiet

\* _terminate_stream_view before the ticket
TerminateSwept ==
  /\ sweep.pc = "fail"
  /\ CompleteRun(sweep.worker, "error", sweep.attempt)
  /\ sweep' = [sweep EXCEPT !.pc = "failed"]
  /\ UNCHANGED <<jobs, row, tails>> /\ SweepQuiet

SettleSwept ==
  /\ sweep.pc \in {"completed", "cancelled", "paused", "failed"}
  /\ \/ SettleSweptJob(sweep.worker, Run, sweep.pc) /\ sweep' = NoSweep
     \/ /\ jobs[Run].status # "running" \/ jobs[Run].lockedBy # sweep.worker
        /\ sweep' = IF sweep.pc = "failed" THEN NoSweep ELSE Unreconciled
        /\ UNCHANGED jobs
  /\ UNCHANGED <<stream, row>> /\ SweepQuiet

Sweep == Reconcile \/ Deface \/ TerminateSwept \/ SettleSwept

-----------------------------------------------------------------------------
(* The doors *)

DoorQuiet == UNCHANGED <<legs, sweep, alive>>

Enqueue ==
  /\ \E created \in Stamps : EnqueueJob(Run, created)
  /\ owed' = owed \cup {"register"}
  /\ UNCHANGED <<stream, row, cont>> /\ DoorQuiet

\* acancel_queued; the row and the ticket of a waiting run.
Cancel ==
  /\ "cancel" \in Env /\ CancelJob(Run)
  /\ Persist(jobs[Run].attempt, "cancelled", row.floor)
  /\ owed' = owed \cup {"cancel"}
  /\ UNCHANGED <<stream, cont>> /\ DoorQuiet

\* acontinue_via_queue
Continue ==
  /\ "continue" \in Env /\ row.status = "paused"
  /\ jobs[Run].attempt < MaxBudget /\ End < MaxLog
  /\ ContinueJob(Run)
  /\ cont' = TRUE /\ owed' = owed \cup {"reopen"}
  /\ UNCHANGED <<stream, row>> /\ DoorQuiet

\* The user's cancel ended the leg, which its row does not say yet.
Aborting(l) == l.result = "aborted" /\ Head(l.todo) # "terminate"

\* requeue_job; a fresh execution after the stream has expired is a late one.
Requeue ==
  /\ "requeue" \in Env
  /\ "lostEnd" \in Env \/ \A l \in legs : ~Aborting(l)
  /\ "lateRetry" \in Env \/ cont \/ status # "none"
  /\ jobs[Run].attempt < MaxBudget /\ End < MaxLog
  /\ RequeueJob(Run)
  /\ UNCHANGED <<stream, row, cont, owed>> /\ DoorQuiet

\* A door's stream write, not always before a leg gets there first.
Pay(door) ==
  /\ door \in owed /\ owed' = owed \ {door}
  /\ CASE door = "register" -> /\ RegisterRun
                               /\ UNCHANGED <<log, head, counter, gen, enrolled>>
       [] door = "reopen" -> ReopenRun({"paused"}, 0) /\ UNCHANGED enrolled
       [] door = "cancel" -> \E w \in alive : CompleteAnyway(w, "cancelled")
  /\ UNCHANGED <<jobs, row, cont, tails>> /\ DoorQuiet

-----------------------------------------------------------------------------
(* Time and failure *)

\* The ticket is settled, or about to be, and row or stream will not agree with it
\* before the leg has written them.
Lagging(l) == Aborting(l) \/ l.todo = <<"terminate">>

\* Somebody refreshes the lease, or took it a moment ago.
Attended ==
  \/ \E l \in legs : l.worker = jobs[Run].lockedBy /\ l.attempt = jobs[Run].attempt
  \/ sweep.worker = jobs[Run].lockedBy

\* A door's write takes less than a lease, unless it is slow.
Lapse ==
  /\ LeaseLapses(Run)
  /\ "falseLapse" \in Env \/ ~Attended
  /\ "slowDoor" \in Env \/ owed = {}
  /\ UNCHANGED <<stream, row, cont, legs, sweep, owed, alive>>

Crash(w) ==
  /\ "crash" \in Env /\ w \in alive /\ alive \ {w} # {}
  /\ "lostEnd" \in Env \/ \A l \in legs : l.worker = w => ~Lagging(l)
  /\ alive' = alive \ {w} /\ enrolled' = enrolled \ {w}
  /\ legs' = {l \in legs : l.worker # w}
  /\ sweep' = IF sweep.worker = w THEN NoSweep ELSE sweep
  /\ UNCHANGED <<jobs, keys, tails, row, cont, owed>>

\* The replica of a door dies before its stream write; a cancel's is the one that
\* nothing makes up for.
DoorDies(door) ==
  /\ "crash" \in Env /\ door \in owed /\ owed' = owed \ {door}
  /\ door = "cancel" => "lostCancel" \in Env
  /\ UNCHANGED <<jobs, stream, row, cont, legs, sweep, alive>>

\* The keys outlive a leg that still writes, unless it is very late, and the wait of a
\* run for another fresh execution, unless that is very late.
Expire ==
  /\ "expire" \in Env /\ KeysExpire
  /\ \/ "lateLeg" \in Env
     \/ legs = {} /\ sweep = NoSweep /\ owed = {}
  /\ "lateRetry" \in Env \/ cont \/ jobs[Run].status \notin {"queued", "running"}
  /\ UNCHANGED <<jobs, row, cont, legs, sweep, owed, alive>>

Unchanged == UNCHANGED <<jobs, row, cont, legs, sweep, owed, alive>>

Next ==
  \/ \E w \in Worker : Claim(w) \/ Acquire(w) \/ Crash(w)
  \/ \E w \in Worker : StopsRefreshing(w) /\ Unchanged
  \/ \E l \in legs : Execute(l) \/ Publish(l)
  \/ Sweep \/ Enqueue \/ Cancel \/ Continue \/ Requeue
  \/ \E door \in owed : Pay(door) \/ DoorDies(door)
  \/ Lapse \/ Expire
  \/ \E c \in Client : (Attach(c) \/ TailStep(c)) /\ Unchanged

Spec == Init /\ [][Next]_vars

\* Live replicas claim, execute and sweep, a tail reads on, an unattended lease
\* lapses and keys that nobody refreshes expire.  No door is ever used, and a
\* door may never make the write it owes.
Fairness ==
  /\ SF_vars(\E w \in Worker : Claim(w)) /\ WF_vars(\E w \in Worker : Acquire(w))
  /\ WF_vars(Sweep) /\ WF_vars(Lapse /\ ~Attended) /\ WF_vars(Expire)
  /\ \A n \in 1 .. MaxBudget : WF_vars(\E l \in legs : l.attempt = n /\ Execute(l))
  /\ \A door \in {"register", "cancel", "reopen"} : WF_vars(Pay(door) \/ DoorDies(door))
  /\ \A w \in Worker : WF_vars(StopsRefreshing(w) /\ Unchanged)
  /\ \A c \in Client : WF_vars(TailStep(c) /\ Unchanged)

FairSpec == Spec /\ Fairness

-----------------------------------------------------------------------------
(* What a client sees *)

IsEvent(i) == At(i).kind = "event"

Tailing(c) == tails[c].pc # "away"

\* c has been given every event that the stream holds.
HasAll(c) == \A i \in Kept : IsEvent(i) => At(i).idx < tails'[c].next

\* The indices of the stream only increase, across retries, continuations, lost
\* counters and writers that were given up for dead ("strictly increasing").
StreamOrdered ==
  \A i, k \in Kept :
    IsEvent(i) /\ IsEvent(k) /\ i < k => At(i).idx < At(k).idx

\* An event of a run that is not finished is new to every client that could tail it:
\* no retry, continuation or writer given up for dead publishes under an index that a
\* client is past, for the client would filter it out ("a rewound index would make
\* them skip the retry's entire output").  When the log has expired, the
\* continuation of a pause may give an index out again, but none that the row holds:
\* the row of a pause lacks the index of the pause event itself, and every index if
\* the component does not store its events.
EventsAreNew ==
  [][End' > End /\ log'[Len(log')].kind = "event" /\ row.status \notin Finished =>
       LET idx == log'[Len(log')].idx
       IN  (\A c \in Client : tails[c].next <= idx) \/ (cont /\ row.floor <= idx)]_vars

\* A live leg never sits behind the sentinel of an attempt before its own, on
\* which every tail would end ("its sentinel cannot close this leg's tails").  A
\* continuation does if legs overlap: a leg that was given up for dead may leave
\* the stream "running" behind a sentinel, which reopen_run takes for open.
LiveStreamIsOpen ==
  \A l \in legs :
    Head(l.todo) \in {"exec", "append"} /\ gen = l.attempt /\ Kept # {}
      /\ At(End).kind = "terminal" /\ (l.cont => "falseLapse" \notin Env)
        => At(End).gen \in {0, l.attempt}

\* A tail that a sentinel ended has yielded every event the stream then held,
\* however far behind it was and however often the run had been paused.
SentinelEndsComplete ==
  [][\A c \in Client :
       tails[c].pc \in {"replay", "peek"} /\ tails'[c].pc = "away" => HasAll(c)]_vars

\* "Every active and future tail() for the run must finish once it has yielded
\* the remaining buffered events" (base.py), whatever ends it.
TailEndsComplete ==
  [][\A c \in Client :
       Tailing(c) /\ tails'[c].pc = "away" /\ status \in Ended => HasAll(c)]_vars

\* The worker took an error that it did not see for one to be retried, and wrote no
\* sentinel, then for a run that is complete, which is not retried.
Orphaned ==
  jobs[Run].status = "completed" /\ row.status = "error" /\ status = "running"

\* Every tail ends, whatever crashes under it, for a dead producer is noticed; but
\* nothing ends a tail when the worker lives on after an error that it did not see.
TailsEnd == \A c \in Client : Tailing(c) ~> ~Tailing(c) \/ Orphaned

=============================================================================
