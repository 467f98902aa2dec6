----------------------------- MODULE EventStream -----------------------------
(***************************************************************************)
(* The event stream of one run: RedisEventStream of                        *)
(* agno/os/event_streams/redis.py, the contract of base.py.  Producers     *)
(* append events, sentinels and reopen markers to a log in Redis, under a  *)
(* fence on the attempt that writes; clients on any replica tail the log.  *)
(* Every operation below is one Redis transaction or script, hence atomic. *)
(*                                                                         *)
(* A position stands for a stream id: it counts what was ever appended, of *)
(* which the first head entries have been deleted.                         *)
(***************************************************************************)
EXTENDS Naturals, Sequences, FiniteSets

CONSTANTS
  Client,     \* clients that tail the run
  Process,    \* replicas
  ReadCount   \* the count of an XREAD

ASSUME ReadAssumption == ReadCount \in Nat \ {0}

VARIABLES
  log,        \* the entries of the stream key
  head,       \* the position before the first of them
  counter,    \* the counter key: the index of the next event
  status,     \* the status key, "none" when there is none
  gen,        \* the gen key: the writer generation, 0 when there is none
  enrolled,   \* the processes that refresh the keys: the run is in _active_runs
  tails       \* the tails, one per client

keys == <<log, head, counter, status, gen>>
stream == <<keys, enrolled, tails>>

Ended == {"completed", "error", "cancelled", "paused"}

\* gen is the writer's, 0 for a write that is not fenced.
Entry == [kind : {"event", "terminal", "reopen"}, idx : Nat, gen : Nat]

\* from   the last stream id the tail has seen
\* next   last_yielded + 1, also what the client attaches with again
Reader == [pc : {"away", "replay", "read", "peek", "probe"}, from : Nat, next : Nat]

StreamTypeOK ==
  /\ log \in Seq(Entry) /\ head \in Nat
  /\ counter \in Nat /\ gen \in Nat
  /\ status \in {"none", "pending", "running"} \cup Ended
  /\ enrolled \in SUBSET Process
  /\ tails \in [Client -> Reader]

StreamInit ==
  /\ log = <<>> /\ head = 0 /\ counter = 0 /\ gen = 0
  /\ status = "none" /\ enrolled = {}
  /\ tails = [c \in Client |->
       [pc |-> "away", from |-> 0, next |-> 0]]

End == head + Len(log)

\* The positions of the entries that are there.
Kept == head + 1 .. End

At(i) == log[i - head]

-----------------------------------------------------------------------------
(* The producers' side.  g is the caller's attempt. *)

\* _fenced_lifecycle and the fence scripts: refused if a newer attempt began.
Current(g) == gen <= g

Put(kind, idx, g) == log' = Append(log, [kind |-> kind, idx |-> idx, gen |-> g])

BeginAttempt(g) ==
  /\ gen' = IF gen < g THEN g ELSE gen
  /\ UNCHANGED <<log, head, counter, status>>

ResetRunEvents(g) ==
  IF Current(g)
  THEN gen' = g /\ head' = End /\ log' = <<>> /\ UNCHANGED <<counter, status>>
  ELSE UNCHANGED keys

RegisterRun == status' = IF status = "none" THEN "pending" ELSE status

\* register_run, then set_run_status(RUNNING) by process p.
StartRun(p, g) ==
  IF Current(g)
  THEN /\ gen' = g /\ status' = "running"
       /\ enrolled' = enrolled \cup {p}
       /\ UNCHANGED <<log, head, counter>>
  ELSE RegisterRun /\ UNCHANGED <<log, head, counter, gen, enrolled>>

\* _FENCED_INCR_LUA; add_event enrolls the process before it.
TakeIndex(p, g) ==
  /\ enrolled' = enrolled \cup {p}
  /\ IF Current(g)
     THEN gen' = g /\ counter' = counter + 1 /\ UNCHANGED <<log, head, status>>
     ELSE UNCHANGED keys

\* Mutant: the fence is checked when the index is taken and not again.
AppendUnfenced(g, idx) ==
  /\ Put("event", idx, g)
  /\ UNCHANGED <<head, counter, status, gen>>

\* _FENCED_XADD_LUA
AppendEvent(g, idx) ==
  /\ IF Current(g) THEN Put("event", idx, g) ELSE UNCHANGED log
  /\ UNCHANGED <<head, counter, status, gen>>

Terminate(s, g) == status' = s /\ Put("terminal", 0, g)

Enrollment(p, s) ==
  enrolled' = IF s = "paused" THEN enrolled \cup {p} ELSE enrolled \ {p}

\* Mutant: the sentinel is written whatever attempt has begun.
CompleteUnfenced(p, s, g) ==
  /\ Terminate(s, g) /\ Enrollment(p, s)
  /\ UNCHANGED <<head, counter, gen>>

\* complete_run under the fence of attempt g
CompleteRun(p, s, g) ==
  IF Current(g)
  THEN /\ Terminate(s, g) /\ gen' = g /\ Enrollment(p, s)
       /\ UNCHANGED <<head, counter>>
  ELSE UNCHANGED <<keys, enrolled>>

\* complete_run without a generation
CompleteAnyway(p, s) ==
  /\ Terminate(s, 0) /\ Enrollment(p, s)
  /\ UNCHANGED <<head, counter, gen>>

\* Mutant: the counter is not seeded.
ReopenUnseeded(reopenable, floor) ==
  IF status \in {"none", "pending"} \cup reopenable
  THEN /\ status' = "pending" /\ Put("reopen", 0, 0)
       /\ UNCHANGED <<head, counter, gen>>
  ELSE UNCHANGED keys

\* reopen_run: floor is one past the highest index the run row holds, 0 when
\* the caller passes none.
ReopenRun(reopenable, floor) ==
  IF status \in {"none", "pending"} \cup reopenable
  THEN /\ status' = "pending" /\ Put("reopen", 0, 0)
       /\ counter' = IF counter < floor THEN floor ELSE counter
       /\ UNCHANGED <<head, gen>>
  ELSE UNCHANGED keys

-----------------------------------------------------------------------------
(* The keys' life *)

\* A tick of _refresh_active_runs finds the run over, or its keys gone.
StopsRefreshing(p) ==
  /\ p \in enrolled /\ status \in {"none", "completed", "error", "cancelled"}
  /\ enrolled' = enrolled \ {p}
  /\ UNCHANGED <<keys, tails>>

\* Mutant: the stream key has no time to live.
AllButStreamExpire ==
  /\ enrolled = {} /\ status # "none"
  /\ status' = "none" /\ counter' = 0 /\ gen' = 0
  /\ UNCHANGED <<log, head, enrolled, tails>>

\* Nobody refreshes: the keys reach their time to live.
KeysExpire ==
  /\ enrolled = {} /\ status # "none"
  /\ status' = "none" /\ counter' = 0 /\ gen' = 0 /\ head' = End /\ log' = <<>>
  /\ UNCHANGED <<enrolled, tails>>

-----------------------------------------------------------------------------
(* tail() *)

\* What a tail yields of the entries up to position `to`: an event whose index
\* is past the last one it has yielded.
Yielded(t, to) ==
  LET events == {i \in Kept : t.from < i /\ i <= to /\ At(i).kind = "event"}
  IN  {i \in events : /\ At(i).idx >= t.next
                      /\ \A k \in events : k < i => At(k).idx < At(i).idx}

Highest(t, to) ==
  CHOOSE n \in {t.next} \cup {At(i).idx + 1 : i \in Yielded(t, to)} :
    \A i \in Yielded(t, to) : At(i).idx < n

After(t, to) ==
  [t EXCEPT !.from = to, !.next = Highest(t, to)]

Goes(c, t) == tails' = [tails EXCEPT ![c] = t] /\ UNCHANGED <<keys, enrolled>>

Ends(t) == [t EXCEPT !.pc = "away", !.from = 0]

\* A client attaches, again with the last index it has.
Attach(c) ==
  /\ tails[c].pc = "away" /\ status # "none"
  /\ Goes(c, [tails[c] EXCEPT !.pc = "replay"])

\* XRANGE of the whole stream; a sentinel ends the tail if it is the last entry.
Replay(c) ==
  LET t == After(tails[c], End)
  IN  /\ tails[c].pc = "replay"
      /\ Goes(c, IF Kept # {} /\ At(End).kind = "terminal"
                 THEN Ends(t)
                 ELSE [t EXCEPT !.pc = "read"])

\* The entries an XREAD after t.from returns.
Unread(t) == {i \in Kept : t.from < i}

BatchEnd(t) ==
  CHOOSE i \in Unread(t) :
    \/ Cardinality({k \in Unread(t) : k <= i}) = ReadCount
    \/ i = End /\ Cardinality(Unread(t)) <= ReadCount

Read(c) ==
  LET t == tails[c]
      to == BatchEnd(t)
  IN  /\ t.pc = "read" /\ Unread(t) # {}
      /\ Goes(c, [After(t, to) EXCEPT !.pc =
                    IF At(to).kind = "terminal" THEN "peek" ELSE "read"])

\* Mutant: a sentinel that ends a batch ends the tail.
PeekNothing(c) ==
  /\ tails[c].pc = "peek"
  /\ Goes(c, Ends(tails[c]))

\* The batch ended in a sentinel: does anything follow it?
Peek(c) ==
  LET t == tails[c]
  IN  /\ t.pc = "peek"
      /\ Goes(c, IF Unread(t) = {}
                 THEN Ends(t)
                 ELSE [t EXCEPT !.pc = "read"])

\* XREAD returns with nothing.
ReadsNothing(c) ==
  /\ tails[c].pc = "read" /\ Unread(tails[c]) = {}
  /\ Goes(c, [tails[c] EXCEPT !.pc = "probe"])

\* Then the status ends the tail, or keys of a running run that nobody
\* refreshes.
Probe(c) ==
  LET t == tails[c]
  IN  /\ t.pc = "probe"
      /\ Goes(c, IF \/ status = "none" \/ status \in Ended
                    \/ status = "running" /\ enrolled = {}
                 THEN Ends(t)
                 ELSE [t EXCEPT !.pc = "read"])

TailStep(c) == Replay(c) \/ Read(c) \/ Peek(c) \/ ReadsNothing(c) \/ Probe(c)
=============================================================================
