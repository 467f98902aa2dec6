---------------------------- MODULE SessionTurns ----------------------------
(***************************************************************************)
(* What the durable queue promises about sessions, with no store, lease,   *)
(* worker or attempt in it: "at most one live turn per session, in         *)
(* acceptance order" (agno/job_queue/session.py).  The accepted turns of a *)
(* session stand in line; only the turn that nobody stands ahead of may    *)
(* hold the session, and a turn that gives the session back without ending *)
(* (a retry, a continuation waiting to be claimed) keeps its place.        *)
(***************************************************************************)

CONSTANTS
  Turn,       \* the serialized tickets
  SessionOf   \* [Turn -> the session it belongs to]

VARIABLES
  line,       \* the turns that stand in line, those that hold a session too
  ahead,      \* <<t, u>>: t stands in line ahead of u, both of one session
  holding     \* the turns that are running or paused

vars == <<line, ahead, holding>>

Init == line = {} /\ ahead = {} /\ holding = {}

Fellows(t, turns) == {u \in turns : SessionOf[u] = SessionOf[t]}

\* A turn is accepted, for the first time or again: it goes to the end.
Accept(t) ==
  /\ t \notin line
  /\ line' = line \cup {t}
  /\ ahead' = ahead \cup (Fellows(t, line) \X {t})
  /\ UNCHANGED holding

\* The head of the line takes an idle session.
Begin(t) ==
  /\ t \in line
  /\ \A u \in line : <<u, t>> \notin ahead
  /\ Fellows(t, holding) = {}
  /\ holding' = holding \cup {t}
  /\ UNCHANGED <<line, ahead>>

\* The holder gives the session back without losing its place.
Yield(t) ==
  /\ t \in holding
  /\ holding' = holding \ {t}
  /\ UNCHANGED <<line, ahead>>

\* A turn ends, or is cancelled while it waits.
Leave(t) ==
  /\ t \in line
  /\ line' = line \ {t}
  /\ ahead' = {p \in ahead : p[1] # t /\ p[2] # t}
  /\ holding' = holding \ {t}

Next == \E t \in Turn : Accept(t) \/ Begin(t) \/ Yield(t) \/ Leave(t)

Spec == Init /\ [][Next]_vars
=============================================================================
