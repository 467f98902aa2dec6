--------------------------- MODULE JobQueueTurns ----------------------------
(***************************************************************************)
(* JobQueue implements SessionTurns: the live tickets of a session stand   *)
(* in line in the order of session_seq, and those that are running or      *)
(* paused hold it.                                                         *)
(***************************************************************************)
EXTENDS JobQueue

Serialized(statuses) == {j \in Job : IsSerialized(j) /\ jobs[j].status \in statuses}

\* The line of every session: who goes before whom.
SessionLine ==
  {p \in Serialized(Live) \X Serialized(Live) :
     SessionOf[p[1]] = SessionOf[p[2]] /\ Before(p[1], p[2])}

SessionHolders == Serialized(Holding)

Turns == INSTANCE SessionTurns WITH
  Turn <- {j \in Job : IsSerialized(j)},
  line <- Serialized(Live), ahead <- SessionLine, holding <- SessionHolders

\* At most one live turn per session, in acceptance order (session.py,
\* store.py): a ticket holds its session only from the head of the line, a
\* retry or a continuation keeps its place and a requeue goes to the end.
AcceptanceOrder == Turns!Spec
=============================================================================
