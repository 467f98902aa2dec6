----------------------------- MODULE MCPollLoop -----------------------------
(***************************************************************************)
(* Instances of PollLoop for TLC: one replica, tickets without a session.  *)
(***************************************************************************)
EXTENDS PollLoop

CONSTANT w1

NoSessions == [j \in Job |-> NoSession]
ServeAll == [w \in Worker |-> Job]
=============================================================================
