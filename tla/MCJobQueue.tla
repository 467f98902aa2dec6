----------------------------- MODULE MCJobQueue -----------------------------
(***************************************************************************)
(* Instances of JobQueue for TLC.                                          *)
(***************************************************************************)
EXTENDS JobQueueTurns, TLC

CONSTANTS w1, w2, s1

OneSession == [j \in Job |-> s1]
ServeAll == [w \in Worker |-> Job]
=============================================================================
