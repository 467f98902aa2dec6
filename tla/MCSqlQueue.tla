----------------------------- MODULE MCSqlQueue -----------------------------
(***************************************************************************)
(* An instance of SqlQueue for TLC.                                        *)
(***************************************************************************)
EXTENDS SqlQueue, JobQueueTurns, TLC

CONSTANTS w1, w2, s1, r1, r2

OneSession == [j \in Job |-> s1]
ServeAll == [w \in Worker |-> Job]

\* Workers and requests are told apart by nothing.
Symmetry == Permutations(Worker) \cup Permutations(Request)
=============================================================================
