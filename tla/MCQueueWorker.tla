--------------------------- MODULE MCQueueWorker ----------------------------
(***************************************************************************)
(* Instances of QueueWorker for TLC: one run without a session.            *)
(***************************************************************************)
EXTENDS QueueWorker, TLC

CONSTANTS w1, w2, s1

NoSessions == [j \in Job |-> NoSession]
ServeAll == [w \in Worker |-> Job]
Symmetry == Permutations(Worker)
=============================================================================
