---------------------------- MODULE MCRunStream -----------------------------
(***************************************************************************)
(* Instances of RunStream for TLC: one run, two replicas, one client.      *)
(***************************************************************************)
EXTENDS RunStream, TLC

CONSTANTS w1, w2

NoSessions == [j \in Job |-> NoSession]
ServeAll == [w \in Worker |-> Job]
Symmetry == Permutations(Worker)
=============================================================================
