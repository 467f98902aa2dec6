---------------------------- MODULE MCScheduler -----------------------------
(***************************************************************************)
(* Instances of Scheduler for TLC.                                         *)
(***************************************************************************)
EXTENDS Scheduler, TLC

CONSTANTS p1, p2, s1, s2

Symmetry == Permutations(Poller) \cup Permutations(Schedule)
=============================================================================
