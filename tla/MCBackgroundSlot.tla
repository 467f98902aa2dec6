-------------------------- MODULE MCBackgroundSlot --------------------------
(***************************************************************************)
(* Instances of BackgroundSlot for TLC.  The runs are not interchangeable: *)
(* liveness is checked.                                                    *)
(***************************************************************************)
EXTENDS BackgroundSlot
=============================================================================
