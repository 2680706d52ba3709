---------------------------- MODULE MCUvcGadget ----------------------------
(* Model-checking instances of UvcGadget. *)
EXTENDS UvcGadget

MCReqs == 1 .. 4
MCAlts == {0, 1}
=============================================================================
