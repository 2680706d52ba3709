---------------------------- MODULE MCUvcStream ----------------------------
(* Model-checking instances of UvcStream. *)
EXTENDS UvcStream

CONSTANTS f1, f2, f3, null
MCFrames == {f1, f2, f3}
OneFormat == {1}
TwoFormats == {1, 2}
Accepts == {TRUE}
=============================================================================
