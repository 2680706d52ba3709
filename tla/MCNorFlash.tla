----------------------------- MODULE MCNorFlash -----------------------------
(* Model-checking instance of NorFlash: two sectors of two pages of one cell. *)
EXTENDS NorFlash

MCBits == {0}
MCStarts == {1, 2, 4}
MCLengths == {0, 2, 6}
MCBounds == {2, 4}
=============================================================================
