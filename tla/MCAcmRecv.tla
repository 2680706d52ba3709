----------------------------- MODULE MCAcmRecv -----------------------------
(* Model-checking instances of AcmRecv. *)
EXTENDS AcmRecv

Booleans == BOOLEAN
Accepts == {TRUE}
=============================================================================
