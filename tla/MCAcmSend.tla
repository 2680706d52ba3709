----------------------------- MODULE MCAcmSend -----------------------------
(* Model-checking instances of AcmSend. *)
EXTENDS AcmSend

CONSTANTS s1, s2, noData
MCSenders == {s1}
TwoSenders == {s1, s2}
Booleans == BOOLEAN
Accepts == {TRUE}
=============================================================================
