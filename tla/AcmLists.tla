------------------------------ MODULE AcmLists ------------------------------
(***************************************************************************)
(* The intrusive lists of buffer descriptors (m_acm_send_list and the      *)
(* other three of uvc_camera.c), as sequences of descriptors.              *)
(***************************************************************************)
EXTENDS Integers, Sequences

\* list_head links a descriptor into one list at a time.
NoRepeat(s) == \A i, j \in 1 .. Len(s) : s[i] = s[j] => i = j
In(d, s) == \E i \in 1 .. Len(s) : s[i] = d
=============================================================================
