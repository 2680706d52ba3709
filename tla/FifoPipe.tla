------------------------------ MODULE FifoPipe ------------------------------
(***************************************************************************)
(* What a byte channel promises its two ends: items leave in the order in  *)
(* which they entered, each once, and nothing is invented.  Several items  *)
(* may enter or leave in one step.                                         *)
(***************************************************************************)
EXTENDS Integers, Sequences

VARIABLES waiting,   \* entered and not yet left, oldest first
          passed     \* left, oldest first

Init == waiting = <<>> /\ passed = <<>>

Put == /\ Len(waiting') > Len(waiting)
       /\ SubSeq(waiting', 1, Len(waiting)) = waiting
       /\ passed' = passed

Take == \E n \in 1 .. Len(waiting) :
          /\ passed' = passed \o SubSeq(waiting, 1, n)
          /\ waiting' = SubSeq(waiting, n + 1, Len(waiting))

Spec == Init /\ [][Put \/ Take]_<<waiting, passed>>

(* The weaker promise of a channel that may forget the newest of what waits: order
   is kept, nothing arrives twice, and what has older items before it survives them. *)
Lose == /\ \E n \in 0 .. Len(waiting) - 1 : waiting' = SubSeq(waiting, 1, n)
        /\ passed' = passed

LossySpec == Init /\ [][Put \/ Take \/ Lose]_<<waiting, passed>>
=============================================================================
