------------------------- MODULE MCTransferCommands -------------------------
(* Model-checking instance of TransferCommands: three partitions, so that a package has
   two neighbours, two packed items and one after an item that was skipped. *)
EXTENDS TransferCommands
=============================================================================
