---------------------------- MODULE MCNandFlash -----------------------------
(* Model-checking instance of NandFlash: two blocks of two pages of two cells, the
   second block bad from the factory.  The requests: a cell in a page, the rest of
   the chip with a length that must be cut (part of the first block, all of the
   second), an address behind the chip. *)
EXTENDS NandFlash

MCFactory == {1}
MCUnreadable == {{}, {0}}
MCRequests == {<<1, 1>>, <<1, 9>>, <<8, 1>>}
=============================================================================
