------------------------- MODULE MCBlockTransaction -------------------------
(* BlockTransaction over the small block tree. *)
EXTENDS BlockTransaction, MCTree
=============================================================================
