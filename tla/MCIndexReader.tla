---------------------------- MODULE MCIndexReader ----------------------------
(* IndexReader over the small block tree. *)
EXTENDS IndexReader, MCTree
=============================================================================
