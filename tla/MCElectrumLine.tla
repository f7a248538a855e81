---------------------------- MODULE MCElectrumLine ----------------------------
(* The reader of a line with the sizes of the .cfg. *)
EXTENDS ElectrumLine
=============================================================================
