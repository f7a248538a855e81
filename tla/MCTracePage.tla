----------------------------- MODULE MCTracePage -----------------------------
(* The page with the pools of the .cfg. *)
EXTENDS TracePage
=============================================================================
