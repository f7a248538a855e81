--------------------------- MODULE MCChainScanner ---------------------------
(***************************************************************************)
(* ChainScanner over the small block tree.  The liveness run empties the   *)
(* blocks: NeverRefused (ChainIndex) shows that transactions cannot stop   *)
(* a block that connects, and only the shape of the tree is left to        *)
(* progress.  It makes one branch a block longer, so that the window of    *)
(* futures slides and a run may still stop short of the node's height.     *)
(***************************************************************************)
EXTENDS ChainScanner, MCTree

TallBlock == (MCBlock \ {"z2"}) \cup {"a4"}
TallParent == [b \in TallBlock |-> IF b = "a4" THEN "a3" ELSE MCParent[b]]
TallHeight == [b \in TallBlock |-> IF b = "a4" THEN 4 ELSE MCHeight[b]]
NoTxs == [b \in TallBlock |-> << >>]
OneOutpoint == {"u"}
=============================================================================
