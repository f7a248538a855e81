------------------------------ MODULE MCResolver ------------------------------
(* A round "p" and another transaction "q"; "c" spends an output of each,   *)
(* "d" replaces it, and "e" reuses the script of p's output.                *)
EXTENDS Resolver, TLC

MCGone == -1
MCTx == {"p", "q", "c", "d", "e"}
MCOutpoint == {<<"p", 1>>, <<"q", 1>>, <<"e", 1>>}
MCSpent == [t \in MCTx |->
    CASE t = "c" -> {<<"p", 1>>, <<"q", 1>>}
      [] t = "d" -> {<<"q", 1>>}
      [] OTHER   -> {}]
\* q is buried; p and c may change blocks, c and d replace one another.
MCMayBe == [t \in MCTx |->
    CASE t = "p" -> {1, 2}
      [] t = "q" -> {1}
      [] t = "c" -> {-1, 0, 1, 2}
      [] t = "d" -> {-1, 0, 2}
      [] t = "e" -> {-1, 0}]
MCScriptOf == [o \in MCOutpoint |-> IF o[1] = "q" THEN "s2" ELSE "s1"]
===============================================================================
