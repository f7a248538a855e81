---------------------------- MODULE ReplayLedger ----------------------------
(***************************************************************************)
(* What the chain index promises, with no tables, memory or SQL: a ladder  *)
(* of databases, one per indexed height, each rung the replay of its block *)
(* on the rung below.  Applying a block adds a rung, a rollback removes    *)
(* rungs from the top and never touches the others, and losing power       *)
(* returns to a ladder that had been committed and not yet synchronised.   *)
(***************************************************************************)
EXTENDS Integers

CONSTANTS
    Block,              \* blocks, by hash
    Height,             \* Height[b]
    StartHeight,        \* the first height indexed
    EmptyDb,            \* the database before any block
    Connects(_, _),     \* Connects(d, b): b is a next block of database d
    Replayed(_, _)      \* Replayed(d, b): d after a clean run over block b

VARIABLES
    ladder,     \* ladder[h]: the database after the block of height h
    saved       \* the ladders a loss of power may reveal

vars == <<ladder, saved>>

Ground == [h \in (StartHeight - 1) .. (StartHeight - 1) |-> EmptyDb]

\* A ladder's highest rung is its database's last height.
Top(l) == CHOOSE h \in DOMAIN l : \A k \in DOMAIN l : k <= h

Init ==
    /\ ladder = Ground
    /\ saved = {Ground}

Extend(b) ==
    /\ Height[b] = Top(ladder) + 1
    /\ Connects(ladder[Top(ladder)], b)
    /\ ladder' = [h \in (StartHeight - 1) .. Height[b] |->
                    IF h = Height[b] THEN Replayed(ladder[Top(ladder)], b)
                    ELSE ladder[h]]
    /\ saved' = saved \cup {ladder'}

Truncate(h) ==
    /\ h \in DOMAIN ladder /\ h < Top(ladder)
    /\ ladder' = [k \in (StartHeight - 1) .. h |-> ladder[k]]
    /\ saved' = saved \cup {ladder'}

Sync ==
    /\ saved' = {ladder}
    /\ UNCHANGED ladder

Lose ==
    /\ ladder' \in saved
    /\ saved' = {ladder'}

Next ==
    \/ \E b \in Block : Extend(b)
    \/ \E h \in DOMAIN ladder : Truncate(h)
    \/ Sync
    \/ Lose

Spec == Init /\ [][Next]_vars

\* Every rung above the ground is the replay of a block connected to the
\* rung below it.
IsReplay(l) ==
    /\ l[StartHeight - 1] = EmptyDb
    /\ \A h \in DOMAIN l \ {StartHeight - 1} :
          \E b \in Block : /\ Height[b] = h
                           /\ Connects(l[h - 1], b)
                           /\ l[h] = Replayed(l[h - 1], b)

(* Path independence, as the abstract ledger states it: whatever was        *)
(* applied, rolled back or lost, each rung is what a clean run over the     *)
(* same blocks computes.                                                    *)
AlwaysReplay == \A l \in saved \cup {ladder} : IsReplay(l)
=============================================================================
