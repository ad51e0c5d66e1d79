----------------------------- MODULE MCHistory -----------------------------
(* History for TLC: two requests of one workflow and one on its own.      *)
EXTENDS History, TLC

CONSTANTS c1, c2, c3, f1, p1, p2

InFlow12 == [c \in Calls |-> IF c \in {c1, c2} THEN f1 ELSE NoFlow]
Symmetry == Permutations({c1, c2}) \union Permutations(Pollers)
=============================================================================
