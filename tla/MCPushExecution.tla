-------------------------- MODULE MCPushExecution --------------------------
(* PushExecution for TLC: two pushes to one target, and one that is over.  *)
EXTENDS PushExecution, TLC

CONSTANTS c1, c2, t1

NoFlows == [c \in Calls |-> NoFlow]
OneTarget == [c \in Calls |-> t1]
EveryPoller == PushPollers
Symmetry == Permutations(Calls)

(* Settles for one push; the two pushes are interchangeable.               *)
OneSettles == SettlesFor(c1)
=============================================================================
