------------------------------- MODULE Mutex -------------------------------
(* What withLock() of src/src/config/lock.ts promises its callers: the     *)
(* operations under one key run one at a time, and one that ends, or whose *)
(* process dies, makes way for the next.                                   *)
CONSTANT Procs    \* processes that may run an operation under the key
VARIABLE holders  \* those that are running one

Init == holders = {}

(* operation() begins once acquire() has returned.                         *)
Enter(p) ==
  /\ holders = {}
  /\ holders' = {p}

(* It ends, by returning, by throwing, or with its process.                *)
Leave(p) ==
  /\ p \in holders
  /\ holders' = holders \ {p}

Next == \E p \in Procs : Enter(p) \/ Leave(p)

Spec == Init /\ [][Next]_holders
=============================================================================
