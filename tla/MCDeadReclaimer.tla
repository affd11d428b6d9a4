--------------------------- MODULE MCDeadReclaimer ---------------------------
(* LockStore in one scenario, to reach deep into it: x dies with the lock,  *)
(* h dies while it reclaims the lock of x, and the others find the rest.    *)
EXTENDS LockStore, TLC

CONSTANTS x, h

\* The processes that start once x and h are dead.
Late == Proc \ {x, h}

Scenario ==
  /\ \A p \in Proc : op[p] = "acquire"
  /\ pc[h] # "idle" => x \notin alive
  /\ (\E p \in Late : pc[p] # "idle") => alive = Late
  /\ Late \subseteq alive

Symmetry == Permutations(Late)
==============================================================================
