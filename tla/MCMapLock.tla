----------------------------- MODULE MCMapLock -----------------------------
(* Model of MapLock: an area that covers another, and a third apart.       *)
EXTENDS MapLock, TLC

Wide  == [left |-> 0, right |-> 3, top |-> 0, bottom |-> 3]
Small == [left |-> 1, right |-> 2, top |-> 1, bottom |-> 2]
Apart == [left |-> 5, right |-> 6, top |-> 5, bottom |-> 6]

MCRequests ==
  {[type |-> "write", area |-> Wide], [type |-> "read", area |-> Small],
   [type |-> "write", area |-> Apart]}

(* Processes and addresses are compared only for equality. *)
Symmetry == Permutations(Procs) \cup Permutations(Addresses)
=============================================================================
