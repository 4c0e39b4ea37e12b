--------------------------- MODULE MCRegionLocks ---------------------------
(* Model of RegionLocks: a wide area that covers a small one and touches   *)
(* another at a corner.                                                    *)
EXTENDS LockListings

Wide   == [left |-> 0, right |-> 3, top |-> 0, bottom |-> 3]
Small  == [left |-> 1, right |-> 2, top |-> 1, bottom |-> 2]
Corner == [left |-> 3, right |-> 4, top |-> 3, bottom |-> 4]

MCRequests ==
  {[type |-> "write", area |-> Wide], [type |-> "write", area |-> Small],
   [type |-> "read", area |-> Wide], [type |-> "read", area |-> Corner]}
=============================================================================
