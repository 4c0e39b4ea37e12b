-------------------------- MODULE MCRegionWatches --------------------------
(* Model of RegionWatches: two areas, and a lock that covers one of them   *)
(* and does not meet the other.                                            *)
EXTENDS RegionWatches

Near == [left |-> 1, right |-> 2, top |-> 1, bottom |-> 2]
Far  == [left |-> 4, right |-> 5, top |-> 1, bottom |-> 2]
Wide == [left |-> 0, right |-> 3, top |-> 0, bottom |-> 3]

MCAreas == {Near, Far}
MCLocks == {[area |-> Wide]}
=============================================================================
