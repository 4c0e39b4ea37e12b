--------------------------- MODULE MCFollowTable ---------------------------
(* Model of FollowTable: three words; two of them collide at slot 0, and   *)
(* the third begins at the last slot, so that its probes wrap around.      *)
EXTENDS FollowTable

MCWords == {"a", "b", "c"}
MCHome == [w \in MCWords |-> IF w = "c" THEN MaxFollower - 1 ELSE 0]
=============================================================================
