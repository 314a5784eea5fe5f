------------------------------ MODULE MCTrade ------------------------------
(* Instance of Trade: two players with an item and some gold each, near   *)
(* the limits on gold and on room, a third who has nothing, and an item   *)
(* that only the first two may have.                                      *)
EXTENDS Trade, TLC

CONSTANTS p1, p2, p3, i1, i2

MCInitGold == p1 :> 1 @@ p2 :> 1 @@ p3 :> 0
MCInitItems == p1 :> {i1} @@ p2 :> {i2} @@ p3 :> {}
MCAllowed == i1 :> {p1, p2} @@ i2 :> {p1, p2, p3}
=============================================================================
