------------------------ MODULE MCStockReservations ------------------------
(* Instances of StockReservations for TLC.  Two lines order two each.  One     *)
(* has all it needs reserved and asks for single units; the other lacks one    *)
(* and asks for both, so that a delivery finds half of it reserved.            *)
EXTENDS StockReservations, TLC

CONSTANTS p1, p2, l1, l2

MCStock0 == p1 :> 3 @@ p2 :> 1
MCNeed0 == l1 :> 2 @@ l2 :> 2
MCAsked == l1 :> 1 @@ l2 :> 2
MCPostings == {-1, 1}
Held(l, p, q) == [line |-> l, place |-> p, n |-> q]
MCBooks0 == {<<Held(l1, p1, 2), Held(l2, p1, 1)>>}
MCTwoPlaces == {<<Held(l2, p1, 1), Held(l2, p2, 1)>>}
=============================================================================
