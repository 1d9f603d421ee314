----------------------- MODULE MCSubscriptionCheckout -----------------------
(* Instances of SubscriptionCheckout for TLC.  Reports of one subscription can  *)
(* change places; beside a second checkout they come one by one.                *)
EXTENDS SubscriptionCheckout

MCMaxEvents == [n \in Checkouts |-> IF n = 1 THEN 2 ELSE 1]
=============================================================================
