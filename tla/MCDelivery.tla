----------------------------- MODULE MCDelivery -----------------------------
(* The delivery client with a two-place queue and a few batches, one of     *)
(* which the backend refuses: overflow while a delivery is in flight, lost  *)
(* answers, late requests, and shutdown at every point of the loop.         *)
EXTENDS Delivery

RefusedBatches == {2}
=============================================================================
