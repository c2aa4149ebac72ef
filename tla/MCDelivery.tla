----------------------------- MODULE MCDelivery -----------------------------
(* Two servers with two deliveries under way. *)
EXTENDS Delivery

CONSTANTS a, b, k1, k2
=============================================================================
