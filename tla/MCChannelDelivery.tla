-------------------------- MODULE MCChannelDelivery --------------------------
(* Two workers on one job with two recipients. *)
EXTENDS ChannelDelivery

CONSTANTS r1, r2, w1, w2
=============================================================================
