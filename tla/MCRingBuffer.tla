---------------------------- MODULE MCRingBuffer ----------------------------
(* TLC instance of RingBuffer: two producers racing for a slot.            *)
EXTENDS RingBuffer, TLC

CONSTANTS p1, p2, c1

TwoPushers == {[push |-> p1 :> 1 @@ p2 :> 1, poll |-> {c1}]}
=============================================================================
