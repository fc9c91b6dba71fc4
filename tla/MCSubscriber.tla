---------------------------- MODULE MCSubscriber ----------------------------
(* Subscriber, alone, for TLC. *)
EXTENDS Subscriber
=============================================================================
