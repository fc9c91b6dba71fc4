--------------------------- MODULE MCSmvPublisher ---------------------------
(* The publisher in the loop, with short intervals, for TLC. *)
EXTENDS SmvPublisher
=============================================================================
