-------------------------- MODULE MCGoosePublisher --------------------------
(* GoosePublisher for TLC. *)
EXTENDS GoosePublisher
=============================================================================
