--------------------------- MODULE MCSharedBuffer ---------------------------
(* Small instances of SharedBuffer for TLC. *)
EXTENDS SharedBuffer, TLC

CONSTANTS w1, w2
=============================================================================
