----------------------------- MODULE MCPyBuffer -----------------------------
(* A small instance of PyBuffer for TLC: one module of an engine that owns *)
(* the file, another that reads it, and the Python program.                *)
EXTENDS PyBuffer, TLC

CONSTANTS w1, r1
=============================================================================
