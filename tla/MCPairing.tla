----------------------------- MODULE MCPairing -----------------------------
(* Small instances of Pairing for TLC.                                     *)
EXTENDS Pairing

CONSTANTS d1, d2
=============================================================================
