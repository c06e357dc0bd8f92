---------------------------- MODULE MCSdkSession ----------------------------
(* Small instances of SdkSession for TLC; a tick is ten seconds.           *)
EXTENDS SdkSession, TLC

CONSTANTS c1, c2

\* Calls are interchangeable.
Symmetry == Permutations(Calls)
=============================================================================
