---------------------------- MODULE MCHubSession ----------------------------
(* Small instances of HubSession for TLC.                                  *)
EXTENDS HubSession, TLC

CONSTANTS c1, c2, k1

\* Calls are interchangeable, and so are connects.
Symmetry == Permutations(Calls) \cup Permutations(Connects)
=============================================================================
