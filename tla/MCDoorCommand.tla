--------------------------- MODULE MCDoorCommand ---------------------------
(* Small instances of DoorCommand for TLC.                                 *)
EXTENDS DoorCommand, TLC

CONSTANTS c1, c2, c3, q1

\* Senders are interchangeable, and so are queries.
Symmetry == Permutations(Senders) \cup Permutations(Queries)
=============================================================================
