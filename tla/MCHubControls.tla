--------------------------- MODULE MCHubControls ---------------------------
(* A small instance of HubControls for TLC.                                *)
EXTENDS HubControls
=============================================================================
