----------------------------- MODULE MCSdkReply -----------------------------
(* Small instances of SdkReply for TLC.                                    *)
EXTENDS SdkReply
=============================================================================
