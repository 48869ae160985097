------------------------- MODULE MCPendingRequests -------------------------
(* Instances of PendingRequests for TLC.                                   *)
EXTENDS PendingRequests
=============================================================================
