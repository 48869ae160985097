------------------------- MODULE MCSipTransactions -------------------------
(* An instance of SipTransactions for TLC: one caller shares the Call-ID of *)
(* a dialog with the device, the other has a Call-ID of its own.            *)
EXTENDS SipTransactions, TLC

CONSTANTS c1, c2, dialog, message

OwnCallID == c1 :> dialog @@ c2 :> message
=============================================================================
