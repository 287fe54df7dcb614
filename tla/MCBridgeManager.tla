--------------------------- MODULE MCBridgeManager ---------------------------
(***************************************************************************)
(* Two triggers in Request mode, one in Notification mode, and an item of a *)
(* Call or Tool node.                                                      *)
(***************************************************************************)
EXTENDS BridgeManager
=============================================================================
