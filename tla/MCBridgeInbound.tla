--------------------------- MODULE MCBridgeInbound ---------------------------
(***************************************************************************)
(* Requests that overlap on one connection and on the next.                *)
(***************************************************************************)
EXTENDS BridgeInbound
=============================================================================
