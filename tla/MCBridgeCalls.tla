---------------------------- MODULE MCBridgeCalls ----------------------------
(***************************************************************************)
(* One idempotent call and one that is not, two msgids: the answers may    *)
(* overtake each other or come late, and the msgids wrap around.           *)
(***************************************************************************)
EXTENDS BridgeCalls

CONSTANTS i1, n1
=============================================================================
