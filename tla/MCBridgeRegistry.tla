--------------------------- MODULE MCBridgeRegistry ---------------------------
(***************************************************************************)
(* A provider and two subscribers race for the registration of one name,   *)
(* and another name is provided, so that reRegister() has two to go        *)
(* through.                                                                *)
(***************************************************************************)
EXTENDS BridgeRegistry

CONSTANTS p1, p2, n1, n2, a, b

MCMethodOf == [o \in {p1, p2, n1, n2} |-> IF o = p2 THEN b ELSE a]
=============================================================================
