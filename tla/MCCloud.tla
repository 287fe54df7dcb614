------------------------------- MODULE MCCloud -------------------------------
(***************************************************************************)
(* The Arduino Cloud package: a behaviour is one of its triggers or one of *)
(* its requests, which share nothing.  Two triggers listen to one property *)
(* and a third to another.  Of two items the guard always lets one pass,   *)
(* and no gate applies to the list.                                        *)
(***************************************************************************)
EXTENDS CloudClients, CloudRest, TLC

CONSTANTS t1, t2, t3, k1, k2, i1, i2, l1

VARIABLE follows    \* "triggers" or "requests"

MCKeyOf == (t1 :> k1) @@ (t2 :> k1) @@ (t3 :> k2)

MCInit == Init /\ RestInit /\ follows \in {"triggers", "requests"}

FollowTriggers == follows = "triggers" /\ Next /\ UNCHANGED <<restVars, follows>>

FollowRequests == follows = "requests" /\ RestNext /\ UNCHANGED <<vars, follows>>

MCSpec == MCInit /\ [][FollowTriggers \/ FollowRequests]_<<vars, restVars, follows>>
==============================================================================
