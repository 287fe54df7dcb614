------------------------------ MODULE MCBridge ------------------------------
(***************************************************************************)
(* One Bridge, through all that happens to its connection.  A behaviour    *)
(* follows either the bytes that arrive or the requests that the router    *)
(* forwards: below the connection the two share nothing.                   *)
(***************************************************************************)
EXTENDS BridgeInbound, MCBridgeStream

VARIABLE follows    \* "bytes" or "requests"

MCInit == Init /\ StreamInit /\ follows \in {"bytes", "requests"}

FollowBytes == follows = "bytes" /\ StreamNext /\ UNCHANGED <<inboundVars, follows>>

FollowRequests == follows = "requests" /\ Next /\ UNCHANGED <<byteVars, follows>>

MCSpec ==
  /\ MCInit /\ [][FollowBytes \/ FollowRequests]_<<streamVars, inboundVars, follows>>
  /\ Fairness
  /\ WF_streamVars(\E size \in 1..Len(inTransit) : Receive(size))
  /\ EventLoopFairness /\ RouterComesBack
=============================================================================
