---------------------------- MODULE BridgeInbound ----------------------------
(***************************************************************************)
(* Requests that the router forwards to one Bridge (bridge.ts              *)
(* handleMessage, waitForActiveHandlers, close): each runs the handler of  *)
(* its method, whose result is the answer; a request the handler has not   *)
(* answered yet is answered with an error by close(); and the owner        *)
(* (BridgeManager.release) lets the handlers finish before it closes.      *)
(***************************************************************************)
EXTENDS BridgeLifecycle, FiniteSets

CONSTANTS
  Requests,     \* calls of the router's clients to methods of this Bridge
  Ids,          \* msgids the router gives them on a connection
  None

ASSUME InboundAssumption == None \notin Requests

VARIABLES
  handler,      \* of each request: "none" before it arrives, "running", "done";
                \* "missing" when there is none
  idOf,         \* the msgid a request was forwarded with
  caller,       \* "idle", "waiting", what the caller got: "answered", "error" or the
                \* "foreign" answer of another handler, or why it gets none: the
                \* connection was "cutOff", or close() left the request "unheard"
  used,         \* msgids the router has given on this connection
  inFlight,     \* Bridge.inFlightRequests, the request standing for its method
  active,       \* Bridge.activeHandlers
  replies,      \* RESPONSEs on the connection: the msgid and what answers it
  drain,        \* release(): "no", "waiting" in waitForActiveHandlers, and how
                \* that ended: "drained" or "gaveUp"
  awaited       \* the handlers waitForActiveHandlers awaits

inboundVars == <<handler, idOf, caller, used, inFlight, active, replies, drain,
                 awaited>>

vars == <<lifecycleVars, inboundVars>>

Reply == [id : Ids, by : Requests \cup {"error"}]

InboundTypeOK ==
  /\ LifecycleTypeOK
  /\ handler \in [Requests -> {"none", "running", "done", "missing"}]
  /\ idOf \in [Requests -> Ids \cup {None}]
  /\ caller \in [Requests ->
                   {"idle", "waiting", "answered", "error", "foreign", "cutOff",
                    "unheard"}]
  /\ used \subseteq Ids
  /\ inFlight \in [Ids -> Requests \cup {None}]
  /\ active \subseteq Requests
  /\ replies \subseteq Reply
  /\ drain \in {"no", "waiting", "drained", "gaveUp"}
  /\ awaited \subseteq Requests

Init ==
  /\ LifecycleInit
  /\ handler = [r \in Requests |-> "none"]
  /\ idOf = [r \in Requests |-> None]
  /\ caller = [r \in Requests |-> "idle"]
  /\ used = {}
  /\ inFlight = [id \in Ids |-> None]
  /\ active = {}
  /\ replies = {}
  /\ drain = "no"
  /\ awaited = {}

-----------------------------------------------------------------------------
Tracked == {id \in Ids : inFlight[id] # None}

\* After end() a RESPONSE goes nowhere: write() fails.
Writable == socket /\ closing # "ending"

\* The router forwards a request on the live connection (not under src/).
RouterForwards(r, id) ==
  /\ socket
  /\ caller[r] = "idle" /\ id \notin used
  /\ caller' = [caller EXCEPT ![r] = "waiting"]
  /\ idOf' = [idOf EXCEPT ![r] = id]
  /\ used' = used \cup {id}
  /\ UNCHANGED <<lifecycleVars, handler, inFlight, active, replies, drain, awaited>>

\* handleMessage() on a REQUEST whose method has a provider.
ReceiveRequest(r) ==
  /\ caller[r] = "waiting" /\ handler[r] = "none"
  /\ handler' = [handler EXCEPT ![r] = "running"]
  /\ inFlight' = [inFlight EXCEPT ![idOf[r]] = r]
  /\ active' = active \cup {r}
  /\ UNCHANGED <<lifecycleVars, idOf, caller, used, replies, drain, awaited>>

\* Mutant: a request nobody provides is ignored.
ReceiveUnknownSilently(r) ==
  /\ caller[r] = "waiting" /\ handler[r] = "none"
  /\ handler' = [handler EXCEPT ![r] = "missing"]
  /\ UNCHANGED <<lifecycleVars, idOf, caller, used, inFlight, replies, active, drain,
                 awaited>>

\* The same without a provider: the answer is an error.
ReceiveUnknown(r) ==
  /\ caller[r] = "waiting" /\ handler[r] = "none"
  /\ handler' = [handler EXCEPT ![r] = "missing"]
  /\ IF Writable
     THEN replies' = replies \cup {[id |-> idOf[r], by |-> "error"]} /\ UNCHANGED caller
     ELSE caller' = [caller EXCEPT ![r] = "unheard"] /\ UNCHANGED replies
  /\ UNCHANGED <<lifecycleVars, idOf, used, inFlight, active, drain, awaited>>

\* Mutant: the handler answers whether or not its entry is still there.
HandlerDoneAnyway(r) ==
  /\ handler[r] = "running"
  /\ handler' = [handler EXCEPT ![r] = "done"]
  /\ inFlight' = [inFlight EXCEPT ![idOf[r]] = None]
  /\ active' = active \ {r}
  /\ replies' = IF Writable THEN replies \cup {[id |-> idOf[r], by |-> r]} ELSE replies
  /\ UNCHANGED <<lifecycleVars, caller, idOf, used, drain, awaited>>

\* The handler returns or throws.  It answers under its msgid if delete() finds
\* that msgid in inFlightRequests, and leaves activeHandlers.  The entry need not be
\* its own.
HandlerDone(r) ==
  LET id == idOf[r] IN
  /\ handler[r] = "running"
  /\ handler' = [handler EXCEPT ![r] = "done"]
  /\ inFlight' = [inFlight EXCEPT ![id] = None]
  /\ active' = active \ {r}
  /\ IF id \in Tracked /\ Writable
     THEN replies' = replies \cup {[id |-> id, by |-> r]} ELSE UNCHANGED replies
  /\ IF id \in Tracked /\ ~Writable
     THEN caller' = [caller EXCEPT ![inFlight[id]] = "unheard"] ELSE UNCHANGED caller
  /\ UNCHANGED <<lifecycleVars, idOf, used, drain, awaited>>

\* The router passes an answer on to the caller it belongs to.
Ended(r, by) == CASE by = "error" -> "error"
                  [] by = r -> "answered"
                  [] OTHER -> "foreign"

RouterReceives(reply) ==
  /\ reply \in replies
  /\ replies' = replies \ {reply}
  /\ caller' = [r \in Requests |-> IF caller[r] = "waiting" /\ idOf[r] = reply.id
                                   THEN Ended(r, reply.by) ELSE caller[r]]
  /\ UNCHANGED <<lifecycleVars, handler, idOf, used, inFlight, active, drain, awaited>>

-----------------------------------------------------------------------------
\* onTransportClose() forgets the handlers and the requests; they go on running, and
\* "no error response can be sent".  When close() ended the socket in good order, what
\* was written before has arrived; otherwise it is lost with the connection.  The
\* router may give the msgids of this connection again on the next one.
Disconnect(withError, failing) ==
  LET inGoodOrder == closing = "ending" /\ ~withError IN
  /\ SocketClosed(withError, failing)
  /\ inGoodOrder => replies = {}
  /\ active' = {}
  /\ inFlight' = [id \in Ids |-> None]
  /\ replies' = {}
  /\ caller' = [r \in Requests |->
                  IF caller[r] # "waiting" THEN caller[r]
                  ELSE IF inGoodOrder /\ handler[r] # "none" THEN "unheard" ELSE "cutOff"]
  /\ used' = {}
  /\ UNCHANGED <<handler, idOf, drain, awaited>>

\* close() up to its first await: every request still in flight is answered with an
\* error before $/reset is sent.
CloseAndAnswer ==
  /\ Close
  /\ IF connected
     THEN /\ replies' = replies \cup {[id |-> id, by |-> "error"] : id \in Tracked}
          /\ inFlight' = [id \in Ids |-> None]
     ELSE UNCHANGED <<replies, inFlight>>
  /\ UNCHANGED <<handler, idOf, caller, used, active, awaited>>

\* close() is called by itself, as the credential test does.
CloseAtOnce ==
  /\ drain = "no"
  /\ CloseAndAnswer
  /\ UNCHANGED drain

\* release(): waitForActiveHandlers() awaits the handlers there are.
StartDrain ==
  /\ drain = "no" /\ closing = "no" /\ active # {}
  /\ drain' = "waiting"
  /\ awaited' = active
  /\ UNCHANGED <<lifecycleVars, handler, idOf, caller, used, inFlight, active, replies>>

\* They have all settled but others have come.
DrainGoesOn ==
  /\ drain = "waiting" /\ active # {}
  /\ \A r \in awaited : handler[r] = "done"
  /\ awaited' = active
  /\ UNCHANGED <<lifecycleVars, handler, idOf, caller, used, inFlight, active, replies,
                 drain>>

\* Mutant: waitForActiveHandlers() awaits the handlers once and does not look again.
CloseWhenAwaitedDone ==
  /\ drain \in {"no", "waiting"} /\ (drain = "no" => active = {})
  /\ \A r \in awaited : handler[r] = "done"
  /\ drain' = "drained"
  /\ CloseAndAnswer

\* There are none (any more), so release() goes on to close().
CloseWhenDrained ==
  /\ drain \in {"no", "waiting"} /\ active = {}
  /\ \A r \in awaited : handler[r] = "done"
  /\ drain' = "drained"
  /\ CloseAndAnswer

\* The 60 s of the drain are over.
CloseWhenDrainTimesOut ==
  /\ drain = "waiting"
  /\ drain' = "gaveUp"
  /\ CloseAndAnswer

OtherLifecycleStep ==
  /\ \/ ReconnectTimerFires \/ ConnectSucceeds \/ ConnectFails
     \/ Reregistered \/ ReregisterThrows \/ ResetSettles
  /\ UNCHANGED inboundVars

Next ==
  \/ \E r \in Requests, id \in Ids : RouterForwards(r, id)
  \/ \E r \in Requests : ReceiveRequest(r) \/ ReceiveUnknown(r) \/ HandlerDone(r)
  \/ \E reply \in replies : RouterReceives(reply)
  \/ \E e, f \in BOOLEAN : Disconnect(e, f)
  \/ CloseAtOnce
  \/ StartDrain
  \/ DrainGoesOn
  \/ CloseWhenDrained
  \/ CloseWhenDrainTimesOut
  \/ OtherLifecycleStep

Spec == Init /\ [][Next]_vars

\* The Bridge reads what it is sent, handlers end (the deferred handler of UnoQTrigger
\* has a timer of its own), and the router reads what it is sent.
Fairness ==
  /\ \A r \in Requests : /\ WF_vars(ReceiveRequest(r) \/ ReceiveUnknown(r))
                         /\ WF_vars(HandlerDone(r))
  /\ WF_vars(\E reply \in replies : RouterReceives(reply))

FairInboundSpec == Spec /\ Fairness

-----------------------------------------------------------------------------
\* Types; and a request is answered once: by a handler or by close(), not by both and
\* not after its caller was answered (bridge.ts 311-315, 630-633), and not by neither:
\* a handler that ends leaves an answer on its way to the caller (124-133), unless
\* close() has ended the socket already.
AnsweredOnce ==
  /\ InboundTypeOK
  /\ \A p, q \in replies : p.id = q.id => p = q
  /\ \A p \in replies : \E r \in Requests : caller[r] = "waiting" /\ idOf[r] = p.id
  /\ \A r \in Requests :
       caller[r] = "waiting" /\ handler[r] \in {"done", "missing"}
       => \E p \in replies : p.id = idOf[r]
  /\ \A r \in Requests : caller[r] = "unheard" => closing \in {"ending", "done"}

\* A drain that did not run out of time leaves nothing for close() to answer with an
\* error (bridge.ts 577-587): no deferred answer is replaced by an error.
DrainSparesAnswers ==
  [][drain' = "drained" /\ drain # "drained" => replies' = replies]_vars

\* A request that was taken before close() is answered, by a handler or by close(),
\* unless the connection is lost before its caller has the answer (bridge.ts 134-140,
\* 608-612).
TakenIsAnswered ==
  \A r \in Requests :
    (caller[r] = "waiting" /\ handler[r] # "none" /\ closing = "no")
    ~> caller[r] \in {"answered", "error", "foreign", "cutOff"}

\* "Return value is sent as the RPC response" (bridge.ts 93-95): no caller gets the
\* result of the handler of another request.
AnsweredByOwnHandler == \A r \in Requests : caller[r] # "foreign"
=============================================================================
