-------------------------- MODULE BridgeInboundProofs --------------------------
(***************************************************************************)
(* What the router sends: who answers a request, for any number of         *)
(* requests and msgids, which every connection may use again; and, from    *)
(* the line on, what the decoder makes of the bytes, for any kinds of      *)
(* message, in any number and cut into any chunks.                         *)
(***************************************************************************)
EXTENDS BridgeInbound, BridgeStream, BridgeLifecycleProofs, FiniteSetTheorems

\* The types of the variables of BridgeInbound's own.
InboundTypes ==
  /\ handler \in [Requests -> {"none", "running", "done", "missing"}]
  /\ idOf \in [Requests -> Ids \cup {None}]
  /\ caller \in [Requests ->
                   {"idle", "waiting", "answered", "error", "foreign", "cutOff",
                    "unheard"}]
  /\ used \subseteq Ids
  /\ inFlight \in [Ids -> Requests \cup {None}]
  /\ active \subseteq Requests
  /\ replies \subseteq Reply
  /\ drain \in {"no", "waiting", "drained", "gaveUp"}
  /\ awaited \subseteq Requests

\* A request that was forwarded has a msgid, and no two that wait have the same.
IdsDistinct ==
  /\ \A r \in Requests : caller[r] = "idle" => handler[r] = "none"
  /\ \A r \in Requests : caller[r] # "idle" => idOf[r] \in Ids
  /\ \A r \in Requests : caller[r] = "waiting" => idOf[r] \in used
  /\ \A r, s \in Requests :
       caller[r] = "waiting" /\ caller[s] = "waiting" /\ idOf[r] = idOf[s] => r = s

\* Somebody waits for an answer only while the connection is there.
WaitingConnected == \A r \in Requests : caller[r] = "waiting" => socket

\* inFlightRequests holds requests that nobody has answered, and their handlers run.
InFlightOwned ==
  \A id \in Ids : inFlight[id] # None =>
     LET r == inFlight[id] IN
     /\ idOf[r] = id /\ caller[r] = "waiting" /\ handler[r] = "running" /\ r \in active
     /\ \A p \in replies : p.id # id

\* A RESPONSE is one that a caller waits for, and the only one for it.
RepliesOwned ==
  /\ \A p, q \in replies : p.id = q.id => p = q
  /\ \A p \in replies : \E r \in Requests :
       caller[r] = "waiting" /\ idOf[r] = p.id /\ handler[r] # "none"

\* A request that has arrived is in inFlightRequests or has its answer on the way.
NobodyForgotten ==
  \A r \in Requests : caller[r] = "waiting" /\ handler[r] # "none" =>
     \/ handler[r] = "running" /\ inFlight[idOf[r]] = r
     \/ \E p \in replies : p.id = idOf[r]

\* Only close() leaves a request unheard, once it has ended the socket.
UnheardWhenEnded ==
  \A r \in Requests : caller[r] = "unheard" => closing \in {"ending", "done"}

InboundInv ==
  /\ InboundTypes
  /\ IdsDistinct
  /\ WaitingConnected
  /\ InFlightOwned
  /\ RepliesOwned
  /\ NobodyForgotten
  /\ UnheardWhenEnded

USE InboundAssumption

\* It holds on the state that Bridge.connect() resolves with.
LEMMA InboundInit == Init => InboundInv
<1> SUFFICES ASSUME Init PROVE InboundInv
  OBVIOUS
<1> USE DEF Init
<1>1. InboundTypes
  BY DEF InboundTypes
<1>2. IdsDistinct /\ WaitingConnected /\ InFlightOwned
  BY DEF IdsDistinct, WaitingConnected, InFlightOwned
<1>3. RepliesOwned /\ NobodyForgotten /\ UnheardWhenEnded
  BY DEF RepliesOwned, NobodyForgotten, UnheardWhenEnded
<1> QED
  BY <1>1, <1>2, <1>3 DEF InboundInv

\* The router forwards a request, with a msgid of its own.
LEMMA ForwardInv ==
  ASSUME InboundInv, NEW r \in Requests, NEW id \in Ids, RouterForwards(r, id)
  PROVE  InboundInv'
<1> USE DEF InboundInv, lifecycleVars, RouterForwards
<1>1. handler[r] = "none" /\ \A s \in Requests : caller[s] = "waiting" => idOf[s] # id
  BY DEF IdsDistinct
<1>2. InboundTypes'
  BY DEF InboundTypes
<1>3. IdsDistinct' /\ WaitingConnected'
  BY <1>1 DEF IdsDistinct, WaitingConnected, InboundTypes
<1>4. InFlightOwned'
  BY <1>1 DEF InFlightOwned, InboundTypes
<1>5. RepliesOwned'
  BY <1>1 DEF RepliesOwned, InboundTypes
<1>6. NobodyForgotten' /\ UnheardWhenEnded'
  BY <1>1 DEF NobodyForgotten, UnheardWhenEnded, InboundTypes
<1> QED
  BY <1>2, <1>3, <1>4, <1>5, <1>6

\* It arrives, and runs a handler or is answered with an error.
LEMMA ReceiveInv ==
  ASSUME InboundInv, NEW r \in Requests, ReceiveRequest(r) \/ ReceiveUnknown(r)
  PROVE  InboundInv'
<1> USE DEF InboundInv, lifecycleVars
<1>1. /\ caller[r] = "waiting" /\ handler[r] = "none" /\ idOf[r] \in Ids
      /\ r \in Requests /\ r # None
  BY DEF ReceiveRequest, ReceiveUnknown, IdsDistinct, InboundTypes
<1>2. /\ \A p \in replies : p.id # idOf[r]
      /\ inFlight[idOf[r]] = None
  <2>1. ASSUME NEW p \in replies, p.id = idOf[r] PROVE FALSE
    BY <1>1, <2>1 DEF RepliesOwned, IdsDistinct
  <2>2. ASSUME inFlight[idOf[r]] # None PROVE FALSE
    BY <1>1, <2>2 DEF InFlightOwned, IdsDistinct, InboundTypes
  <2> QED
    BY <2>1, <2>2
<1>3. CASE ReceiveRequest(r)
  <2> USE <1>1, <1>2, <1>3 DEF ReceiveRequest
  <2>1. InboundTypes'
    BY DEF InboundTypes
  <2>2. IdsDistinct' /\ WaitingConnected' /\ UnheardWhenEnded'
    BY DEF IdsDistinct, WaitingConnected, InboundTypes, UnheardWhenEnded
  <2>3. InFlightOwned'
    BY DEF InFlightOwned, InboundTypes
  <2>4. RepliesOwned'
    BY DEF RepliesOwned, InboundTypes
  <2>5. NobodyForgotten'
    BY DEF NobodyForgotten, InboundTypes, IdsDistinct
  <2> QED
    BY <2>1, <2>2, <2>3, <2>4, <2>5
<1>4. CASE ReceiveUnknown(r) /\ Writable
  <2>0. /\ handler' = [handler EXCEPT ![r] = "missing"]
        /\ replies' = replies \cup {[id |-> idOf[r], by |-> "error"]}
        /\ UNCHANGED <<caller, idOf, used, inFlight, active, drain, awaited, socket, closing>>
    BY <1>4 DEF ReceiveUnknown
  <2> USE <1>1, <1>2, <2>0
  <2>1. InboundTypes'
    BY DEF InboundTypes, Reply
  <2>2. IdsDistinct' /\ WaitingConnected' /\ UnheardWhenEnded'
    BY DEF IdsDistinct, WaitingConnected, InboundTypes, UnheardWhenEnded
  <2>3. InFlightOwned'
    BY DEF InFlightOwned, InboundTypes
  <2>4. RepliesOwned'
    <3>1. \A q \in replies' : q \in replies \/ q = [id |-> idOf[r], by |-> "error"]
      OBVIOUS
    <3>2. handler'[r] = "missing" /\ \A s \in Requests : s # r => handler'[s] = handler[s]
      BY DEF InboundTypes
    <3> QED
      BY <3>1, <3>2 DEF RepliesOwned
  <2>5. NobodyForgotten'
    <3>1. ASSUME NEW s \in Requests, caller'[s] = "waiting", handler'[s] # "none", s # r
          PROVE  \/ handler'[s] = "running" /\ inFlight'[idOf'[s]] = s
                 \/ \E p \in replies' : p.id = idOf'[s]
      BY <3>1 DEF NobodyForgotten, InboundTypes
    <3>2. \E p \in replies' : p.id = idOf'[r]
      <4>1. [id |-> idOf[r], by |-> "error"] \in replies' /\ idOf' = idOf
        OBVIOUS
      <4> QED
        BY <4>1
    <3> QED
      BY <3>1, <3>2 DEF NobodyForgotten
  <2> QED
    BY <2>1, <2>2, <2>3, <2>4, <2>5
<1>5. CASE ReceiveUnknown(r) /\ ~Writable
  <2>0. /\ handler' = [handler EXCEPT ![r] = "missing"]
        /\ caller' = [caller EXCEPT ![r] = "unheard"]
        /\ UNCHANGED <<replies, idOf, used, inFlight, active, drain, awaited, socket, closing>>
    BY <1>5 DEF ReceiveUnknown
  <2>1. closing = "ending"
    BY <1>1, <1>5 DEF Writable, WaitingConnected
  <2> USE <1>1, <1>2, <2>0, <2>1
  <2>2. InboundTypes'
    BY DEF InboundTypes
  <2>3. IdsDistinct' /\ WaitingConnected' /\ UnheardWhenEnded'
    BY DEF IdsDistinct, WaitingConnected, InboundTypes, UnheardWhenEnded
  <2>4. InFlightOwned'
    BY DEF InFlightOwned, InboundTypes
  <2>5. RepliesOwned'
    BY DEF RepliesOwned, InboundTypes
  <2>6. NobodyForgotten'
    BY DEF NobodyForgotten, InboundTypes
  <2> QED
    BY <2>2, <2>3, <2>4, <2>5, <2>6
<1> QED
  BY <1>3, <1>4, <1>5

\* A handler ends.  Whether the request it finds under its msgid is its own or another,
\* that one is answered, or is unheard because the socket was ended.
LEMMA HandlerInv ==
  ASSUME InboundInv, NEW r \in Requests, HandlerDone(r)
  PROVE  InboundInv'
<1> USE DEF InboundInv, lifecycleVars
<1> DEFINE id == idOf[r]
<1>1. /\ handler[r] = "running" /\ caller[r] # "idle" /\ id \in Ids
      /\ handler' = [handler EXCEPT ![r] = "done"]
      /\ inFlight' = [inFlight EXCEPT ![id] = None]
      /\ active' = active \ {r}
      /\ UNCHANGED <<socket, closing, idOf, used, drain, awaited>>
  BY DEF HandlerDone, IdsDistinct, InboundTypes
<1>2. \A t \in Requests : handler'[t] = "none" <=> handler[t] = "none"
  BY <1>1 DEF InboundTypes
<1>3. ASSUME NEW i \in Ids, inFlight'[i] # None
      PROVE  /\ i # id /\ inFlight'[i] = inFlight[i] /\ inFlight[i] # r
             /\ inFlight[i] \in Requests
             /\ handler'[inFlight[i]] = handler[inFlight[i]] /\ inFlight[i] \in active'
  BY <1>1, <1>3 DEF InFlightOwned, InboundTypes
<1>4. CASE id \in Tracked
  <2> DEFINE s == inFlight[id]
  <2>1. /\ s \in Requests /\ idOf[s] = id /\ caller[s] = "waiting"
        /\ handler[s] = "running" /\ \A q \in replies : q.id # id
    BY <1>1, <1>4 DEF Tracked, InFlightOwned, InboundTypes
  <2>2. ASSUME NEW t \in Requests, t # s, caller[t] = "waiting"
        PROVE  t # r /\ idOf[t] # id /\ handler'[t] = handler[t]
    <3>1. idOf[t] # id
      BY <2>1, <2>2 DEF IdsDistinct
    <3> QED
      BY <1>1, <3>1 DEF InboundTypes
  <2>3. CASE Writable
    <3> DEFINE p == [id |-> id, by |-> r]
    <3>1. replies' = replies \cup {p} /\ caller' = caller
      BY <1>4, <2>3 DEF HandlerDone
    <3>p. p.id = id /\ p \in Reply
      BY <1>1 DEF Reply
    <3> HIDE DEF id, s, p
    <3>2. InboundTypes'
      BY <1>1, <3>1, <3>p DEF InboundTypes
    <3>3. IdsDistinct' /\ WaitingConnected' /\ UnheardWhenEnded'
      BY <1>1, <1>2, <3>1 DEF IdsDistinct, WaitingConnected, UnheardWhenEnded
    <3>4. InFlightOwned'
      BY <1>1, <1>3, <3>1, <3>p DEF InFlightOwned
    <3>5. RepliesOwned'
      BY <1>1, <1>2, <2>1, <3>1, <3>p DEF RepliesOwned
    <3>6. NobodyForgotten'
      <4>1. ASSUME NEW t \in Requests, caller'[t] = "waiting", handler'[t] # "none", t # s
            PROVE  \/ handler'[t] = "running" /\ inFlight'[idOf'[t]] = t
                   \/ \E q \in replies' : q.id = idOf'[t]
        <5>1. /\ t # r /\ idOf[t] # id /\ handler'[t] = handler[t] /\ caller[t] = "waiting"
              /\ idOf' = idOf /\ idOf[t] \in Ids
          BY <1>1, <2>2, <3>1, <4>1 DEF IdsDistinct
        <5>2. inFlight'[idOf[t]] = inFlight[idOf[t]]
          BY <1>1, <5>1 DEF InboundTypes
        <5> QED
          BY <3>1, <4>1, <5>1, <5>2 DEF NobodyForgotten
      <4>2. p \in replies' /\ p.id = idOf'[s]
        BY <1>1, <2>1, <3>1, <3>p
      <4> QED
        BY <4>1, <4>2 DEF NobodyForgotten
    <3> QED
      BY <3>2, <3>3, <3>4, <3>5, <3>6
  <2>4. CASE ~Writable
    <3>1. replies' = replies /\ caller' = [caller EXCEPT ![s] = "unheard"]
      BY <1>4, <2>4 DEF HandlerDone
    <3>2. closing = "ending"
      BY <2>1, <2>4 DEF Writable, WaitingConnected
    <3> HIDE DEF id, s
    <3>3. /\ caller'[s] = "unheard"
          /\ \A t \in Requests : t # s => caller'[t] = caller[t]
      BY <2>1, <3>1 DEF InboundTypes
    <3>4. InboundTypes'
      BY <1>1, <2>1, <3>1 DEF InboundTypes
    <3>5. IdsDistinct'
      BY <1>1, <1>2, <2>1, <3>3 DEF IdsDistinct
    <3>6. WaitingConnected' /\ UnheardWhenEnded'
      BY <1>1, <3>2, <3>3 DEF WaitingConnected, UnheardWhenEnded
    <3>7. InFlightOwned'
      BY <1>1, <1>3, <2>1, <3>1, <3>3 DEF InFlightOwned
    <3>8. RepliesOwned'
      BY <1>1, <1>2, <2>1, <3>1, <3>3 DEF RepliesOwned
    <3>9. NobodyForgotten'
      <4>1. ASSUME NEW t \in Requests, caller'[t] = "waiting", handler'[t] # "none"
            PROVE  \/ handler'[t] = "running" /\ inFlight'[idOf'[t]] = t
                   \/ \E q \in replies' : q.id = idOf'[t]
        <5>0. t # s /\ caller[t] = "waiting"
          BY <3>3, <4>1
        <5>1. /\ t # r /\ idOf[t] # id /\ handler'[t] = handler[t]
              /\ idOf' = idOf /\ idOf[t] \in Ids
          BY <1>1, <2>2, <5>0 DEF IdsDistinct
        <5>2. inFlight'[idOf[t]] = inFlight[idOf[t]]
          BY <1>1, <5>1 DEF InboundTypes
        <5> QED
          BY <3>1, <4>1, <5>0, <5>1, <5>2 DEF NobodyForgotten
      <4> QED
        BY <4>1 DEF NobodyForgotten
    <3> QED
      BY <3>4, <3>5, <3>6, <3>7, <3>8, <3>9
  <2> QED
    BY <2>3, <2>4
<1>5. CASE id \notin Tracked
  <2>1. replies' = replies /\ caller' = caller /\ inFlight[id] = None
    BY <1>1, <1>5 DEF HandlerDone, Tracked
  <2> HIDE DEF id
  <2>2. InboundTypes'
    BY <1>1, <2>1 DEF InboundTypes
  <2>3. IdsDistinct' /\ WaitingConnected' /\ UnheardWhenEnded'
    BY <1>1, <1>2, <2>1 DEF IdsDistinct, WaitingConnected, UnheardWhenEnded
  <2>4. InFlightOwned'
    BY <1>1, <1>3, <2>1 DEF InFlightOwned
  <2>5. RepliesOwned'
    BY <1>1, <1>2, <2>1 DEF RepliesOwned
  <2>6. NobodyForgotten'
    <3>1. ASSUME NEW t \in Requests, caller'[t] = "waiting", handler'[t] # "none"
          PROVE  \/ handler'[t] = "running" /\ inFlight'[idOf'[t]] = t
                 \/ \E q \in replies' : q.id = idOf'[t]
      <4>1. /\ caller[t] = "waiting" /\ handler[t] # "none" /\ idOf' = idOf
            /\ idOf[t] \in Ids /\ t # None
        BY <1>1, <1>2, <2>1, <3>1 DEF IdsDistinct
      <4>2. CASE \E q \in replies : q.id = idOf[t]
        BY <2>1, <4>1, <4>2
      <4>3. CASE handler[t] = "running" /\ inFlight[idOf[t]] = t
        <5>1. idOf[t] # id
          BY <2>1, <4>1, <4>3
        <5>2. t # r
          BY <5>1 DEF id
        <5> QED
          BY <1>1, <4>1, <4>3, <5>1, <5>2 DEF InboundTypes
      <4> QED
        BY <4>1, <4>2, <4>3 DEF NobodyForgotten
    <3> QED
      BY <3>1 DEF NobodyForgotten
  <2> QED
    BY <2>2, <2>3, <2>4, <2>5, <2>6
<1> QED
  BY <1>4, <1>5

\* The router passes an answer on: to the caller it is for.
LEMMA AnswerInv ==
  ASSUME InboundInv, NEW p \in replies, RouterReceives(p)
  PROVE  InboundInv'
<1> USE DEF InboundInv, lifecycleVars, RouterReceives
<1>1. PICK r \in Requests : /\ caller[r] = "waiting" /\ idOf[r] = p.id
                            /\ handler[r] # "none"
  BY DEF RepliesOwned
<1>2. \A s \in Requests : caller[s] = "waiting" /\ idOf[s] = p.id => s = r
  BY <1>1 DEF IdsDistinct
<1>3. Ended(r, p.by) \in {"answered", "error", "foreign"}
  BY <1>1 DEF Ended
<1>4. caller' = [caller EXCEPT ![r] = Ended(r, p.by)]
  BY <1>1, <1>2 DEF InboundTypes
<1>5. InboundTypes' /\ UnheardWhenEnded'
  BY <1>3, <1>4 DEF InboundTypes, UnheardWhenEnded
<1>6. IdsDistinct' /\ WaitingConnected'
  BY <1>1, <1>3, <1>4 DEF IdsDistinct, WaitingConnected, InboundTypes
<1>7. InFlightOwned'
  BY <1>1, <1>3, <1>4 DEF InFlightOwned, InboundTypes
<1>8. RepliesOwned'
  <2>1. \A q \in replies' : q.id # p.id
    BY DEF RepliesOwned
  <2> QED
    BY <1>1, <1>3, <1>4, <2>1 DEF RepliesOwned, InboundTypes
<1>9. NobodyForgotten'
  BY <1>1, <1>2, <1>3, <1>4 DEF NobodyForgotten, InboundTypes
<1> QED
  BY <1>5, <1>6, <1>7, <1>8, <1>9

\* A lost connection leaves nobody waiting; only one that close() has ended leaves a
\* request unheard.
LEMMA DisconnectInv ==
  ASSUME InboundInv, NEW e \in BOOLEAN, NEW f \in BOOLEAN, Disconnect(e, f)
  PROVE  InboundInv'
<1> USE DEF InboundInv
<1> DEFINE end(r) == IF (closing = "ending" /\ ~e) /\ handler[r] # "none"
                     THEN "unheard" ELSE "cutOff"
<1>1. /\ active' = {} /\ replies' = {} /\ used' = {}
      /\ inFlight' = [id \in Ids |-> None]
      /\ caller' = [r \in Requests |-> IF caller[r] # "waiting" THEN caller[r] ELSE end(r)]
      /\ UNCHANGED <<handler, idOf, drain, awaited>>
  BY DEF Disconnect
<1>2. \A r \in Requests : /\ end(r) \in {"unheard", "cutOff"}
                          /\ end(r) = "unheard" => closing = "ending"
  OBVIOUS
<1>3. closing \in {"ending", "done"} => closing' \in {"ending", "done"}
  BY DEF Disconnect, SocketClosed, Return
<1> HIDE DEF end
<1>4. \A r \in Requests : /\ caller'[r] # "waiting" /\ (caller'[r] = "idle" <=> caller[r] = "idle")
                          /\ caller'[r] = "unheard" => caller[r] = "unheard" \/ closing = "ending"
  BY <1>1, <1>2
<1>5. InboundTypes'
  BY <1>1, <1>2 DEF InboundTypes
<1>6. UnheardWhenEnded'
  BY <1>3, <1>4 DEF UnheardWhenEnded
<1>7. IdsDistinct' /\ WaitingConnected'
  BY <1>1, <1>4 DEF IdsDistinct, WaitingConnected
<1>8. InFlightOwned' /\ RepliesOwned' /\ NobodyForgotten'
  BY <1>1, <1>4 DEF InFlightOwned, RepliesOwned, NobodyForgotten
<1> QED
  BY <1>5, <1>6, <1>7, <1>8

\* close() answers what is in inFlightRequests: nobody waits otherwise.
LEMMA CloseInv ==
  ASSUME InboundInv, CloseAndAnswer,
         drain' \in {"no", "waiting", "drained", "gaveUp"}
  PROVE  InboundInv'
<1> USE DEF InboundInv
<1>1. /\ UNCHANGED <<handler, idOf, caller, used, active, awaited>>
      /\ socket' = socket /\ closing = "no"
  BY DEF CloseAndAnswer, Close
<1>2. IdsDistinct' /\ WaitingConnected' /\ UnheardWhenEnded'
  BY <1>1 DEF IdsDistinct, WaitingConnected, UnheardWhenEnded
<1>3. CASE connected
  <2>1. /\ inFlight' = [id \in Ids |-> None]
        /\ replies' = replies \cup {[id |-> id, by |-> "error"] : id \in Tracked}
    BY <1>3 DEF CloseAndAnswer
  <2>2. \A q \in replies' : q \in replies \/ (q.id \in Tracked /\ q = [id |-> q.id, by |-> "error"])
    BY <2>1
  <2>3. InboundTypes'
    BY <1>1, <2>1 DEF InboundTypes, Reply, Tracked
  <2>4. InFlightOwned'
    BY <2>1 DEF InFlightOwned
  <2>5. \A id \in Tracked : \E r \in Requests :
           /\ caller[r] = "waiting" /\ idOf[r] = id /\ handler[r] # "none"
           /\ \A p \in replies : p.id # id
    BY DEF Tracked, InFlightOwned, InboundTypes
  <2>6. RepliesOwned'
    BY <1>1, <2>2, <2>5 DEF RepliesOwned
  <2>7. ASSUME NEW r \in Requests, caller[r] = "waiting", handler[r] # "none"
        PROVE  \E p \in replies' : p.id = idOf[r]
    <3>1. CASE inFlight[idOf[r]] = r
      <4>1. idOf[r] \in Tracked
        BY <2>7, <3>1 DEF Tracked, IdsDistinct, InboundTypes
      <4>2. [id |-> idOf[r], by |-> "error"] \in replies'
        BY <2>1, <4>1
      <4> QED
        BY <4>2
    <3>2. CASE \E p \in replies : p.id = idOf[r]
      BY <2>1, <3>2
    <3> QED
      BY <2>7, <3>1, <3>2 DEF NobodyForgotten
  <2>8. NobodyForgotten'
    BY <1>1, <2>7 DEF NobodyForgotten
  <2> QED
    BY <1>2, <2>3, <2>4, <2>6, <2>8
<1>4. CASE ~connected
  <2>1. UNCHANGED <<replies, inFlight>>
    BY <1>4 DEF CloseAndAnswer
  <2>2. InboundTypes' /\ InFlightOwned' /\ RepliesOwned' /\ NobodyForgotten'
    BY <1>1, <2>1 DEF InboundTypes, InFlightOwned, RepliesOwned, NobodyForgotten
  <2> QED
    BY <1>2, <2>2
<1> QED
  BY <1>3, <1>4

\* The drain only looks, and the rest of the lifecycle keeps a live socket.
LEMMA OtherStepInv ==
  ASSUME InboundInv, StartDrain \/ DrainGoesOn \/ OtherLifecycleStep
  PROVE  InboundInv'
<1> USE DEF InboundInv
<1>1. UNCHANGED <<handler, idOf, caller, used, inFlight, active, replies>>
  BY DEF StartDrain, DrainGoesOn, OtherLifecycleStep, inboundVars
<1>2. drain' \in {"no", "waiting", "drained", "gaveUp"} /\ awaited' \subseteq Requests
  BY DEF InboundTypes, StartDrain, DrainGoesOn, OtherLifecycleStep, inboundVars
<1>3. socket => socket'
  BY DEF StartDrain, DrainGoesOn, OtherLifecycleStep, lifecycleVars, ReconnectTimerFires,
         ConnectSucceeds, ConnectFails, Reregistered, ReregisterThrows, ResetSettles
<1>c. closing' = closing \/ closing' = "ending"
  BY DEF StartDrain, DrainGoesOn, OtherLifecycleStep, lifecycleVars, ReconnectTimerFires,
         ConnectSucceeds, ConnectFails, Reregistered, ReregisterThrows, ResetSettles
<1>4. InboundTypes' /\ IdsDistinct' /\ WaitingConnected' /\ UnheardWhenEnded'
  BY <1>1, <1>2, <1>3, <1>c
  DEF InboundTypes, IdsDistinct, WaitingConnected, UnheardWhenEnded
<1>5. InFlightOwned' /\ RepliesOwned' /\ NobodyForgotten'
  BY <1>1 DEF InFlightOwned, RepliesOwned, NobodyForgotten
<1> QED
  BY <1>4, <1>5

\* Every step keeps the invariant.
LEMMA InboundStep ==
  ASSUME InboundInv, [Next]_vars
  PROVE  InboundInv'
<1>1. ASSUME NEW r \in Requests, NEW id \in Ids, RouterForwards(r, id)
      PROVE  InboundInv'
  BY <1>1, ForwardInv
<1>2. ASSUME NEW r \in Requests, ReceiveRequest(r) \/ ReceiveUnknown(r)
      PROVE  InboundInv'
  BY <1>2, ReceiveInv
<1>3. ASSUME NEW r \in Requests, HandlerDone(r)
      PROVE  InboundInv'
  BY <1>3, HandlerInv
<1>4. ASSUME NEW p \in replies, RouterReceives(p)
      PROVE  InboundInv'
  BY <1>4, AnswerInv
<1>5. ASSUME NEW e \in BOOLEAN, NEW f \in BOOLEAN, Disconnect(e, f)
      PROVE  InboundInv'
  BY <1>5, DisconnectInv
<1>6. ASSUME CloseAtOnce \/ CloseWhenDrained \/ CloseWhenDrainTimesOut
      PROVE  InboundInv'
  <2>1. CloseAndAnswer /\ drain' \in {"no", "waiting", "drained", "gaveUp"}
    BY <1>6 DEF CloseAtOnce, CloseWhenDrained, CloseWhenDrainTimesOut
  <2> QED
    BY <2>1, CloseInv
<1>7. CASE StartDrain \/ DrainGoesOn \/ OtherLifecycleStep
  BY <1>7, OtherStepInv
<1>8. CASE UNCHANGED vars
  BY <1>8 DEF vars, lifecycleVars, inboundVars, InboundInv, InboundTypes, IdsDistinct,
     WaitingConnected, InFlightOwned, RepliesOwned, NobodyForgotten, UnheardWhenEnded
<1> QED
  BY <1>1, <1>2, <1>3, <1>4, <1>5, <1>6, <1>7, <1>8 DEF Next

\* To the lifecycle, a step of the requests is one of its own or nothing.
LEMMA LifecycleKept ==
  ASSUME LifecycleInv, [Next]_vars
  PROVE  LifecycleInv'
<1>1. LifecycleNext \/ UNCHANGED lifecycleVars
  BY DEF Next, vars, RouterForwards, ReceiveRequest, ReceiveUnknown, HandlerDone,
     RouterReceives, Disconnect, CloseAtOnce, CloseAndAnswer, StartDrain, DrainGoesOn,
     CloseWhenDrained, CloseWhenDrainTimesOut, OtherLifecycleStep, LifecycleNext
<1>2. CASE LifecycleNext
  BY <1>2, SwitchesStep, CountersStep, ConnectionStep, ClosedStep DEF LifecycleInv
<1>3. CASE UNCHANGED lifecycleVars
  BY <1>3 DEF lifecycleVars, LifecycleInv, SwitchesOK, CountersOK, SingleFlight,
              ReconnectUnderWay, NoTimerAfterClose, ConnectedIffSocket, ClosingIsOurs
<1> QED
  BY <1>1, <1>2, <1>3

\* What the theorems below rest on.
THEOREM InboundInvariance == Spec => [](LifecycleInv /\ InboundInv)
<1>1. Init => LifecycleInv /\ InboundInv
  BY InitInv, InboundInit DEF Init
<1>2. LifecycleInv /\ InboundInv /\ [Next]_vars => (LifecycleInv /\ InboundInv)'
  BY LifecycleKept, InboundStep
<1> QED
  BY <1>1, <1>2, PTL DEF Spec

-----------------------------------------------------------------------------
\* A request is answered by a handler or by close(), never by both and, until close()
\* has ended the socket, never by neither (bridge.ts 124-133, 311-315, 630-633), also
\* when a handler of an earlier connection takes its entry.
THEOREM OneAnswer == Spec => []AnsweredOnce
<1>1. LifecycleInv /\ InboundInv => AnsweredOnce
  <2> SUFFICES ASSUME LifecycleInv, InboundInv PROVE AnsweredOnce
    OBVIOUS
  <2>1. LifecycleTypeOK
    BY DEF LifecycleInv, SwitchesOK, CountersOK, LifecycleTypeOK
  <2>2. InboundTypeOK
    BY <2>1 DEF InboundInv, InboundTypes, InboundTypeOK
  <2>3. \A r \in Requests :
          caller[r] = "waiting" /\ handler[r] \in {"done", "missing"}
          => \E p \in replies : p.id = idOf[r]
    BY DEF InboundInv, NobodyForgotten
  <2> QED
    BY <2>2, <2>3 DEF AnsweredOnce, InboundInv, RepliesOwned, UnheardWhenEnded
<1> QED
  BY <1>1, InboundInvariance, PTL

\* A drain that ended by itself has left close() nothing to answer with an error
\* (bridge.ts 577-587, 630-633).
THEOREM DrainIsEnough == Spec => DrainSparesAnswers
<1>1. LifecycleInv /\ InboundInv /\ [Next]_vars
      => [drain' = "drained" /\ drain # "drained" => replies' = replies]_vars
  <2> SUFFICES ASSUME InboundInv, Next, drain' = "drained", drain # "drained"
               PROVE  replies' = replies
    OBVIOUS
  <2>1. CloseWhenDrained
    BY DEF Next, RouterForwards, ReceiveRequest, ReceiveUnknown, HandlerDone,
       RouterReceives, Disconnect, CloseAtOnce, StartDrain, DrainGoesOn,
       CloseWhenDrainTimesOut, OtherLifecycleStep, inboundVars
  <2>2. Tracked = {}
    BY <2>1 DEF CloseWhenDrained, Tracked, InboundInv, InFlightOwned
  <2> QED
    BY <2>1, <2>2 DEF CloseWhenDrained, CloseAndAnswer
<1> QED
  BY <1>1, InboundInvariance, PTL DEF Spec, DrainSparesAnswers

-----------------------------------------------------------------------------
(***************************************************************************)
(* The bytes.                                                              *)
(***************************************************************************)

HIDE InboundAssumption

\* A byte of a message, the first, and the last.
Byte == [of : Nat \ {0}, kind : Kinds, at : Nat \ {0}]

IsLast(b) == b.at = Wire[b.kind]

\* The byte that comes after another: of the same message, or the first of the next.
After(b, c) ==
  IF IsLast(b) THEN c.of = b.of + 1 /\ c.at = 1
               ELSE c.of = b.of /\ c.kind = b.kind /\ c.at = b.at + 1

\* Bytes of messages one after the other, from the beginning of message number first.
Stream(bytes, first) ==
  /\ bytes \in Seq(Byte)
  /\ \A i \in 1..Len(bytes) : bytes[i].at <= Wire[bytes[i].kind]
  /\ bytes # <<>> => bytes[1].of = first /\ bytes[1].at = 1
  /\ \A i \in 1..(Len(bytes) - 1) : After(bytes[i], bytes[i + 1])

\* The places between messages.
Boundaries(bytes) == {0} \cup {i \in 1..Len(bytes) : IsLast(bytes[i])}

\* The last message that bytes hold the whole of, when there is one.
Through(bytes, first, m) == IF m = 0 THEN first - 1 ELSE bytes[m].of

\* While no connection was lost inside a message, what has arrived and is not decoded
\* and what is on its way are the messages that are not decoded; the first of them has
\* not arrived whole.
StreamInv ==
  /\ whole \in BOOLEAN /\ sent \in Nat
  /\ whole =>
       LET rest == buffer \o inTransit IN
       /\ buffer \in Seq(Byte) /\ inTransit \in Seq(Byte)
       /\ decoded \in Seq(Nat) /\ \A n \in 1..Len(decoded) : decoded[n] = n
       /\ Stream(rest, Len(decoded) + 1)
       /\ Len(rest) \in Boundaries(rest)
       /\ Through(rest, Len(decoded) + 1, Len(rest)) = sent
       /\ buffer # <<>> => IsIncomplete(buffer, 0)

-----------------------------------------------------------------------------
(* What the decoder makes of bytes from the beginning of a message on *)

\* A set of natural numbers that is not empty has a least one.
LEMMA LeastNatural ==
  ASSUME NEW S \in SUBSET Nat, S # {}
  PROVE  \E x \in S : \A y \in S : x <= y
<1>1. PICK R : R = StrictSubsetOrdering(Nat)
  OBVIOUS
<1>2. PICK T : T = {0..(x - 1) : x \in S}
  OBVIOUS
<1>3. T \subseteq FiniteSubsetsOf(Nat) /\ T # {}
  <2>1. ASSUME NEW x \in S PROVE 0..(x - 1) \in FiniteSubsetsOf(Nat)
    BY FS_Interval DEF FiniteSubsetsOf
  <2> QED
    BY <1>2, <2>1
<1>4. IsWellFoundedOn(R, FiniteSubsetsOf(Nat))
  BY <1>1, FS_StrictSubsetOrderingWellFounded
<1>5. PICK A \in T : \A B \in T : ~(<<B, A>> \in R)
  BY <1>3, <1>4, WFMin
<1>6. PICK x \in S : A = 0..(x - 1)
  BY <1>2
<1>7. ASSUME NEW y \in S, y < x PROVE FALSE
  <2>1. 0..(y - 1) \in T
    BY <1>2
  <2>2. 0..(y - 1) \subseteq A /\ y \in A /\ y \notin 0..(y - 1)
    BY <1>6, <1>7
  <2>3. 0..(y - 1) \in SUBSET Nat /\ A \in SUBSET Nat
    BY <1>6
  <2>4. <<0..(y - 1), A>> \in R
    BY <1>1, <2>2, <2>3 DEF StrictSubsetOrdering
  <2> QED
    BY <1>5, <2>1, <2>4
<1> QED
  BY <1>7

\* A set of places that is not empty has a last one.
LEMMA Greatest ==
  ASSUME NEW n \in Nat, NEW S \in SUBSET (0..n), S # {}
  PROVE  \E x \in S : \A y \in S : y <= x
<1>1. PICK T : T = {n - x : x \in S}
  OBVIOUS
<1>2. T \in SUBSET Nat /\ T # {}
  <2>1. \A x \in S : n - x \in Nat
    OBVIOUS
  <2> QED
    BY <1>1, <2>1
<1>3. PICK y \in T : \A z \in T : y <= z
  BY <1>2, LeastNatural
<1>4. PICK x \in S : y = n - x
  BY <1>1
<1>5. ASSUME NEW z \in S PROVE z <= x
  <2>1. n - z \in T /\ z \in 0..n /\ x \in 0..n
    BY <1>1
  <2>2. n - x <= n - z
    BY <1>3, <1>4, <2>1
  <2> QED
    BY <2>1, <2>2
<1> QED
  BY <1>5

\* From a boundary on, the bytes are those of one message; it ends where its kind says
\* or the bytes end before.
LEMMA NextMessage ==
  ASSUME NEW bytes, NEW first \in Nat \ {0}, Stream(bytes, first),
         NEW c \in Boundaries(bytes), c < Len(bytes)
  PROVE  /\ EndOf(bytes, c) \in Nat /\ EndOf(bytes, c) > c
         /\ bytes[c + 1].of = Through(bytes, first, c) + 1
         /\ EndOf(bytes, c) <= Len(bytes) =>
              /\ IsComplete(bytes, c) /\ EndOf(bytes, c) \in Boundaries(bytes)
              /\ bytes[EndOf(bytes, c)] = [bytes[c + 1] EXCEPT !.at = EndOf(bytes, c) - c]
         /\ EndOf(bytes, c) > Len(bytes) => IsIncomplete(bytes, c)
         /\ \A d \in Boundaries(bytes) : d > c => d >= EndOf(bytes, c)
<1>1. /\ Len(bytes) \in Nat /\ c \in 0..Len(bytes) /\ c + 1 \in 1..Len(bytes)
      /\ \A i \in 1..Len(bytes) : bytes[i] \in Byte
  BY DEF Stream, Boundaries
<1> PICK w \in Nat \ {0} : w = Wire[bytes[c + 1].kind]
  BY <1>1, StreamAssumption DEF Byte
<1>2. w \in Nat \ {0} /\ EndOf(bytes, c) = c + w
  BY <1>1 DEF EndOf
<1>3. bytes[c + 1].at = 1 /\ bytes[c + 1].of = Through(bytes, first, c) + 1
  <2>1. CASE c = 0
    BY <1>1, <2>1 DEF Stream, Through
  <2>2. CASE c # 0
    <3>1. c \in 1..(Len(bytes) - 1) /\ IsLast(bytes[c])
      BY <1>1, <2>2 DEF Boundaries
    <3> QED
      BY <2>2, <3>1 DEF Stream, After, Through
  <2> QED
    BY <2>1, <2>2
<1> DEFINE Like(i) == /\ bytes[i].of = bytes[c + 1].of
                      /\ bytes[i].kind = bytes[c + 1].kind
                      /\ bytes[i].at = i - c
<1>4. \A i \in (c + 1)..Len(bytes) : i <= c + w => Like(i)
  <2>1. PICK S : S = {i \in (c + 1)..Len(bytes) : i <= c + w /\ ~Like(i)}
    OBVIOUS
  <2>2. SUFFICES ASSUME S # {} PROVE FALSE
    BY <2>1
  <2>3. S \in SUBSET Nat
    BY <1>1, <2>1
  <2>4. PICK i \in S : \A j \in S : i <= j
    BY <2>2, <2>3, LeastNatural
  <2>5. i \in (c + 1)..Len(bytes) /\ i \in Nat /\ i <= c + w /\ ~Like(i)
    BY <2>1, <2>3
  <2>6. Like(c + 1)
    BY <1>1, <1>3
  <2>7. i - 1 \in (c + 1)..Len(bytes) /\ i - 1 \in 1..(Len(bytes) - 1)
        /\ i - 1 < i /\ i - 1 <= c + w
    BY <1>1, <1>2, <2>5, <2>6
  <2>8. Like(i - 1)
    <3>1. i - 1 \notin S
      BY <2>4, <2>5, <2>7
    <3> QED
      BY <2>1, <2>7, <3>1
  <2>9. ~IsLast(bytes[i - 1])
    BY <1>1, <1>2, <2>5, <2>8 DEF IsLast
  <2>10. After(bytes[i - 1], bytes[i])
    <3>1. (i - 1) + 1 = i
      BY <2>5
    <3> QED
      BY <2>7, <3>1 DEF Stream
  <2> QED
    BY <1>1, <2>5, <2>8, <2>9, <2>10 DEF After
<1>5. \A i \in (c + 1)..Len(bytes) :
         i <= c + w => /\ IsLast(bytes[i]) <=> i = c + w
                       /\ bytes[i] = [bytes[c + 1] EXCEPT !.at = i - c]
  <2>1. ASSUME NEW i \in (c + 1)..Len(bytes), i <= c + w
        PROVE  /\ IsLast(bytes[i]) <=> i = c + w
               /\ bytes[i] = [bytes[c + 1] EXCEPT !.at = i - c]
    <3>1. bytes[i] \in Byte /\ bytes[c + 1] \in Byte
      BY <1>1, <2>1
    <3>2. Like(i)
      BY <1>4, <2>1
    <3>3. IsLast(bytes[i]) <=> i = c + w
      <4>1. Wire[bytes[i].kind] = w /\ bytes[i].at = i - c
        BY <3>2
      <4>2. i - c = w <=> i = c + w
        BY <1>1, <1>2
      <4> QED
        BY <4>1, <4>2 DEF IsLast
    <3> QED
      BY <3>1, <3>2, <3>3 DEF Byte
  <2> QED
    BY <2>1
<1> HIDE DEF Like
<1>6. \A d \in Boundaries(bytes) : d > c => d >= c + w
  <2>1. ASSUME NEW d \in Boundaries(bytes), d > c, d < c + w PROVE FALSE
    <3>1. d \in (c + 1)..Len(bytes) /\ d <= c + w /\ d # c + w
      BY <1>1, <1>2, <2>1 DEF Boundaries
    <3>2. ~IsLast(bytes[d])
      BY <1>5, <3>1
    <3> QED
      BY <1>1, <2>1, <3>2 DEF Boundaries
  <2>2. \A d \in Boundaries(bytes) : d \in Int
    BY <1>1 DEF Boundaries
  <2> QED
    BY <1>1, <1>2, <2>1, <2>2
<1>7. ASSUME c + w <= Len(bytes)
      PROVE  /\ IsComplete(bytes, c) /\ c + w \in Boundaries(bytes)
             /\ bytes[c + w] = [bytes[c + 1] EXCEPT !.at = (c + w) - c]
  <2>1. c + w \in (c + 1)..Len(bytes) /\ c + w \in 1..Len(bytes)
    BY <1>1, <1>2, <1>7
  <2>2. IsLast(bytes[c + w]) /\ bytes[c + w] = [bytes[c + 1] EXCEPT !.at = (c + w) - c]
    BY <1>1, <1>2, <1>5, <2>1
  <2>3. IsComplete(bytes, c)
    BY <1>1, <1>2, <1>5, <1>7 DEF IsComplete, OneMessage
  <2> QED
    BY <2>1, <2>2, <2>3 DEF Boundaries
<1>8. ASSUME c + w > Len(bytes) PROVE IsIncomplete(bytes, c)
  <2>1. \A i \in (c + 1)..Len(bytes) : i <= c + w
    BY <1>1, <1>2, <1>8
  <2>2. OneMessage(bytes, c, Len(bytes))
    BY <1>5, <2>1 DEF OneMessage
  <2> QED
    BY <1>2, <1>8, <2>2 DEF IsIncomplete
<1> QED
  BY <1>1, <1>2, <1>3, <1>6, <1>7, <1>8

\* Before every place there is a boundary, and the message from there on reaches the
\* place or goes beyond.
LEMMA MessageAt ==
  ASSUME NEW bytes, NEW first \in Nat \ {0}, Stream(bytes, first), NEW d \in 1..Len(bytes)
  PROVE  \E p \in Boundaries(bytes) :
           /\ p < d /\ d <= EndOf(bytes, p)
           /\ \A c \in Boundaries(bytes) : c < d => c <= p
           /\ d \in Boundaries(bytes) => d = EndOf(bytes, p)
<1>1. Len(bytes) \in Nat /\ Boundaries(bytes) \subseteq 0..Len(bytes)
  BY DEF Stream, Boundaries
<1>2. PICK S : S = {c \in Boundaries(bytes) : c < d}
  OBVIOUS
<1>3. S \subseteq 0..Len(bytes) /\ 0 \in S
  BY <1>1, <1>2 DEF Boundaries
<1>4. PICK p \in S : \A c \in S : c <= p
  BY <1>1, <1>3, Greatest
<1>5. /\ p \in Boundaries(bytes) /\ p < d /\ p < Len(bytes) /\ p \in Nat
      /\ \A c \in Boundaries(bytes) : c < d => c <= p
  BY <1>1, <1>2, <1>4
<1>6. /\ EndOf(bytes, p) \in Nat /\ EndOf(bytes, p) > p
      /\ EndOf(bytes, p) <= Len(bytes) => EndOf(bytes, p) \in Boundaries(bytes)
      /\ \A c \in Boundaries(bytes) : c > p => c >= EndOf(bytes, p)
  BY <1>5, NextMessage
<1>7. d <= EndOf(bytes, p)
  BY <1>1, <1>5, <1>6
<1> QED
  BY <1>1, <1>5, <1>6, <1>7

\* The values that decodeMulti() yields are the messages: it stops where the last whole
\* one ends, and nowhere inside one.
LEMMA EndsAreBoundaries ==
  ASSUME NEW bytes, NEW first \in Nat \ {0}, Stream(bytes, first), bytes # <<>>,
         NEW ends \in Decodings(bytes)
  PROVE  ends \cup {0} = Boundaries(bytes) /\ ends \subseteq 1..Len(bytes)
<1>1. Len(bytes) \in Nat \ {0} /\ Boundaries(bytes) \subseteq 0..Len(bytes)
  BY DEF Stream, Boundaries
<1>2. /\ ends \subseteq 1..Len(bytes)
      /\ \A c \in ends \cup {0} : c < Len(bytes) =>
           /\ IsComplete(bytes, c) => /\ EndOf(bytes, c) \in ends
                                      /\ \A d \in ends : d > c => d >= EndOf(bytes, c)
           /\ IsIncomplete(bytes, c) => \A d \in ends : d <= c
  <2>1. ends \subseteq 1..Len(bytes)
    BY DEF Decodings
  <2>2. ASSUME NEW c \in ends \cup {0}, c < Len(bytes)
        PROVE  c \in 0..(Len(bytes) - 1)
    BY <1>1, <2>1, <2>2
  <2> QED
    BY <2>1, <2>2 DEF Decodings
<1>3. Boundaries(bytes) \subseteq ends \cup {0}
  <2>1. PICK S : S = Boundaries(bytes) \ (ends \cup {0})
    OBVIOUS
  <2>2. SUFFICES ASSUME S # {} PROVE FALSE
    BY <2>1
  <2>3. PICK b \in S : \A c \in S : b <= c
    <3>1. S \in SUBSET Nat
      BY <1>1, <2>1
    <3> QED
      BY <2>2, <3>1, LeastNatural
  <2>4. b \in Boundaries(bytes) /\ b \in 1..Len(bytes) /\ b \notin ends
    BY <1>1, <2>1
  <2>5. PICK p \in Boundaries(bytes) : p < b /\ b = EndOf(bytes, p)
    BY <2>4, MessageAt
  <2>6. p \in ends \cup {0}
    <3>1. p \notin S
      BY <1>1, <2>3, <2>4, <2>5
    <3> QED
      BY <2>1, <3>1
  <2>7. p < Len(bytes) /\ EndOf(bytes, p) <= Len(bytes)
    BY <1>1, <2>4, <2>5
  <2>8. IsComplete(bytes, p)
    BY <2>7, NextMessage
  <2> QED
    BY <1>2, <2>4, <2>5, <2>6, <2>7, <2>8
<1>4. ends \subseteq Boundaries(bytes)
  <2>1. SUFFICES ASSUME NEW d \in ends PROVE d \in Boundaries(bytes)
    OBVIOUS
  <2>2. d \in 1..Len(bytes)
    BY <1>2
  <2>3. PICK p \in Boundaries(bytes) : p < d /\ d <= EndOf(bytes, p)
    BY <2>2, MessageAt
  <2>4. p < Len(bytes) /\ p \in ends \cup {0} /\ p \in Nat
    BY <1>1, <1>3, <2>2, <2>3
  <2>5. EndOf(bytes, p) \in Nat
    BY <2>4, NextMessage
  <2>6. CASE EndOf(bytes, p) <= Len(bytes)
    <3>1. IsComplete(bytes, p) /\ EndOf(bytes, p) \in Boundaries(bytes)
      BY <2>4, <2>6, NextMessage
    <3>2. d >= EndOf(bytes, p)
      BY <1>2, <2>3, <2>4, <3>1
    <3>3. d = EndOf(bytes, p)
      BY <2>2, <2>3, <2>5, <3>2
    <3> QED
      BY <3>1, <3>3
  <2>7. CASE EndOf(bytes, p) > Len(bytes)
    <3>1. IsIncomplete(bytes, p)
      BY <2>4, <2>7, NextMessage
    <3>2. d <= p
      BY <1>2, <2>4, <3>1
    <3> QED
      BY <2>2, <2>3, <2>4, <3>2
  <2> QED
    BY <1>1, <2>5, <2>6, <2>7
<1> QED
  BY <1>2, <1>3, <1>4 DEF Boundaries

\* One value after the other: where it starts, that it is a message, and its number.
LEMMA ValueAt ==
  ASSUME NEW bytes, NEW first \in Nat \ {0}, Stream(bytes, first), bytes # <<>>,
         NEW ends \in Decodings(bytes), NEW d \in ends
  PROVE  \E p \in ends \cup {0} :
           /\ p < d /\ StartOf(ends, d) = p /\ IsMessage(bytes, ends, d)
           /\ {c \in ends : c <= d} = {c \in ends : c <= p} \cup {d}
           /\ bytes[d].of = Through(bytes, first, p) + 1
           /\ d = p + Wire[bytes[d].kind] /\ Wire[bytes[d].kind] \in Nat \ {0}
<1>1. /\ Len(bytes) \in Nat \ {0} /\ Boundaries(bytes) \subseteq 0..Len(bytes)
      /\ \A i \in 1..Len(bytes) : bytes[i] \in Byte
  BY DEF Stream, Boundaries
<1>2. ends \cup {0} = Boundaries(bytes) /\ ends \subseteq 1..Len(bytes)
  BY EndsAreBoundaries
<1>3. d \in 1..Len(bytes) /\ d \in Boundaries(bytes)
  BY <1>2
<1>4. PICK p \in Boundaries(bytes) :
        p < d /\ d = EndOf(bytes, p) /\ \A c \in Boundaries(bytes) : c < d => c <= p
  BY <1>3, MessageAt
<1>5. p < Len(bytes) /\ p \in Nat /\ p + 1 \in 1..Len(bytes)
  BY <1>1, <1>3, <1>4
<1>6. /\ IsComplete(bytes, p) /\ bytes[p + 1].of = Through(bytes, first, p) + 1
      /\ bytes[d] = [bytes[p + 1] EXCEPT !.at = d - p]
  BY <1>1, <1>3, <1>4, <1>5, NextMessage
<1>7. bytes[d].of = bytes[p + 1].of /\ bytes[d].kind = bytes[p + 1].kind
  BY <1>1, <1>3, <1>5, <1>6 DEF Byte
<1>8. StartOf(ends, d) = p
  <2>1. PICK S : S = {c \in ends \cup {0} : c < d}
    OBVIOUS
  <2>2. p \in S /\ \A c \in S : c <= p /\ c \in Nat
    BY <1>1, <1>2, <1>4, <2>1
  <2>3. \A x \in S : (\A y \in S : x >= y) => x = p
    BY <2>2
  <2>4. Max(S) = p
    BY <2>2, <2>3 DEF Max
  <2> QED
    BY <2>1, <2>4 DEF StartOf
<1>9. \A c \in ends : c <= d <=> c <= p \/ c = d
  BY <1>1, <1>2, <1>3, <1>4, <1>5
<1>10. bytes[d].kind \in Kinds
  BY <1>1, <1>3 DEF Byte
<1>11. Wire[bytes[d].kind] \in Nat \ {0}
  BY <1>10, StreamAssumption
<1> QED
  BY <1>2, <1>4, <1>6, <1>7, <1>8, <1>9, <1>11 DEF IsMessage, EndOf

\* The number of the values up to a message is that of the message, from the first on.
LEMMA ValuesCounted ==
  ASSUME NEW bytes, NEW first \in Nat \ {0}, Stream(bytes, first), bytes # <<>>,
         NEW ends \in Decodings(bytes), NEW m \in ends \cup {0}
  PROVE  /\ IsFiniteSet({c \in ends : c <= m})
         /\ Cardinality({c \in ends : c <= m}) = Through(bytes, first, m) + 1 - first
         /\ Through(bytes, first, m) \in Nat
<1>1. /\ ends \subseteq 1..Len(bytes) /\ Len(bytes) \in Nat
      /\ ends \cup {0} \subseteq Nat /\ {c \in ends : c <= 0} = {}
  <2>1. ends \subseteq 1..Len(bytes)
    BY EndsAreBoundaries
  <2>2. Len(bytes) \in Nat
    BY DEF Stream
  <2>3. 0 \in Nat /\ \A c \in ends : c \in Nat /\ ~(c <= 0)
    BY <2>1, <2>2
  <2> QED
    BY <2>1, <2>2, <2>3, Zenon
<1> DEFINE upTo(n) == {c \in ends : c <= n}
           Exact(n) == /\ IsFiniteSet(upTo(n))
                       /\ Cardinality(upTo(n)) = Through(bytes, first, n) + 1 - first
<1>2. \A n \in ends \cup {0} : Through(bytes, first, n) \in Nat
  <2>1. Through(bytes, first, 0) = first - 1 /\ first - 1 \in Nat
    BY DEF Through
  <2>2. ASSUME NEW n \in ends PROVE Through(bytes, first, n) \in Nat
    <3>1. bytes[n] \in Byte /\ n # 0
      BY <1>1 DEF Stream
    <3> QED
      BY <3>1 DEF Through, Byte
  <2> QED
    BY <2>1, <2>2
<1>3. Exact(0)
  <2>1. upTo(0) = {}
    BY <1>1, Zenon
  <2>2. Through(bytes, first, 0) + 1 - first = 0
    BY DEF Through
  <2> QED
    BY <2>1, <2>2, FS_EmptySet
<1>4. ASSUME NEW n \in ends, NEW p \in ends \cup {0}, p < n, upTo(n) = upTo(p) \cup {n},
             bytes[n].of = Through(bytes, first, p) + 1, Exact(p)
      PROVE  Exact(n)
  <2>1. n \notin upTo(p)
    BY <1>1, <1>4
  <2>2. IsFiniteSet(upTo(n)) /\ Cardinality(upTo(n)) = Cardinality(upTo(p)) + 1
    BY <1>4, <2>1, FS_AddElement
  <2>3. Through(bytes, first, n) = Through(bytes, first, p) + 1
    BY <1>1, <1>4 DEF Through
  <2>4. Through(bytes, first, p) \in Nat
    BY <1>2
  <2>5. Cardinality(upTo(p)) = Through(bytes, first, p) + 1 - first
    BY <1>4
  <2> HIDE DEF upTo
  <2>6. Cardinality(upTo(n)) = Through(bytes, first, n) + 1 - first
    BY <2>2, <2>3, <2>4, <2>5
  <2> QED
    BY <2>2, <2>6
<1>5. \A n \in ends : \E p \in ends \cup {0} :
         /\ p < n /\ upTo(n) = upTo(p) \cup {n}
         /\ bytes[n].of = Through(bytes, first, p) + 1
  BY ValueAt
<1> HIDE DEF Exact
<1>6. \A n \in ends \cup {0} : Exact(n)
  <2>1. PICK S : S = {n \in ends \cup {0} : ~Exact(n)}
    OBVIOUS
  <2>2. SUFFICES ASSUME S # {} PROVE FALSE
    BY <2>1
  <2>3. PICK n \in S : \A k \in S : n <= k
    <3>1. S \in SUBSET Nat
      BY <1>1, <2>1, Zenon
    <3> QED
      BY <2>2, <3>1, LeastNatural
  <2>4. n \in ends /\ n \in Nat /\ ~Exact(n)
    BY <1>1, <1>3, <2>1
  <2>5. PICK p \in ends \cup {0} :
          /\ p < n /\ upTo(n) = upTo(p) \cup {n}
          /\ bytes[n].of = Through(bytes, first, p) + 1
    BY <1>5, <2>4
  <2>6. p \notin S
    <3>1. p < n /\ p \in Nat
      BY <1>1, <2>5, Zenon
    <3>2. ~(n <= p)
      BY <2>4, <3>1
    <3> QED
      BY <2>3, <3>2, Zenon
  <2> QED
    BY <1>4, <2>1, <2>4, <2>5, <2>6
<1> QED
  BY <1>2, <1>6 DEF Exact

\* Encoded again, where encode() gives what the router sent, the values take as many
\* bytes as there are before the last of them ends.
LEMMA SizesAdd ==
  ASSUME NEW bytes, NEW first \in Nat \ {0}, Stream(bytes, first), bytes # <<>>,
         NEW ends \in Decodings(bytes), NEW m \in ends \cup {0}, \A c \in ends : c <= m,
         Canon = Wire
  PROVE  Reencoded(bytes, ends) = {m}
<1>1. /\ ends \subseteq 1..Len(bytes) /\ Len(bytes) \in Nat
      /\ ends \cup {0} \subseteq Nat /\ {c \in ends : c <= 0} = {}
  <2>1. ends \subseteq 1..Len(bytes)
    BY EndsAreBoundaries
  <2>2. Len(bytes) \in Nat
    BY DEF Stream
  <2>3. 0 \in Nat /\ \A c \in ends : c \in Nat /\ ~(c <= 0)
    BY <2>1, <2>2
  <2> QED
    BY <2>1, <2>2, <2>3, Zenon
<1> DEFINE own(d) == {<<d, i>> : i \in 1..Canon[bytes[d].kind]}
           upTo(n) == UNION {own(d) : d \in {c \in ends : c <= n}}
           Exact(n) == IsFiniteSet(upTo(n)) /\ Cardinality(upTo(n)) = n
<1>2. \A n \in ends : \E p \in ends \cup {0} :
         /\ p < n /\ {c \in ends : c <= n} = {c \in ends : c <= p} \cup {n}
         /\ n = p + Canon[bytes[n].kind] /\ Canon[bytes[n].kind] \in Nat
  BY ValueAt
<1>3. ASSUME NEW d \in ends
      PROVE  IsFiniteSet(own(d)) /\ Cardinality(own(d)) = Canon[bytes[d].kind]
  <2> PICK size \in Nat : size = Canon[bytes[d].kind]
    BY <1>2
  <2>1. PICK f : f = [i \in 1..size |-> <<d, i>>]
    OBVIOUS
  <2>2. f \in [1..size -> own(d)]
    BY <2>1
  <2>3. \A i, j \in 1..size : f[i] = f[j] => i = j
    BY <2>1
  <2>4. \A x \in own(d) : \E i \in 1..size : f[i] = x
    BY <2>1
  <2> HIDE DEF own
  <2>5. f \in Bijection(1..size, own(d))
    <3>1. DOMAIN f = 1..size
      BY <2>2
    <3>2. f \in Injection(1..size, own(d))
      BY <2>2, <2>3, <3>1, Zenon DEF Injection, IsInjective
    <3>3. f \in Surjection(1..size, own(d))
      BY <2>2, <2>4, Zenon DEF Surjection
    <3> QED
      BY <3>2, <3>3 DEF Bijection
  <2>6. IsFiniteSet(1..size) /\ Cardinality(1..size) = size
    <3>1. 1 \in Int /\ size \in Int /\ (IF 1 > size THEN 0 ELSE size - 1 + 1) = size
      OBVIOUS
    <3> QED
      BY <3>1, FS_Interval, Zenon
  <2> QED
    BY <2>5, <2>6, FS_Bijection DEF ExistsBijection
<1>4. Exact(0)
  <2>1. upTo(0) = {}
    BY <1>1
  <2> QED
    BY <2>1, FS_EmptySet
<1>5. ASSUME NEW n \in ends, NEW p \in ends \cup {0}, p < n,
             {c \in ends : c <= n} = {c \in ends : c <= p} \cup {n},
             n = p + Canon[bytes[n].kind], Canon[bytes[n].kind] \in Nat, Exact(p)
      PROVE  Exact(n)
  <2>1. upTo(n) = upTo(p) \cup own(n)
    BY <1>5
  <2>2. upTo(p) \cap own(n) = {}
    <3>1. \A d \in ends : d <= p => d # n
      BY <1>1, <1>5
    <3> QED
      BY <3>1
  <2>3. IsFiniteSet(own(n)) /\ Cardinality(own(n)) = Canon[bytes[n].kind]
    BY <1>3
  <2>4. n \in Nat /\ p \in Nat
    BY <1>1
  <2>5. IsFiniteSet(upTo(p)) /\ Cardinality(upTo(p)) = p
    BY <1>5
  <2> HIDE DEF own, upTo
  <2>6. IsFiniteSet(upTo(n))
        /\ Cardinality(upTo(n)) = p + Canon[bytes[n].kind] - 0
    BY <2>1, <2>2, <2>3, <2>5, FS_Union, FS_EmptySet
  <2> QED
    BY <1>5, <2>4, <2>6
<1> HIDE DEF Exact
<1>6. \A n \in ends \cup {0} : Exact(n)
  <2>1. PICK S : S = {n \in ends \cup {0} : ~Exact(n)}
    OBVIOUS
  <2>2. SUFFICES ASSUME S # {} PROVE FALSE
    BY <2>1
  <2>3. PICK n \in S : \A k \in S : n <= k
    <3>1. S \in SUBSET Nat
      BY <1>1, <2>1, Zenon
    <3> QED
      BY <2>2, <3>1, LeastNatural
  <2>4. n \in ends /\ n \in Nat /\ ~Exact(n)
    BY <1>1, <1>4, <2>1
  <2>5. PICK p \in ends \cup {0} :
          /\ p < n /\ {c \in ends : c <= n} = {c \in ends : c <= p} \cup {n}
          /\ n = p + Canon[bytes[n].kind] /\ Canon[bytes[n].kind] \in Nat
    BY <1>2, <2>4
  <2>6. p \notin S
    <3>1. p < n /\ p \in Nat
      BY <1>1, <2>5, Zenon
    <3>2. ~(n <= p)
      BY <2>4, <3>1
    <3> QED
      BY <2>3, <3>2, Zenon
  <2> QED
    BY <1>5, <2>1, <2>4, <2>5, <2>6
<1>7. {d \in ends : IsMessage(bytes, ends, d)} = ends
  BY ValueAt
<1>8. {c \in ends : c <= m} = ends
  OBVIOUS
<1>9. Cardinality(UNION {own(d) : d \in ends}) = m
  BY <1>6, <1>8 DEF Exact
<1> QED
  BY <1>7, <1>9 DEF Reencoded

\* The values of a chunk are the numbers of its messages, in order.
LEMMA ValuesInOrder ==
  ASSUME NEW bytes, NEW first \in Nat \ {0}, Stream(bytes, first), bytes # <<>>,
         NEW ends \in Decodings(bytes), NEW m \in ends \cup {0}, \A c \in ends : c <= m
  PROVE  LET number == Through(bytes, first, m) + 1 - first IN
         number \in Nat /\ ValuesAt(bytes, ends) = [j \in 1..number |-> first - 1 + j]
<1>1. /\ ends \subseteq 1..Len(bytes) /\ Len(bytes) \in Nat
      /\ ends \cup {0} \subseteq Nat /\ {c \in ends : c <= 0} = {}
  <2>1. ends \subseteq 1..Len(bytes)
    BY EndsAreBoundaries
  <2>2. Len(bytes) \in Nat
    BY DEF Stream
  <2>3. 0 \in Nat /\ \A c \in ends : c \in Nat /\ ~(c <= 0)
    BY <2>1, <2>2
  <2> QED
    BY <2>1, <2>2, <2>3, Zenon
<1> DEFINE count(n) == Cardinality({c \in ends : c <= n})
<1> PICK number : number = Cardinality(ends)
  OBVIOUS
<1>2. \A n \in ends \cup {0} :
        /\ count(n) = Through(bytes, first, n) + 1 - first /\ count(n) \in Int
        /\ Through(bytes, first, n) \in Nat
  <2>1. ASSUME NEW n \in ends \cup {0}
        PROVE  /\ count(n) = Through(bytes, first, n) + 1 - first
               /\ Through(bytes, first, n) \in Nat
    BY ValuesCounted
  <2> HIDE DEF count
  <2> QED
    BY <2>1
<1>3. IsFiniteSet(ends) /\ count(m) = number
  <2>1. {c \in ends : c <= m} = ends
    OBVIOUS
  <2> QED
    BY <2>1, ValuesCounted
<1>4. number \in Nat /\ (ends = {} => number = 0)
  BY <1>3, FS_CardinalityType, FS_EmptySet
<1>5. \A d \in ends : \E p \in ends \cup {0} : p < d /\ count(d) = count(p) + 1
  <2>1. SUFFICES ASSUME NEW d \in ends
                 PROVE  \E p \in ends \cup {0} : p < d /\ count(d) = count(p) + 1
    OBVIOUS
  <2>2. PICK p \in ends \cup {0} : p < d /\ bytes[d].of = Through(bytes, first, p) + 1
    BY ValueAt
  <2>3. Through(bytes, first, d) = Through(bytes, first, p) + 1
    BY <1>1, <2>2 DEF Through
  <2> HIDE DEF count
  <2> QED
    BY <1>2, <2>2, <2>3
<1>6. count(0) = 0
  BY <1>1, FS_EmptySet
<1> HIDE DEF count
<1>7. ASSUME NEW j \in 1..number PROVE \E d \in ends : count(d) = j
  <2>1. PICK S : S = {d \in ends : count(d) >= j}
    OBVIOUS
  <2>2. m \in S
    BY <1>1, <1>3, <1>4, <1>7, <2>1
  <2>3. PICK d \in S : \A c \in S : d <= c
    <3>1. S \in SUBSET Nat
      BY <1>1, <2>1, Zenon
    <3> QED
      BY <2>2, <3>1, LeastNatural
  <2>4. d \in ends /\ d \in 1..Len(bytes) /\ count(d) >= j
    BY <1>1, <2>1
  <2>5. PICK p \in ends \cup {0} : p < d /\ count(d) = count(p) + 1
    BY <1>5, <2>4
  <2>6. p \in Nat /\ p \notin S
    BY <1>1, <2>3, <2>4, <2>5
  <2>7. ~(count(p) >= j)
    BY <1>4, <1>6, <2>1, <2>6
  <2>8. count(p) \in Int
    BY <1>2
  <2> QED
    BY <1>4, <2>4, <2>5, <2>7, <2>8
<1>8. ASSUME NEW j \in 1..number
      PROVE  /\ EndAt(ends, j) \in ends /\ IsMessage(bytes, ends, EndAt(ends, j))
             /\ bytes[EndAt(ends, j)].of = first - 1 + j
  <2>1. PICK d : d = EndAt(ends, j)
    OBVIOUS
  <2>2. d \in ends /\ count(d) = j
    BY <1>7, <2>1 DEF EndAt, count
  <2>3. Through(bytes, first, d) = bytes[d].of
    BY <1>1, <2>2 DEF Through
  <2>4. count(d) = Through(bytes, first, d) + 1 - first /\ Through(bytes, first, d) \in Nat
    BY <1>2, <2>2
  <2>5. bytes[d].of = first - 1 + j
    BY <1>4, <2>2, <2>3, <2>4
  <2> QED
    BY <2>1, <2>2, <2>5, ValueAt
<1>9. ValuesAt(bytes, ends) = [j \in 1..number |-> first - 1 + j]
  BY <1>8 DEF ValuesAt
<1>10. number = Through(bytes, first, m) + 1 - first
  BY <1>2, <1>3
<1> QED
  BY <1>4, <1>9, <1>10

\* Messages stay messages when some are taken off the front, and when the end is cut off.
LEMMA Pieces ==
  ASSUME NEW bytes, NEW first \in Nat \ {0}, Stream(bytes, first), NEW m \in 0..Len(bytes)
  PROVE  /\ Stream(SubSeq(bytes, 1, m), first)
         /\ m \in Boundaries(bytes) =>
              Stream(SubSeq(bytes, m + 1, Len(bytes)), Through(bytes, first, m) + 1)
<1>1. /\ bytes \in Seq(Byte) /\ Len(bytes) \in Nat
      /\ \A i \in 1..Len(bytes) :
            bytes[i] \in Byte /\ bytes[i].at <= Wire[bytes[i].kind]
      /\ \A i \in 1..(Len(bytes) - 1) : After(bytes[i], bytes[i + 1])
  BY DEF Stream
<1>2. Stream(SubSeq(bytes, 1, m), first)
  <2> PICK front : front = SubSeq(bytes, 1, m)
    OBVIOUS
  <2>1. /\ front \in Seq(Byte) /\ Len(front) = m
        /\ \A i \in 1..m : front[i] = bytes[i]
    BY <1>1
  <2>2. front # <<>> => front[1].of = first /\ front[1].at = 1
    BY <1>1, <2>1 DEF Stream
  <2>3. \A i \in 1..Len(front) : front[i].at <= Wire[front[i].kind]
    BY <1>1, <2>1
  <2>4. ASSUME NEW i \in 1..(Len(front) - 1) PROVE After(front[i], front[i + 1])
    <3>1. i \in 1..(Len(bytes) - 1) /\ i \in 1..m /\ i + 1 \in 1..m
      BY <1>1, <2>1
    <3> QED
      BY <1>1, <2>1, <3>1
  <2> QED
    BY <2>1, <2>2, <2>3, <2>4 DEF Stream
<1>3. ASSUME m \in Boundaries(bytes)
      PROVE  Stream(SubSeq(bytes, m + 1, Len(bytes)), Through(bytes, first, m) + 1)
  <2> PICK rest : rest = SubSeq(bytes, m + 1, Len(bytes))
    OBVIOUS
  <2>1. /\ rest \in Seq(Byte) /\ Len(rest) = Len(bytes) - m
        /\ \A i \in 1..(Len(bytes) - m) : rest[i] = bytes[m + i]
    BY <1>1
  <2>2. ASSUME rest # <<>>
        PROVE  rest[1].of = Through(bytes, first, m) + 1 /\ rest[1].at = 1
    <3>1. m < Len(bytes) /\ rest[1] = bytes[m + 1]
      BY <1>1, <2>1, <2>2
    <3>2. CASE m = 0
      BY <1>1, <3>1, <3>2 DEF Stream, Through
    <3>3. CASE m # 0
      <4>1. IsLast(bytes[m]) /\ m \in 1..(Len(bytes) - 1)
        BY <1>1, <1>3, <3>1, <3>3 DEF Boundaries
      <4>2. After(bytes[m], bytes[m + 1])
        BY <1>1, <4>1
      <4> QED
        BY <3>1, <3>3, <4>1, <4>2 DEF After, Through
    <3> QED
      BY <3>2, <3>3
  <2>3. ASSUME NEW i \in 1..Len(rest) PROVE rest[i].at <= Wire[rest[i].kind]
    <3>1. m + i \in 1..Len(bytes) /\ rest[i] = bytes[m + i]
      BY <1>1, <2>1
    <3> QED
      BY <1>1, <3>1
  <2>4. ASSUME NEW i \in 1..(Len(rest) - 1) PROVE After(rest[i], rest[i + 1])
    <3>1. m + i \in 1..(Len(bytes) - 1) /\ (m + i) + 1 = m + (i + 1)
      BY <1>1, <2>1
    <3>2. rest[i] = bytes[m + i] /\ rest[i + 1] = bytes[(m + i) + 1]
      BY <1>1, <2>1, <3>1
    <3> QED
      BY <1>1, <3>1, <3>2
  <2> QED
    BY <2>1, <2>2, <2>3, <2>4 DEF Stream
<1> QED
  BY <1>2, <1>3

\* feed(): the messages that end in the chunk are decoded, and the beginning of the next
\* one stays in the buffer.
LEMMA FeedGives ==
  ASSUME NEW bytes, NEW first \in Nat \ {0}, Stream(bytes, first), bytes # <<>>,
         Canon = Wire, first = Len(decoded) + 1,
         decoded \in Seq(Nat), \A n \in 1..Len(decoded) : decoded[n] = n,
         Feed(bytes)
  PROVE  \E m \in Boundaries(bytes) :
           /\ buffer' = SubSeq(bytes, m + 1, Len(bytes))
           /\ decoded' \in Seq(Nat) /\ \A n \in 1..Len(decoded') : decoded'[n] = n
           /\ Len(decoded') = Through(bytes, first, m)
           /\ buffer' # <<>> => IsIncomplete(buffer', 0)
<1>1. bytes \in Seq(Byte) /\ Len(bytes) \in Nat /\ Boundaries(bytes) \subseteq 0..Len(bytes)
  BY DEF Stream, Boundaries
<1>2. PICK ends \in Decodings(bytes) : \E consumed \in Reencoded(bytes, ends) :
        /\ decoded' = decoded \o ValuesAt(bytes, ends)
        /\ buffer' = SubSeq(bytes, consumed + 1, Len(bytes))
  BY DEF Feed
<1>3. ends \cup {0} = Boundaries(bytes)
  BY EndsAreBoundaries
<1>4. PICK m \in Boundaries(bytes) : \A c \in Boundaries(bytes) : c <= m
  <2>1. Boundaries(bytes) # {}
    BY DEF Boundaries
  <2> QED
    BY <1>1, <2>1, Greatest
<1>5. m \in ends \cup {0} /\ m \in 0..Len(bytes) /\ \A c \in ends : c <= m
  BY <1>1, <1>3, <1>4
<1>6. buffer' = SubSeq(bytes, m + 1, Len(bytes))
  <2>1. Reencoded(bytes, ends) = {m}
    BY <1>5, SizesAdd
  <2> QED
    BY <1>2, <2>1
<1>7. PICK number \in Nat :
        /\ Through(bytes, first, m) = Len(decoded) + number
        /\ ValuesAt(bytes, ends) = [j \in 1..number |-> Len(decoded) + j]
  <2>1. PICK k : k = Through(bytes, first, m) + 1 - first
    OBVIOUS
  <2>2. k \in Nat /\ ValuesAt(bytes, ends) = [j \in 1..k |-> first - 1 + j]
    BY <1>5, <2>1, ValuesInOrder
  <2>3. Len(decoded) \in Nat /\ first - 1 = Len(decoded)
    OBVIOUS
  <2>4. Through(bytes, first, m) \in Nat
    BY <1>5, ValuesCounted
  <2>5. Through(bytes, first, m) = Len(decoded) + k
    BY <2>1, <2>3, <2>4
  <2> QED
    BY <2>2, <2>3, <2>5
<1>8. Through(bytes, first, m) \in Nat
  BY <1>5, ValuesCounted
<1>9. /\ decoded' \in Seq(Nat) /\ \A n \in 1..Len(decoded') : decoded'[n] = n
      /\ Len(decoded') = Len(decoded) + number
  <2>1. Len(decoded) \in Nat
    OBVIOUS
  <2>2. PICK values \in Seq(Nat) :
          Len(values) = number /\ values = [j \in 1..number |-> Len(decoded) + j]
    <3>1. [j \in 1..number |-> Len(decoded) + j] \in Seq(Nat)
      BY <2>1
    <3>2. Len([j \in 1..number |-> Len(decoded) + j]) = number
      OBVIOUS
    <3> QED
      BY <3>1, <3>2
  <2>3. decoded' = decoded \o values
    BY <1>2, <1>7, <2>2
  <2>4. decoded' \in Seq(Nat) /\ Len(decoded') = Len(decoded) + number
    BY <2>2, <2>3
  <2>5. ASSUME NEW n \in 1..(Len(decoded) + number) PROVE decoded'[n] = n
    <3>1. CASE n <= Len(decoded)
      BY <1>7, <2>1, <2>2, <2>3, <3>1
    <3>2. CASE n > Len(decoded)
      <4>1. n - Len(decoded) \in 1..number
        BY <1>7, <2>1, <3>2
      <4>2. decoded'[n] = values[n - Len(decoded)]
        BY <1>7, <2>1, <2>2, <2>3, <3>2
      <4>3. values[n - Len(decoded)] = Len(decoded) + (n - Len(decoded))
        BY <2>2, <4>1
      <4>4. Len(decoded) + (n - Len(decoded)) = n
        BY <1>7, <2>1
      <4> QED
        BY <4>2, <4>3, <4>4
    <3> QED
      BY <1>7, <2>1, <3>1, <3>2
  <2> QED
    BY <2>4, <2>5
<1>10. ASSUME buffer' # <<>> PROVE IsIncomplete(buffer', 0)
  <2>0. PICK rest : rest = SubSeq(bytes, m + 1, Len(bytes))
    OBVIOUS
  <2>1. Stream(rest, Through(bytes, first, m) + 1)
    BY <1>5, <2>0, Pieces, Zenon
  <2>2. Through(bytes, first, m) + 1 \in Nat \ {0}
    BY <1>8
  <2>3. /\ Len(rest) = Len(bytes) - m /\ Len(rest) \in Nat \ {0}
        /\ \A i \in 1..Len(rest) : rest[i] = bytes[m + i]
    BY <1>1, <1>5, <1>6, <1>10, <2>0
  <2>4. 0 \in Boundaries(rest) /\ 0 < Len(rest)
    BY <2>3 DEF Boundaries
  <2>5. EndOf(rest, 0) \in Nat /\ EndOf(rest, 0) > 0
    BY <2>1, <2>2, <2>4, NextMessage
  <2>6. ASSUME EndOf(rest, 0) <= Len(rest) PROVE FALSE
    <3>1. EndOf(rest, 0) \in Boundaries(rest)
      BY <2>1, <2>2, <2>4, <2>6, NextMessage
    <3>2. EndOf(rest, 0) \in 1..Len(rest) /\ IsLast(rest[EndOf(rest, 0)])
      BY <2>5, <3>1 DEF Boundaries
    <3>3. m + EndOf(rest, 0) \in 1..Len(bytes) /\ IsLast(bytes[m + EndOf(rest, 0)])
      BY <1>1, <1>5, <2>3, <3>2
    <3>4. m + EndOf(rest, 0) \in Boundaries(bytes)
      BY <3>3 DEF Boundaries
    <3> QED
      <4>1. m + EndOf(rest, 0) <= m
        BY <1>4, <3>4
      <4> QED
        BY <1>1, <1>5, <2>5, <4>1
  <2>7. EndOf(rest, 0) > Len(rest)
    BY <2>3, <2>5, <2>6
  <2>8. IsIncomplete(rest, 0)
    BY <2>1, <2>2, <2>4, <2>7, NextMessage
  <2> QED
    BY <1>6, <2>0, <2>8
<1> QED
  BY <1>6, <1>7, <1>9, <1>10

-----------------------------------------------------------------------------
(* The steps *)

LEMMA StreamStarts == StreamInit => StreamInv
<1> SUFFICES ASSUME StreamInit PROVE StreamInv
  OBVIOUS
<1>1. buffer = <<>> /\ inTransit = <<>> /\ decoded = <<>> /\ sent = 0 /\ whole = TRUE
  BY DEF StreamInit
<1>2. buffer \o inTransit = <<>>
  BY <1>1
<1>3. Stream(<<>>, 1) /\ Boundaries(<<>>) = {0} /\ Through(<<>>, 1, 0) = 0
  BY DEF Stream, Boundaries, Through
<1> QED
  BY <1>1, <1>2, <1>3 DEF StreamInv

\* Nothing of the stream changes.
LEMMA StreamKept == StreamInv /\ UNCHANGED byteVars => StreamInv'
<1> SUFFICES ASSUME StreamInv, UNCHANGED byteVars PROVE StreamInv'
  OBVIOUS
<1>1. /\ sent' = sent /\ inTransit' = inTransit /\ buffer' = buffer
      /\ decoded' = decoded /\ whole' = whole
  BY DEF byteVars
<1>2. IsIncomplete(buffer, 0)' = IsIncomplete(buffer, 0)
  BY <1>1 DEF IsIncomplete, OneMessage, EndOf
<1>3. \A first : /\ Stream(buffer \o inTransit, first)' = Stream(buffer \o inTransit, first)
  BY <1>1 DEF Stream
<1> QED
  BY <1>1, <1>2 DEF StreamInv, Stream, Boundaries, Through

\* What the joining of two sequences gives.
LEMMA Joined ==
  ASSUME NEW S, NEW s \in Seq(S), NEW t \in Seq(S)
  PROVE  /\ s \o t \in Seq(S) /\ Len(s \o t) = Len(s) + Len(t)
         /\ \A i \in 1..Len(s) : (s \o t)[i] = s[i]
         /\ \A i \in 1..Len(t) : (s \o t)[Len(s) + i] = t[i]
OBVIOUS

\* What is left of a sequence behind a place.
LEMMA Left ==
  ASSUME NEW S, NEW s \in Seq(S), NEW n \in Nat, Len(s) = n, NEW m \in 0..n
  PROVE  /\ SubSeq(s, m + 1, n) \in Seq(S) /\ Len(SubSeq(s, m + 1, n)) = n - m
         /\ \A i \in 1..(n - m) : SubSeq(s, m + 1, n)[i] = s[m + i]
OBVIOUS

\* The front of a sequence.
LEMMA Front ==
  ASSUME NEW S, NEW s \in Seq(S), NEW n \in Nat, Len(s) = n, NEW m \in 0..n
  PROVE  /\ SubSeq(s, 1, m) \in Seq(S) /\ Len(SubSeq(s, 1, m)) = m
         /\ \A i \in 1..m : SubSeq(s, 1, m)[i] = s[i]
OBVIOUS

\* Sequences are equal when their elements are.
LEMMA SameSequence ==
  ASSUME NEW S, NEW s \in Seq(S), NEW t \in Seq(S), Len(s) = Len(t),
         \A i \in 1..Len(s) : s[i] = t[i]
  PROVE  s = t
OBVIOUS

\* Joining is associative.
LEMMA JoinedThrice ==
  ASSUME NEW S, NEW s \in Seq(S), NEW t \in Seq(S), NEW u \in Seq(S)
  PROVE  s \o (t \o u) = (s \o t) \o u
OBVIOUS

\* What is moved from the front of t to the end of s, and what is taken off s then.
LEMMA Moved ==
  ASSUME NEW S, NEW s \in Seq(S), NEW t \in Seq(S), NEW size \in 0..Len(t),
         NEW m \in 0..(Len(s) + size)
  PROVE  LET u == s \o SubSeq(t, 1, size) IN
         /\ u = SubSeq(s \o t, 1, Len(s) + size) /\ Len(u) = Len(s) + size
         /\ SubSeq(u, m + 1, Len(u)) \o SubSeq(t, size + 1, Len(t))
            = SubSeq(s \o t, m + 1, Len(s \o t))
<1>1. PICK a \in Nat, b \in Nat : a = Len(s) /\ b = Len(t)
  OBVIOUS
<1>2. PICK st : st = s \o t
  OBVIOUS
<1>3. /\ st \in Seq(S) /\ Len(st) = a + b
      /\ \A i \in 1..a : st[i] = s[i]
      /\ \A i \in 1..b : st[a + i] = t[i]
  BY <1>1, <1>2, Joined
<1>4. /\ size \in 0..b /\ m \in 0..(a + size) /\ a + size \in 0..(a + b)
  BY <1>1
<1>5. PICK front : front = SubSeq(t, 1, size)
  OBVIOUS
<1>6. front \in Seq(S) /\ Len(front) = size /\ \A i \in 1..size : front[i] = t[i]
  BY <1>1, <1>4, <1>5, Front
<1>7. PICK u : u = s \o front
  OBVIOUS
<1>8. /\ u \in Seq(S) /\ Len(u) = a + size
      /\ \A i \in 1..a : u[i] = s[i]
      /\ \A i \in 1..size : u[a + i] = t[i]
  <2>0. front \in Seq(S)
    BY <1>6
  <2>1. u \in Seq(S) /\ Len(u) = Len(s) + Len(front)
    BY <1>7, <2>0
  <2>2. \A i \in 1..Len(s) : u[i] = s[i]
    BY <1>7, <2>0
  <2>3. \A i \in 1..Len(front) : u[Len(s) + i] = front[i]
    BY <1>7, <2>0
  <2> QED
    BY <1>1, <1>6, <2>1, <2>2, <2>3
<1>9. \A i \in 1..(a + size) : u[i] = st[i]
  <2>1. SUFFICES ASSUME NEW i \in 1..(a + size) PROVE u[i] = st[i]
    OBVIOUS
  <2>2. CASE i \in 1..a
    BY <1>3, <1>8, <2>2
  <2>3. CASE i \notin 1..a
    <3>1. PICK j \in 1..size : i = a + j
      BY <1>4, <2>1, <2>3
    <3>2. j \in 1..b
      BY <1>4, <3>1
    <3> QED
      BY <1>3, <1>8, <3>1, <3>2
  <2> QED
    BY <2>2, <2>3
<1>10. u = SubSeq(st, 1, a + size)
  <2>1. PICK v : v = SubSeq(st, 1, a + size)
    OBVIOUS
  <2>2. v \in Seq(S) /\ Len(v) = a + size /\ \A i \in 1..(a + size) : v[i] = st[i]
    BY <1>3, <1>4, <2>1, Front
  <2>3. u = v
    BY <1>8, <1>9, <2>2, SameSequence
  <2> QED
    BY <2>1, <2>3
<1>11. PICK x : x = SubSeq(u, m + 1, Len(u))
  OBVIOUS
<1>12. /\ x \in Seq(S) /\ Len(x) = a + size - m
       /\ \A i \in 1..(a + size - m) : x[i] = u[m + i]
  BY <1>4, <1>8, <1>11, Left
<1>13. PICK y : y = SubSeq(t, size + 1, Len(t))
  OBVIOUS
<1>14. /\ y \in Seq(S) /\ Len(y) = b - size
       /\ \A i \in 1..(b - size) : y[i] = t[size + i]
  BY <1>1, <1>4, <1>13, Left
<1>15. PICK xy : xy = x \o y
  OBVIOUS
<1>16. /\ xy \in Seq(S) /\ Len(xy) = (a + size - m) + (b - size)
       /\ \A i \in 1..(a + size - m) : xy[i] = x[i]
       /\ \A i \in 1..(b - size) : xy[(a + size - m) + i] = y[i]
  <2>1. PICK c \in Nat : c = a + size - m
    BY <1>4
  <2>2. PICK d \in Nat : d = b - size
    BY <1>4
  <2>3. Len(x) = c /\ Len(y) = d
    BY <1>12, <1>14, <2>1, <2>2
  <2>4. /\ xy \in Seq(S) /\ Len(xy) = c + d
        /\ \A i \in 1..c : xy[i] = x[i]
        /\ \A i \in 1..d : xy[c + i] = y[i]
    <3>1. x \in Seq(S) /\ y \in Seq(S)
      BY <1>12, <1>14
    <3>2. xy \in Seq(S) /\ Len(xy) = Len(x) + Len(y)
      BY <1>15, <3>1
    <3>3. \A i \in 1..Len(x) : xy[i] = x[i]
      BY <1>15, <3>1
    <3>4. \A i \in 1..Len(y) : xy[Len(x) + i] = y[i]
      BY <1>15, <3>1
    <3> QED
      BY <2>3, <3>2, <3>3, <3>4
  <2> QED
    BY <2>1, <2>2, <2>4
<1>17. PICK z : z = SubSeq(st, m + 1, Len(st))
  OBVIOUS
<1>18. /\ z \in Seq(S) /\ Len(z) = a + b - m
       /\ \A i \in 1..(a + b - m) : z[i] = st[m + i]
  <2>1. PICK n \in Nat : n = a + b
    OBVIOUS
  <2>2. Len(st) = n /\ m \in 0..n
    BY <1>3, <1>4, <2>1
  <2>3. /\ z \in Seq(S) /\ Len(z) = n - m
        /\ \A i \in 1..(n - m) : z[i] = st[m + i]
    BY <1>3, <1>17, <2>2, Left
  <2> QED
    BY <2>1, <2>3
<1>19. ASSUME NEW i \in 1..(a + b - m) PROVE xy[i] = z[i]
  <2>1. CASE i \in 1..(a + size - m)
    <3>1. m + i \in 1..(a + size)
      BY <1>4, <2>1
    <3> QED
      BY <1>9, <1>12, <1>16, <1>18, <2>1, <3>1
  <2>2. CASE i \notin 1..(a + size - m)
    <3>1. PICK j \in 1..(b - size) : i = (a + size - m) + j
      BY <1>4, <1>19, <2>2
    <3>2. size + j \in 1..b /\ m + i = a + (size + j)
      BY <1>4, <3>1
    <3>3. xy[i] = y[j] /\ y[j] = t[size + j]
      BY <1>14, <1>16, <3>1
    <3> QED
      BY <1>3, <1>18, <3>2, <3>3
  <2> QED
    BY <2>1, <2>2
<1>20. xy = z
  <2>1. Len(xy) = Len(z) /\ Len(xy) = a + b - m
    BY <1>4, <1>16, <1>18
  <2> QED
    BY <1>16, <1>18, <1>19, <2>1, SameSequence
<1> QED
  BY <1>1, <1>2, <1>5, <1>7, <1>8, <1>10, <1>11, <1>13, <1>15, <1>17, <1>20

\* The messages that are left when whole ones are taken off the front.
LEMMA Taken ==
  ASSUME NEW bytes, NEW first \in Nat \ {0}, Stream(bytes, first),
         NEW m \in Boundaries(bytes), Len(bytes) \in Boundaries(bytes)
  PROVE  LET left == SubSeq(bytes, m + 1, Len(bytes))
             next == Through(bytes, first, m) + 1
         IN  /\ Stream(left, next) /\ Len(left) \in Boundaries(left)
             /\ Through(left, next, Len(left)) = Through(bytes, first, Len(bytes))
<1>1. /\ bytes \in Seq(Byte) /\ Len(bytes) \in Nat /\ m \in 0..Len(bytes)
      /\ \A i \in 1..Len(bytes) : bytes[i] \in Byte
  BY DEF Stream, Boundaries
<1>2. PICK left : left = SubSeq(bytes, m + 1, Len(bytes))
  OBVIOUS
<1>3. PICK next : next = Through(bytes, first, m) + 1
  OBVIOUS
<1>4. Stream(left, next)
  BY <1>1, <1>2, <1>3, Pieces
<1>5. Len(left) = Len(bytes) - m /\ \A i \in 1..(Len(bytes) - m) : left[i] = bytes[m + i]
  BY <1>1, <1>2, Left
<1>6. Through(bytes, first, m) \in Int
  BY <1>1 DEF Through, Byte
<1>7. CASE m = Len(bytes)
  <2>1. Len(left) = 0
    BY <1>1, <1>5, <1>7
  <2>2. Through(left, next, 0) = Through(bytes, first, m)
    BY <1>3, <1>6 DEF Through
  <2>3. Len(left) \in Boundaries(left)
    BY <2>1 DEF Boundaries
  <2> QED
    BY <1>2, <1>3, <1>4, <1>7, <2>1, <2>2, <2>3
<1>8. CASE m # Len(bytes)
  <2>1. Len(left) \in 1..Len(left) /\ Len(left) # 0 /\ Len(bytes) # 0
    BY <1>1, <1>5, <1>8
  <2>2. left[Len(left)] = bytes[Len(bytes)]
    BY <1>1, <1>5, <1>8
  <2>3. IsLast(bytes[Len(bytes)])
    BY <1>1, <2>1 DEF Boundaries
  <2>4. Len(left) \in Boundaries(left)
    BY <2>1, <2>2, <2>3 DEF Boundaries
  <2>5. Through(left, next, Len(left)) = Through(bytes, first, Len(bytes))
    BY <2>1, <2>2 DEF Through
  <2> QED
    BY <1>2, <1>3, <1>4, <2>4, <2>5
<1> QED
  BY <1>7, <1>8

\* The messages and one more.
LEMMA Appended ==
  ASSUME NEW bytes, NEW first \in Nat \ {0}, Stream(bytes, first),
         Len(bytes) \in Boundaries(bytes), NEW k \in Kinds,
         NEW n \in Nat, Through(bytes, first, Len(bytes)) = n
  PROVE  LET all == bytes \o Bytes(n + 1, k)
         IN  /\ Bytes(n + 1, k) \in Seq(Byte)
             /\ Stream(all, first) /\ Len(all) \in Boundaries(all)
             /\ Through(all, first, Len(all)) = n + 1
<1>1. PICK L \in Nat : L = Len(bytes)
  BY DEF Stream
<1>2. /\ bytes \in Seq(Byte)
      /\ \A i \in 1..L : bytes[i] \in Byte /\ bytes[i].at <= Wire[bytes[i].kind]
      /\ bytes # <<>> => bytes[1].of = first /\ bytes[1].at = 1
      /\ \A i \in 1..(L - 1) : After(bytes[i], bytes[i + 1])
  BY <1>1 DEF Stream
<1>3. PICK w \in Nat \ {0} : w = Wire[k]
  BY StreamAssumption
<1>4. PICK more : more = Bytes(n + 1, k)
  OBVIOUS
<1>5. /\ more \in Seq(Byte) /\ Len(more) = w
      /\ \A i \in 1..w : more[i] = [of |-> n + 1, kind |-> k, at |-> i]
  <2>1. more = [i \in 1..w |-> [of |-> n + 1, kind |-> k, at |-> i]]
    BY <1>3, <1>4 DEF Bytes
  <2>2. \A i \in 1..w : [of |-> n + 1, kind |-> k, at |-> i] \in Byte
    BY DEF Byte
  <2> QED
    BY <2>1, <2>2
<1>6. PICK all : all = bytes \o more
  OBVIOUS
<1>7. all \in Seq(Byte) /\ Len(all) = L + w
  <2>1. bytes \in Seq(Byte) /\ more \in Seq(Byte)
    BY <1>2, <1>5
  <2>2. all \in Seq(Byte)
    BY <1>6, <2>1
  <2>3. Len(all) = Len(bytes) + Len(more)
    BY <1>6, <2>1
  <2> QED
    BY <1>1, <1>5, <2>2, <2>3
<1>8. \A i \in 1..L : all[i] = bytes[i]
  BY <1>1, <1>2, <1>5, <1>6
<1>9. /\ \A j \in 1..w : all[L + j] = [of |-> n + 1, kind |-> k, at |-> j]
      /\ all[L + 1].of = n + 1 /\ all[L + 1].at = 1
  <2>1. \A j \in 1..w : all[L + j] = more[j]
    BY <1>1, <1>2, <1>5, <1>6
  <2>2. \A j \in 1..w : all[L + j] = [of |-> n + 1, kind |-> k, at |-> j]
    BY <1>5, <2>1
  <2>3. 1 \in 1..w
    OBVIOUS
  <2>4. all[L + 1] = [of |-> n + 1, kind |-> k, at |-> 1]
    BY <2>2, <2>3
  <2> QED
    BY <2>2, <2>4
<1>10. ASSUME NEW i \in 1..(L + w) PROVE all[i].at <= Wire[all[i].kind]
  <2>1. CASE i <= L
    BY <1>2, <1>8, <2>1
  <2>2. CASE i > L
    <3>1. PICK j \in 1..w : i = L + j
      BY <2>2
    <3>2. all[i] = [of |-> n + 1, kind |-> k, at |-> j]
      BY <1>9, <3>1, Zenon
    <3> QED
      BY <1>3, <3>2
  <2> QED
    BY <2>1, <2>2
<1>11. all[1].of = first /\ all[1].at = 1
  <2>1. CASE L = 0
    <3>1. n + 1 = first
      BY <1>1, <2>1 DEF Through
    <3>2. L + 1 = 1
      BY <2>1
    <3> QED
      BY <1>9, <3>1, <3>2, Zenon
  <2>2. CASE L # 0
    <3>1. bytes # <<>> /\ 1 \in 1..L
      BY <1>1, <1>2, <2>2
    <3> QED
      BY <1>2, <1>8, <3>1
  <2> QED
    BY <2>1, <2>2
<1>12. ASSUME NEW i \in 1..(L + w - 1) PROVE After(all[i], all[i + 1])
  <2>1. CASE i < L
    <3>1. i \in 1..L /\ i + 1 \in 1..L /\ i \in 1..(L - 1)
      BY <2>1
    <3> QED
      BY <1>2, <1>8, <3>1
  <2>2. CASE i = L
    <3>1. L \in 1..L /\ L # 0
      BY <2>2
    <3>2. IsLast(bytes[L]) /\ bytes[L].of = n
      BY <1>1, <3>1 DEF Boundaries, Through
    <3>3. all[L] = bytes[L]
      BY <1>8, <3>1
    <3>4. IsLast(all[L]) /\ all[L + 1].of = all[L].of + 1 /\ all[L + 1].at = 1
      BY <1>9, <3>2, <3>3, Zenon
    <3> QED
      BY <2>2, <3>4, Zenon DEF After
  <2>3. CASE i > L
    <3>1. PICK j \in 1..w : i = L + j /\ j + 1 \in 1..w /\ i + 1 = L + (j + 1)
      BY <2>3
    <3>2. /\ all[i] = [of |-> n + 1, kind |-> k, at |-> j]
          /\ all[i + 1] = [of |-> n + 1, kind |-> k, at |-> j + 1]
      BY <1>9, <3>1
    <3>3. ~IsLast(all[i])
      BY <1>3, <3>1, <3>2 DEF IsLast
    <3> QED
      BY <3>2, <3>3 DEF After
  <2> QED
    BY <2>1, <2>2, <2>3
<1>13. Stream(all, first)
  BY <1>7, <1>10, <1>11, <1>12 DEF Stream
<1>14. /\ Len(all) \in 1..Len(all) /\ Len(all) # 0
       /\ all[Len(all)] = [of |-> n + 1, kind |-> k, at |-> w]
  <2>1. w \in 1..w
    OBVIOUS
  <2> QED
    BY <1>7, <1>9, <2>1
<1>15. Len(all) \in Boundaries(all) /\ Through(all, first, Len(all)) = n + 1
  BY <1>3, <1>14 DEF Boundaries, IsLast, Through
<1> QED
  BY <1>4, <1>5, <1>6, <1>13, <1>15

\* The numbers do not fall below that of the first message.
LEMMA NumbersGrow ==
  ASSUME NEW bytes, NEW first \in Nat \ {0}, Stream(bytes, first), NEW i \in 1..Len(bytes)
  PROVE  bytes[i].of >= first
<1>1. /\ Len(bytes) \in Nat
      /\ \A j \in 1..Len(bytes) : bytes[j] \in Byte
  BY DEF Stream
<1>2. PICK S : S = {j \in 1..Len(bytes) : ~(bytes[j].of >= first)}
  OBVIOUS
<1>3. SUFFICES ASSUME S # {} PROVE FALSE
  BY <1>2
<1>4. S \in SUBSET Nat
  BY <1>1, <1>2
<1>5. PICK j \in S : \A l \in S : j <= l
  BY <1>3, <1>4, LeastNatural
<1>6. j \in 1..Len(bytes) /\ j \in Nat /\ ~(bytes[j].of >= first)
  BY <1>2, <1>4
<1>7. bytes[1].of = first
  BY <1>1, <1>6 DEF Stream
<1>8. j - 1 \in 1..(Len(bytes) - 1) /\ j - 1 \in 1..Len(bytes) /\ j - 1 < j /\ (j - 1) + 1 = j
  <2>1. j # 1
    BY <1>6, <1>7
  <2> QED
    BY <1>1, <1>6, <2>1
<1>9. bytes[j - 1].of >= first
  <2>1. j - 1 \notin S
    BY <1>5, <1>6, <1>8
  <2> QED
    BY <1>2, <1>8, <2>1
<1>10. After(bytes[j - 1], bytes[j])
  BY <1>8 DEF Stream
<1>11. bytes[j].of = bytes[j - 1].of + 1 \/ bytes[j].of = bytes[j - 1].of
  BY <1>10 DEF After
<1>12. bytes[j - 1].of \in Nat /\ bytes[j].of \in Nat
  BY <1>1, <1>6, <1>8 DEF Byte
<1>13. ASSUME NEW p \in Nat, NEW q \in Nat, p >= first, q = p + 1 \/ q = p PROVE q >= first
  BY <1>13
<1> QED
  BY <1>6, <1>9, <1>11, <1>12, <1>13

\* RouterSends().
LEMMA SentFollows ==
  ASSUME StreamInv, NEW k \in Kinds, RouterSends(k)
  PROVE  StreamInv'
<1>1. /\ whole /\ whole' = whole /\ whole \in BOOLEAN
      /\ buffer' = buffer /\ decoded' = decoded
      /\ sent' = sent + 1 /\ inTransit' = inTransit \o Bytes(sent + 1, k)
  BY DEF RouterSends, StreamInv
<1>2. PICK rest : rest = buffer \o inTransit
  OBVIOUS
<1>3. /\ sent \in Nat /\ buffer \in Seq(Byte) /\ inTransit \in Seq(Byte)
      /\ decoded \in Seq(Nat) /\ \A n \in 1..Len(decoded) : decoded[n] = n
      /\ buffer # <<>> => IsIncomplete(buffer, 0)
  BY <1>1 DEF StreamInv
<1>4. /\ Stream(rest, Len(decoded) + 1) /\ Len(rest) \in Boundaries(rest)
      /\ Through(rest, Len(decoded) + 1, Len(rest)) = sent
  BY <1>1, <1>2 DEF StreamInv
<1>5. Len(decoded) + 1 \in Nat \ {0}
  BY <1>3
<1>6. PICK more : more = Bytes(sent + 1, k)
  OBVIOUS
<1>7. PICK all : all = rest \o more
  OBVIOUS
<1>8. /\ more \in Seq(Byte)
      /\ Stream(all, Len(decoded) + 1) /\ Len(all) \in Boundaries(all)
      /\ Through(all, Len(decoded) + 1, Len(all)) = sent + 1
  <2>1. PICK first \in Nat \ {0} : first = Len(decoded) + 1
    BY <1>5
  <2>2. /\ Stream(rest, first) /\ Len(rest) \in Boundaries(rest) /\ sent \in Nat
        /\ Through(rest, first, Len(rest)) = sent
    BY <1>3, <1>4, <2>1
  <2>3. /\ more \in Seq(Byte)
        /\ Stream(all, first) /\ Len(all) \in Boundaries(all)
        /\ Through(all, first, Len(all)) = sent + 1
    BY <1>6, <1>7, <2>1, <2>2, Appended
  <2> QED
    BY <2>1, <2>3
<1>9. all = buffer \o (inTransit \o more)
  <2>1. buffer \in Seq(Byte) /\ inTransit \in Seq(Byte) /\ more \in Seq(Byte)
    BY <1>3, <1>8
  <2>2. buffer \o (inTransit \o more) = (buffer \o inTransit) \o more
    BY <2>1, JoinedThrice
  <2> QED
    BY <1>2, <1>7, <2>2
<1>10. all = buffer' \o inTransit' /\ inTransit' \in Seq(Byte) /\ sent' \in Nat
  <2>1. inTransit \o more \in Seq(Byte)
    BY <1>3, <1>8
  <2> QED
    BY <1>1, <1>3, <1>6, <1>9, <2>1
<1>11. IsIncomplete(buffer, 0)' <=> IsIncomplete(buffer, 0)
  BY <1>1 DEF IsIncomplete, OneMessage, EndOf
<1> QED
  BY <1>1, <1>3, <1>8, <1>10, <1>11 DEF StreamInv, Stream, Boundaries, Through

\* Receive(): Feed() gets what is in the buffer and the bytes that arrive.
LEMMA ReceivedIsHandled ==
  ASSUME StreamInv, Canon = Wire, NEW size \in 1..Len(inTransit), Receive(size)
  PROVE  StreamInv'
<1>1. /\ Feed(buffer \o SubSeq(inTransit, 1, size))
      /\ inTransit' = SubSeq(inTransit, size + 1, Len(inTransit))
      /\ sent' = sent /\ whole' = whole /\ whole \in BOOLEAN /\ sent \in Nat
  BY DEF Receive, StreamInv
<1>2. SUFFICES ASSUME whole PROVE StreamInv'
  BY <1>1 DEF StreamInv
<1>3. PICK rest : rest = buffer \o inTransit
  OBVIOUS
<1>4. PICK first : first = Len(decoded) + 1
  OBVIOUS
<1>5. /\ buffer \in Seq(Byte) /\ inTransit \in Seq(Byte)
      /\ decoded \in Seq(Nat) /\ \A n \in 1..Len(decoded) : decoded[n] = n
  BY <1>2 DEF StreamInv
<1>6. /\ Stream(rest, first) /\ Len(rest) \in Boundaries(rest)
      /\ Through(rest, first, Len(rest)) = sent
  BY <1>2, <1>3, <1>4 DEF StreamInv
<1>7. first \in Nat \ {0}
  BY <1>4, <1>5
<1>8. PICK chunk : chunk = buffer \o SubSeq(inTransit, 1, size)
  OBVIOUS
<1>9. /\ Len(buffer) \in Nat /\ Len(inTransit) \in Nat /\ size \in 0..Len(inTransit)
      /\ Len(rest) = Len(buffer) + Len(inTransit)
  BY <1>3, <1>5
<1>10. \A m \in 0..(Len(buffer) + size) :
         /\ chunk = SubSeq(rest, 1, Len(buffer) + size) /\ Len(chunk) = Len(buffer) + size
         /\ SubSeq(chunk, m + 1, Len(chunk)) \o inTransit' = SubSeq(rest, m + 1, Len(rest))
  BY <1>1, <1>3, <1>5, <1>8, <1>9, Moved
<1>11. chunk = SubSeq(rest, 1, Len(buffer) + size) /\ Len(chunk) = Len(buffer) + size
  <2>1. 0 \in 0..(Len(buffer) + size)
    BY <1>9
  <2> QED
    BY <1>10, <2>1
<1>12. Stream(chunk, first) /\ chunk # <<>> /\ Len(buffer) + size \in 0..Len(rest)
  <2>1. Len(buffer) + size \in 0..Len(rest) /\ Len(chunk) # 0
    BY <1>9, <1>11
  <2> QED
    BY <1>6, <1>7, <1>11, <2>1, Pieces
<1>13. PICK m \in Boundaries(chunk) :
         /\ buffer' = SubSeq(chunk, m + 1, Len(chunk))
         /\ decoded' \in Seq(Nat) /\ \A n \in 1..Len(decoded') : decoded'[n] = n
         /\ Len(decoded') = Through(chunk, first, m)
         /\ buffer' # <<>> => IsIncomplete(buffer', 0)
  BY <1>1, <1>4, <1>5, <1>7, <1>8, <1>12, FeedGives
<1>14. m \in 0..(Len(buffer) + size) /\ m \in 0..Len(chunk)
  BY <1>9, <1>11 DEF Boundaries
<1>15. \A i \in 1..Len(chunk) : chunk[i] = rest[i]
  <2>1. rest \in Seq(Byte)
    BY <1>6 DEF Stream
  <2> QED
    BY <1>9, <1>11, <1>12, <2>1
<1>16. m \in Boundaries(rest) /\ Through(rest, first, m) = Through(chunk, first, m)
  BY <1>9, <1>11, <1>14, <1>15 DEF Boundaries, Through
<1>17. PICK left : left = SubSeq(rest, m + 1, Len(rest))
  OBVIOUS
<1>18. /\ Stream(left, Len(decoded') + 1) /\ Len(left) \in Boundaries(left)
       /\ Through(left, Len(decoded') + 1, Len(left)) = sent
  <2>1. PICK next : next = Through(rest, first, m) + 1
    OBVIOUS
  <2>2. /\ Stream(left, next) /\ Len(left) \in Boundaries(left)
        /\ Through(left, next, Len(left)) = Through(rest, first, Len(rest))
    BY <1>6, <1>7, <1>16, <1>17, <2>1, Taken, Zenon
  <2>3. next = Len(decoded') + 1
    BY <1>13, <1>16, <2>1
  <2> QED
    BY <1>6, <2>2, <2>3
<1>19. left = buffer' \o inTransit'
  BY <1>10, <1>13, <1>14, <1>17
<1>20. buffer' \in Seq(Byte) /\ inTransit' \in Seq(Byte)
  <2>1. chunk \in Seq(Byte)
    BY <1>12 DEF Stream
  <2>2. buffer' \in Seq(Byte)
    <3>1. Len(chunk) \in Nat
      BY <2>1
    <3>2. SubSeq(chunk, m + 1, Len(chunk)) \in Seq(Byte)
      BY <1>14, <2>1, <3>1, Left
    <3> QED
      BY <1>13, <3>2
  <2>3. inTransit' \in Seq(Byte)
    BY <1>1, <1>5, <1>9
  <2> QED
    BY <2>2, <2>3
<1>21. IsIncomplete(buffer', 0) <=> IsIncomplete(buffer, 0)'
  BY DEF IsIncomplete, OneMessage, EndOf
<1> QED
  BY <1>1, <1>13, <1>18, <1>19, <1>20, <1>21 DEF StreamInv, Stream, Boundaries, Through

\* StreamBreaks(): a connection that is lost between messages leaves nothing.
LEMMA NothingIsLeft ==
  ASSUME StreamInv, NEW e, NEW f, StreamBreaks(e, f)
  PROVE  StreamInv'
<1>1. /\ whole' = (whole /\ buffer = <<>>) /\ whole \in BOOLEAN
      /\ sent' = 0 /\ inTransit' = <<>> /\ decoded' = <<>> /\ buffer' = buffer
  BY DEF StreamBreaks, StreamInv
<1>2. whole' \in BOOLEAN /\ sent' \in Nat
  BY <1>1
<1>3. SUFFICES ASSUME whole' PROVE StreamInv'
  BY <1>2 DEF StreamInv
<1>4. buffer' = <<>>
  BY <1>1, <1>3
<1>5. (buffer \o inTransit)' = <<>> /\ Len(decoded') = 0
  BY <1>1, <1>4
<1>6. Stream(<<>>, 1) /\ Boundaries(<<>>) = {0} /\ Through(<<>>, 1, 0) = 0
  BY DEF Stream, Boundaries, Through
<1> QED
  BY <1>1, <1>2, <1>4, <1>5, <1>6 DEF StreamInv, Stream, Boundaries, Through

\* No step of the router, the decoder or the connection breaks it.
LEMMA StreamSteps ==
  ASSUME Canon = Wire
  PROVE  StreamInv /\ [StreamNext]_streamVars => StreamInv'
<1>1. SUFFICES ASSUME StreamInv, [StreamNext]_streamVars PROVE StreamInv'
  OBVIOUS
<1>2. CASE \E k \in Kinds : RouterSends(k)
  BY <1>1, <1>2, SentFollows
<1>3. CASE \E size \in 1..Len(inTransit) : Receive(size)
  BY <1>1, <1>3, ReceivedIsHandled
<1>4. CASE \E e, f \in BOOLEAN : StreamBreaks(e, f)
  BY <1>1, <1>4, NothingIsLeft
<1>5. CASE StreamUntouched \/ UNCHANGED streamVars
  BY <1>1, <1>5, StreamKept DEF StreamUntouched, streamVars
<1> QED
  BY <1>1, <1>2, <1>3, <1>4, <1>5 DEF StreamNext

\* While no connection was lost inside a message, what the decoder holds and what is on
\* its way are the messages that onData() has not gone through, from the beginning of
\* the first of them on; and what the decoder holds is less than a message.  Each of
\* the theorems is about values that encode() makes as many bytes of as the router sent
\* for them, since feed() finds the place that way (codec.ts 66-75).
THEOREM StreamInvariant ==
  ASSUME Canon = Wire
  PROVE  StreamSpec => []StreamInv
<1>1. StreamInit => StreamInv
  BY StreamStarts
<1>2. StreamInv /\ [StreamNext]_streamVars => StreamInv'
  BY StreamSteps
<1> QED
  BY <1>1, <1>2, PTL DEF StreamSpec

\* onData() goes through the messages in the order they were sent, through each once and
\* through nothing else, whatever chunks the socket cuts them into (codec.ts 64-75).
THEOREM MessagesInOrder ==
  ASSUME Canon = Wire
  PROVE  StreamSpec => []DecodedInOrder
<1>1. ASSUME StreamInv PROVE DecodedInOrder
  <2>1. SUFFICES ASSUME whole
                 PROVE  decoded = [n \in 1..Len(decoded) |-> n] /\ Len(decoded) <= sent
    BY DEF DecodedInOrder
  <2>2. decoded \in Seq(Nat) /\ \A n \in 1..Len(decoded) : decoded[n] = n
    BY <1>1, <2>1 DEF StreamInv
  <2>3. decoded = [n \in 1..Len(decoded) |-> n]
    BY <2>2
  <2>4. PICK rest : rest = buffer \o inTransit
    OBVIOUS
  <2>5. /\ Stream(rest, Len(decoded) + 1) /\ Len(rest) \in Boundaries(rest)
        /\ Through(rest, Len(decoded) + 1, Len(rest)) = sent /\ sent \in Nat
    BY <1>1, <2>1, <2>4 DEF StreamInv
  <2>6. Len(decoded) \in Nat /\ Len(decoded) + 1 \in Nat \ {0}
    BY <2>2
  <2>7. CASE Len(rest) = 0
    <3>1. sent = (Len(decoded) + 1) - 1
      BY <2>5, <2>7 DEF Through
    <3> QED
      BY <2>3, <2>5, <2>6, <3>1
  <2>8. CASE Len(rest) # 0
    <3>1. Len(rest) \in 1..Len(rest) /\ rest[Len(rest)].of = sent
      BY <2>5, <2>8 DEF Boundaries, Through
    <3>2. sent >= Len(decoded) + 1
      BY <2>5, <2>6, <3>1, NumbersGrow
    <3> QED
      BY <2>3, <2>5, <2>6, <3>2
  <2> QED
    BY <2>3, <2>7, <2>8
<1> QED
  BY <1>1, StreamInvariant, PTL

\* What stays in the buffer is the beginning of the first message that is not decoded
\* (codec.ts 73-75): nothing is taken for decoded, nothing is decoded again.
THEOREM TailStays ==
  ASSUME Canon = Wire
  PROVE  StreamSpec => []BufferIsTheTail
<1>1. ASSUME StreamInv PROVE BufferIsTheTail
  <2>1. SUFFICES ASSUME whole
                 PROVE  LET rest == buffer \o inTransit IN
                        /\ rest = <<>> => Len(decoded) = sent
                        /\ rest # <<>> => rest[1].of = Len(decoded) + 1 /\ rest[1].at = 1
                        /\ buffer # <<>> => IsIncomplete(buffer, 0)
    BY DEF BufferIsTheTail
  <2>2. PICK rest : rest = buffer \o inTransit
    OBVIOUS
  <2>3. /\ Stream(rest, Len(decoded) + 1) /\ decoded \in Seq(Nat)
        /\ Through(rest, Len(decoded) + 1, Len(rest)) = sent
        /\ buffer # <<>> => IsIncomplete(buffer, 0)
    BY <1>1, <2>1, <2>2 DEF StreamInv
  <2>4. rest # <<>> => rest[1].of = Len(decoded) + 1 /\ rest[1].at = 1
    BY <2>3 DEF Stream
  <2>5. ASSUME rest = <<>> PROVE Len(decoded) = sent
    <3>1. Len(decoded) \in Nat /\ Len(rest) = 0
      BY <2>3, <2>5
    <3> QED
      BY <2>3, <3>1 DEF Through
  <2> QED
    BY <2>2, <2>3, <2>4, <2>5
<1> QED
  BY <1>1, StreamInvariant, PTL

\* The bytes leave the connection as it is: every step is one of the lifecycle's or none,
\* so what BridgeLifecycleProofs shows of the connection holds below the decoder as well
\* (bridge.ts 254-275: onData() sets nothing that reconnecting looks at).
THEOREM ConnectionBelow == StreamSpec => LifecycleSpec
<1>1. StreamInit => LifecycleInit
  BY DEF StreamInit
<1>2. [StreamNext]_streamVars => [LifecycleNext]_lifecycleVars
  <2>1. ASSUME NEW k \in Kinds, RouterSends(k) PROVE UNCHANGED lifecycleVars
    BY <2>1 DEF RouterSends
  <2>2. ASSUME NEW size \in 1..Len(inTransit), Receive(size) PROVE UNCHANGED lifecycleVars
    BY <2>2 DEF Receive
  <2>3. ASSUME NEW e \in BOOLEAN, NEW f \in BOOLEAN, StreamBreaks(e, f) PROVE LifecycleNext
    BY <2>3 DEF StreamBreaks, LifecycleNext
  <2>4. StreamUntouched => LifecycleNext
    BY DEF StreamUntouched, LifecycleNext
  <2>5. UNCHANGED streamVars => UNCHANGED lifecycleVars
    BY DEF streamVars
  <2> QED
    BY <2>1, <2>2, <2>3, <2>4, <2>5 DEF StreamNext
<1> QED
  BY <1>1, <1>2, PTL DEF StreamSpec, LifecycleSpec
================================================================================
