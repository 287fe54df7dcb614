------------------------- MODULE BridgeRegistryProofs -------------------------
(***************************************************************************)
(* What a Bridge provides or subscribes to is routed to it or known to     *)
(* have failed, for any number of methods, registrations and reconnects.   *)
(***************************************************************************)
EXTENDS BridgeRegistry, BridgeLifecycleProofs

\* The types of the variables of BridgeRegistry's own.
RegistryTypes ==
  /\ op \in [Ops -> {"idle", "sent", "done", "failed"}]
  /\ providers \subseteq Methods
  /\ notifySets \subseteq Methods
  /\ subscribed \subseteq NotifyOps
  /\ todo \subseteq Methods
  /\ current \in Methods \cup {NoMethod}
  /\ reported \subseteq Methods
  /\ wire \subseteq Request
  /\ answers \subseteq [req : Request, ok : BOOLEAN]
  /\ route \in [Methods -> {"free", "ours", "stale", "other"}]

\* A $/register is for the method of the call that sent it.
RequestsNamed ==
  /\ \A r \in wire : r.who \in Ops => r.method = MethodOf[r.who]
  /\ \A a \in answers : a.req.who \in Ops => a.req.method = MethodOf[a.req.who]

\* An onNotify() that was made has put its method into notifyHandlers.
NotifiesKnown ==
  /\ \A o \in NotifyOps : op[o] # "idle" => MethodOf[o] \in notifySets
  /\ \A o \in subscribed : MethodOf[o] \in notifySets

\* The loop has nothing left when no re-registration is under way.
LoopIsRunning == registering = 0 => todo = {} /\ current = NoMethod

\* While nobody has closed the Bridge, a method that the router has said yes to is its
\* own.
GrantsHold == closing = "no" => \A a \in answers : a.ok => route[a.req.method] = "ours"

\* The Bridge is connected, and nothing has ended its loop before its time.
Live == connected /\ closing = "no" /\ ~uncaught

\* Reasons for a method to be routed, or not: it is, the loop has yet to register it
\* or to hear of it, or has reported it.
Accounted(m) == route[m] = "ours" \/ m \in todo \/ m = current \/ m \in reported

ProvidersAccounted == Live => \A m \in providers : Accounted(m)

\* A method with subscribers may also await, or have failed, a first registration.
Registering(m) == \E o \in NotifyOps : MethodOf[o] = m /\ op[o] \in {"sent", "failed"}

SubscriptionsAccounted == Live => \A m \in notifySets : Accounted(m) \/ Registering(m)

RegistryInv ==
  /\ RegistryTypes
  /\ RequestsNamed
  /\ NotifiesKnown
  /\ LoopIsRunning
  /\ GrantsHold
  /\ ProvidersAccounted
  /\ SubscriptionsAccounted

USE RegistryAssumption

\* It holds on the state that Bridge.connect() resolves with.
LEMMA RegistryInit == Init => RegistryInv
<1> SUFFICES ASSUME Init PROVE RegistryInv
  OBVIOUS
<1> USE DEF Init
<1>1. RegistryTypes
  BY DEF RegistryTypes
<1>2. RequestsNamed /\ NotifiesKnown /\ LoopIsRunning /\ GrantsHold
  BY DEF RequestsNamed, NotifiesKnown, LoopIsRunning, GrantsHold, Ops
<1>3. ProvidersAccounted /\ SubscriptionsAccounted
  BY DEF ProvidersAccounted, SubscriptionsAccounted
<1> QED
  BY <1>1, <1>2, <1>3 DEF RegistryInv

\* A call of provide() or onNotify() registers its method, unless that is known.
LEMMA StartInv ==
  ASSUME RegistryInv, NEW o \in Ops,
         (o \in ProvideOps /\ Provide(o)) \/ (o \in NotifyOps /\ OnNotify(o))
  PROVE  RegistryInv'
<1> USE DEF RegistryInv, lifecycleVars
<1>1. /\ UNCHANGED <<lifecycleVars, providers, todo, current, reported, answers, route>>
      /\ \/ wire' = wire \/ wire' = wire \cup {[who |-> o, method |-> MethodOf[o]]}
      /\ op[o] = "idle"
      /\ MethodOf[o] \in Methods
  BY DEF Provide, OnNotify, Register
<1>2. \E s \in {"sent", "done", "failed"} : op' = [op EXCEPT ![o] = s]
  BY DEF Provide, OnNotify, Register
<1>3. /\ \A p \in Ops : p # o => op'[p] = op[p]
      /\ op'[o] \in {"sent", "done", "failed"}
      /\ op' \in [Ops -> {"idle", "sent", "done", "failed"}]
  BY <1>2 DEF RegistryTypes
<1>4. CASE o \in ProvideOps /\ Provide(o)
  <2>1. UNCHANGED <<notifySets, subscribed>>
    BY <1>4 DEF Provide
  <2>2. RegistryTypes'
    BY <1>1, <1>3, <2>1 DEF RegistryTypes, Request
  <2>3. \A p \in NotifyOps : p # o /\ op'[p] = op[p]
    BY <1>3, <1>4 DEF Ops
  <2>4. RequestsNamed' /\ NotifiesKnown' /\ LoopIsRunning' /\ GrantsHold'
    BY <1>1, <2>1, <2>3 DEF RequestsNamed, NotifiesKnown, LoopIsRunning, GrantsHold
  <2>5. ProvidersAccounted' /\ SubscriptionsAccounted'
    BY <1>1, <2>1, <2>3 DEF ProvidersAccounted, SubscriptionsAccounted, Live, Accounted,
       Registering
  <2> QED
    BY <2>2, <2>4, <2>5
<1>5. CASE o \in NotifyOps /\ OnNotify(o)
  <2>1. /\ notifySets' = notifySets \cup {MethodOf[o]}
        /\ subscribed' \in {subscribed, subscribed \cup {o}}
    BY <1>5 DEF OnNotify
  <2>2. RegistryTypes'
    BY <1>1, <1>3, <1>5, <2>1 DEF RegistryTypes, Request
  <2>3. NotifiesKnown'
    BY <1>3, <2>1 DEF NotifiesKnown, Ops
  <2>4. RequestsNamed' /\ LoopIsRunning' /\ GrantsHold'
    BY <1>1, <2>1 DEF RequestsNamed, LoopIsRunning, GrantsHold
  <2>5. ProvidersAccounted'
    BY <1>1 DEF ProvidersAccounted, Live, Accounted
  <2>6. \A m \in Methods : Accounted(m) => Accounted(m)'
    BY <1>1 DEF Accounted
  <2>7. \A m \in Methods : Registering(m) => Registering(m)'
    BY <1>1, <1>3 DEF Registering, Ops
  <2>8. MethodOf[o] \in notifySets \cup providers \/ Registering(MethodOf[o])'
    <3>1. MethodOf[o] \in notifySets \cup providers \/ op'[o] \in {"sent", "failed"}
      BY <1>1, <1>5 DEF OnNotify, Register, RegistryTypes
    <3> QED
      BY <1>5, <3>1 DEF Registering
  <2>9. SubscriptionsAccounted'
    <3>1. Live' => Live
      BY <1>1 DEF Live
    <3> QED
      BY <1>1, <2>1, <2>6, <2>7, <2>8, <3>1 DEF SubscriptionsAccounted, ProvidersAccounted,
         RegistryTypes
  <2> QED
    BY <2>2, <2>3, <2>4, <2>5, <2>9
<1> QED
  BY <1>4, <1>5

\* Its answer, or the timeout: the router has the route, or the call has failed.
LEMMA SettleInv ==
  ASSUME RegistryInv,
         \/ \E o \in Ops : OpTimesOut(o)
         \/ \E a \in answers : OpAnswered(a)
         \/ \E o \in NotifyOps : Unsubscribe(o)
  PROVE  RegistryInv'
<1> USE DEF RegistryInv, lifecycleVars
<1>1. CASE \E o \in NotifyOps : Unsubscribe(o)
  <2>1. /\ subscribed' \subseteq subscribed
        /\ UNCHANGED <<lifecycleVars, op, providers, notifySets, todo, current, reported,
                       wire, answers, route>>
    BY <1>1 DEF Unsubscribe
  <2> QED
    BY <2>1 DEF RegistryTypes, RequestsNamed, NotifiesKnown, LoopIsRunning, GrantsHold,
       ProvidersAccounted, SubscriptionsAccounted, Live, Accounted, Registering
<1>2. ASSUME NEW o \in Ops, OpTimesOut(o) PROVE RegistryInv'
  <2>1. /\ op[o] = "sent" /\ op' = [op EXCEPT ![o] = "failed"]
        /\ UNCHANGED <<lifecycleVars, providers, notifySets, subscribed, todo, current,
                       reported, wire, answers, route>>
    BY <1>2 DEF OpTimesOut
  <2>2. /\ \A p \in Ops : op'[p] = op[p] \/ (op[p] = "sent" /\ op'[p] = "failed")
        /\ op' \in [Ops -> {"idle", "sent", "done", "failed"}]
    BY <2>1 DEF RegistryTypes
  <2>3. RegistryTypes' /\ RequestsNamed' /\ LoopIsRunning' /\ GrantsHold'
    BY <2>1, <2>2 DEF RegistryTypes, RequestsNamed, LoopIsRunning, GrantsHold
  <2>4. NotifiesKnown'
    BY <2>1, <2>2 DEF NotifiesKnown, Ops
  <2>5. \A m \in Methods : Registering(m) => Registering(m)'
    BY <2>1, <2>2 DEF Registering, Ops
  <2>6. ProvidersAccounted' /\ SubscriptionsAccounted'
    BY <2>1, <2>5 DEF ProvidersAccounted, SubscriptionsAccounted, Live, Accounted,
       RegistryTypes
  <2> QED
    BY <2>3, <2>4, <2>6
<1>3. ASSUME NEW a \in answers, OpAnswered(a) PROVE RegistryInv'
  <2> DEFINE o == a.req.who
             m == a.req.method
  <2>1. /\ o \in Ops /\ m \in Methods /\ m = MethodOf[o]
        /\ closing = "no" /\ a.ok => route[m] = "ours"
    BY <1>3 DEF OpAnswered, RegistryTypes, Request, RequestsNamed, GrantsHold
  <2>2. /\ answers' = answers \ {a}
        /\ UNCHANGED <<lifecycleVars, notifySets, todo, current, reported, wire, route>>
    BY <1>3 DEF OpAnswered
  <2>3. /\ op' \in {op, [op EXCEPT ![o] = IF a.ok THEN "done" ELSE "failed"]}
        /\ op' # op => op[o] = "sent"
        /\ providers' \in {providers, providers \cup {m}}
        /\ providers' # providers => a.ok
        /\ subscribed' \in {subscribed, subscribed \cup {o}}
        /\ subscribed' # subscribed => o \in NotifyOps /\ op[o] = "sent"
    BY <1>3 DEF OpAnswered
  <2> HIDE DEF o, m
  <2>4. /\ op' \in [Ops -> {"idle", "sent", "done", "failed"}]
        /\ \A p \in Ops : \/ op'[p] = op[p]
                          \/ p = o /\ op[p] = "sent" /\ op'[p] = IF a.ok THEN "done" ELSE "failed"
    BY <2>1, <2>3 DEF RegistryTypes
  <2>5. RegistryTypes'
    BY <2>1, <2>2, <2>3, <2>4 DEF RegistryTypes
  <2>6. RequestsNamed' /\ LoopIsRunning' /\ GrantsHold'
    BY <2>2 DEF RequestsNamed, LoopIsRunning, GrantsHold
  <2>7. NotifiesKnown'
    <3>1. \A p \in NotifyOps : op'[p] # "idle" => op[p] # "idle"
      BY <2>4 DEF Ops
    <3>2. \A p \in subscribed' : MethodOf[p] \in notifySets
      BY <2>3 DEF NotifiesKnown
    <3> QED
      BY <2>2, <3>1, <3>2 DEF NotifiesKnown
  <2>8. (Live' => Live) /\ \A n \in Methods : Accounted(n) <=> Accounted(n)'
    BY <2>2 DEF Live, Accounted
  <2>9. ProvidersAccounted'
    <3>1. providers' = providers \/ (providers' = providers \cup {m} /\ (Live' => Accounted(m)'))
      BY <2>1, <2>2, <2>3 DEF Live, Accounted
    <3> QED
      BY <2>5, <2>8, <3>1 DEF ProvidersAccounted, RegistryTypes
  <2>10. ASSUME NEW n \in Methods, Registering(n), Live'
         PROVE  Accounted(n)' \/ Registering(n)'
    <3>1. PICK p \in NotifyOps : MethodOf[p] = n /\ op[p] \in {"sent", "failed"}
      BY <2>10 DEF Registering
    <3>2. CASE op'[p] \in {"sent", "failed"}
      BY <3>1, <3>2 DEF Registering
    <3>3. CASE op'[p] \notin {"sent", "failed"}
      <4>1. p = o /\ a.ok
        BY <2>4, <3>1, <3>3 DEF Ops
      <4>2. route'[n] = "ours"
        BY <2>1, <2>2, <2>10, <3>1, <4>1 DEF Live
      <4> QED
        BY <4>2 DEF Accounted
    <3> QED
      BY <3>2, <3>3
  <2>11. SubscriptionsAccounted'
    BY <2>2, <2>8, <2>10 DEF SubscriptionsAccounted, RegistryTypes
  <2> QED
    BY <2>5, <2>6, <2>7, <2>9, <2>11
<1> QED
  BY <1>1, <1>2, <1>3

\* What each step leaves alone is enough for the parts that do not see the loop.
LEMMA Frame ==
  ASSUME RegistryInv, UNCHANGED <<op, providers, notifySets, subscribed>>,
         Live' => Live, \A m \in Methods : Live' /\ Accounted(m) => Accounted(m)'
  PROVE  NotifiesKnown' /\ ProvidersAccounted' /\ SubscriptionsAccounted'
<1> USE DEF RegistryInv
<1>1. NotifiesKnown' /\ \A m \in Methods : Registering(m) => Registering(m)'
  BY DEF NotifiesKnown, Registering
<1>2. ProvidersAccounted' /\ SubscriptionsAccounted'
  BY <1>1 DEF ProvidersAccounted, SubscriptionsAccounted, RegistryTypes
<1> QED
  BY <1>1, <1>2

\* A new connection: the loop has all of them to register.
LEMMA ConnectedInv ==
  ASSUME LifecycleInv, RegistryInv, Connected
  PROVE  RegistryInv'
<1> USE DEF RegistryInv
<1>1. /\ todo' = providers \cup notifySets /\ reported' = {}
      /\ UNCHANGED <<op, providers, notifySets, subscribed, current, wire, answers, route>>
      /\ closing' = closing /\ registering' = registering + 1
  BY DEF Connected, ConnectSucceeds
<1>2. registering' # 0
  BY <1>1 DEF LifecycleInv, CountersOK
<1>3. RegistryTypes'
  BY <1>1 DEF RegistryTypes
<1>4. RequestsNamed' /\ NotifiesKnown' /\ LoopIsRunning' /\ GrantsHold'
  BY <1>1, <1>2 DEF RequestsNamed, NotifiesKnown, LoopIsRunning, GrantsHold
<1>5. ProvidersAccounted' /\ SubscriptionsAccounted'
  BY <1>1 DEF ProvidersAccounted, SubscriptionsAccounted, Accounted
<1> QED
  BY <1>3, <1>4, <1>5

\* The loop registers one method after the other, and reports what fails.
LEMMA LoopInv ==
  ASSUME LifecycleInv, RegistryInv,
         \/ \E m \in Methods : LoopSends(m)
         \/ \E a \in answers : LoopAnswered(a)
         \/ LoopTimesOut
         \/ LoopEnds
  PROVE  RegistryInv'
<1> USE DEF RegistryInv
<1>1. ASSUME NEW m \in Methods, LoopSends(m) PROVE RegistryInv'
  <2>1. /\ registering > 0 /\ current = NoMethod /\ m \in todo
        /\ todo' = todo \ {m} /\ current' = m
        /\ wire' = wire \cup {[who |-> Loop, method |-> m]}
        /\ UNCHANGED <<op, providers, notifySets, subscribed, reported, answers, route>>
        /\ UNCHANGED <<registering, closing, connected, uncaught>>
    BY <1>1 DEF LoopSends, lifecycleVars
  <2>2. RegistryTypes'
    BY <2>1 DEF RegistryTypes, Request
  <2>3. RequestsNamed' /\ GrantsHold'
    BY <2>1 DEF RequestsNamed, GrantsHold
  <2>4. LoopIsRunning'
    BY <2>1 DEF LoopIsRunning, LifecycleInv, CountersOK
  <2>5. (Live' => Live) /\ \A n \in Methods : Accounted(n) => Accounted(n)'
    BY <2>1 DEF Live, Accounted
  <2> QED
    BY <2>1, <2>2, <2>3, <2>4, <2>5, Frame
<1>2. ASSUME LoopEnds PROVE RegistryInv'
  <2>1. /\ todo = {} /\ current = NoMethod
        /\ UNCHANGED <<op, providers, notifySets, subscribed, todo, current, reported,
                       wire, answers, route>>
        /\ UNCHANGED <<closing, connected, uncaught>>
    BY <1>2 DEF LoopEnds, registryVars, Reregistered
  <2>2. RegistryTypes' /\ RequestsNamed' /\ GrantsHold' /\ LoopIsRunning'
    BY <2>1 DEF RegistryTypes, RequestsNamed, GrantsHold, LoopIsRunning
  <2>3. (Live' => Live) /\ \A n \in Methods : Accounted(n) => Accounted(n)'
    BY <2>1 DEF Live, Accounted
  <2> QED
    BY <2>1, <2>2, <2>3, Frame
<1>3. ASSUME LoopFailed, current # NoMethod, answers' \subseteq answers,
             UNCHANGED <<op, providers, notifySets, subscribed, wire, route>>
      PROVE  RegistryInv'
  <2>1. current' = NoMethod /\ UNCHANGED <<closing, connected>>
    BY <1>3 DEF LoopFailed, ReregisterThrows, lifecycleVars
  <2>2. CASE errorListener
    <3>1. /\ reported' = reported \cup {current}
          /\ UNCHANGED <<todo, registering, uncaught>>
      BY <1>3, <2>2 DEF LoopFailed, lifecycleVars
    <3>2. RegistryTypes' /\ RequestsNamed' /\ GrantsHold'
      BY <1>3, <2>1, <3>1 DEF RegistryTypes, RequestsNamed, GrantsHold
    <3>3. LoopIsRunning'
      BY <2>1, <3>1 DEF LoopIsRunning
    <3>4. (Live' => Live) /\ \A n \in Methods : Accounted(n) => Accounted(n)'
      BY <1>3, <2>1, <3>1 DEF Live, Accounted
    <3> QED
      BY <1>3, <3>2, <3>3, <3>4, Frame
  <2>3. CASE ~errorListener
    <3>1. todo' = {} /\ reported' = reported /\ uncaught'
      BY <1>3, <2>3 DEF LoopFailed, ReregisterThrows, EmitError
    <3>2. RegistryTypes' /\ RequestsNamed' /\ GrantsHold'
      BY <1>3, <2>1, <3>1 DEF RegistryTypes, RequestsNamed, GrantsHold
    <3>3. LoopIsRunning'
      BY <2>1, <3>1 DEF LoopIsRunning
    <3>4. ~Live'
      BY <3>1 DEF Live
    <3> QED
      BY <1>3, <3>2, <3>3, <3>4, Frame
  <2> QED
    BY <2>2, <2>3
<1>4. ASSUME LoopTimesOut PROVE RegistryInv'
  BY <1>4, <1>3 DEF LoopTimesOut
<1>5. ASSUME NEW a \in answers, LoopAnswered(a) PROVE RegistryInv'
  <2>1. /\ answers' = answers \ {a} /\ a.req.method \in Methods
        /\ UNCHANGED <<op, providers, notifySets, subscribed, wire, route>>
    BY <1>5 DEF LoopAnswered, RegistryTypes, Request
  <2>2. CASE LoopFailed /\ a.req.method = current
    BY <1>3, <2>1, <2>2
  <2>3. CASE /\ UNCHANGED <<lifecycleVars, todo, reported>>
             /\ \/ current' = current
                \/ current' = NoMethod /\ a.ok /\ a.req.method = current
    <3>1. RegistryTypes' /\ RequestsNamed' /\ GrantsHold' /\ LoopIsRunning'
      BY <2>1, <2>3 DEF lifecycleVars, RegistryTypes, RequestsNamed, GrantsHold, LoopIsRunning
    <3>2. Live' => Live
      BY <2>3 DEF lifecycleVars, Live
    <3>3. ASSUME NEW n \in Methods, Live', Accounted(n) PROVE Accounted(n)'
      <4>1. current' # current /\ n = current => route[n] = "ours"
        BY <2>3, <3>2, <3>3 DEF GrantsHold, Live
      <4> QED
        BY <2>1, <2>3, <3>3, <4>1 DEF Accounted
    <3> QED
      BY <2>1, <3>1, <3>2, <3>3, Frame
  <2> QED
    BY <1>5, <2>2, <2>3 DEF LoopAnswered
<1> QED
  BY <1>1, <1>2, <1>4, <1>5

\* A lost connection ends whatever was sent on it, and the loop.
LEMMA DisconnectInv ==
  ASSUME RegistryInv, NEW e \in BOOLEAN, NEW noticed \in BOOLEAN, Disconnect(e, noticed)
  PROVE  RegistryInv'
<1> USE DEF RegistryInv
<1>1. /\ connected' = FALSE
      /\ op' = [o \in Ops |-> IF op[o] = "sent" THEN "failed" ELSE op[o]]
      /\ reported' \in {reported, reported \cup todo \cup ({current} \ {NoMethod})}
      /\ todo' = {} /\ current' = NoMethod /\ wire' = {} /\ answers' = {}
      /\ route' = [m \in Methods |-> IF route[m] # "ours" THEN route[m]
                                     ELSE IF noticed THEN "free" ELSE "stale"]
      /\ UNCHANGED <<providers, notifySets, subscribed>>
  BY DEF Disconnect, SocketClosed
<1>2. RegistryTypes'
  BY <1>1 DEF RegistryTypes
<1>3. \A o \in Ops : op'[o] = "idle" <=> op[o] = "idle"
  BY <1>1
<1>4. NotifiesKnown'
  BY <1>1, <1>3 DEF NotifiesKnown, Ops
<1>5. RequestsNamed' /\ LoopIsRunning' /\ GrantsHold'
  BY <1>1 DEF RequestsNamed, LoopIsRunning, GrantsHold
<1>6. ProvidersAccounted' /\ SubscriptionsAccounted'
  BY <1>1 DEF ProvidersAccounted, SubscriptionsAccounted, Live
<1> QED
  BY <1>2, <1>4, <1>5, <1>6

\* Neither the router nor another client takes a route away; $/reset does.
LEMMA RouterInv ==
  ASSUME RegistryInv,
         \/ \E r \in wire : RouterRegisters(r)
         \/ RouterNoticesDrop
         \/ \E m \in Methods : OtherClient(m)
         \/ \E processed \in BOOLEAN : Reset(processed)
  PROVE  RegistryInv'
<1> USE DEF RegistryInv
<1>1. ASSUME NEW processed \in BOOLEAN, Reset(processed) PROVE RegistryInv'
  <2>1. /\ closing' = "ending" /\ registering' = registering
        /\ UNCHANGED <<op, providers, notifySets, subscribed, todo, current, reported,
                       wire, answers>>
        /\ route' = [m \in Methods |-> IF processed /\ route[m] = "ours"
                                       THEN "free" ELSE route[m]]
    BY <1>1 DEF Reset, ResetSettles
  <2>2. RegistryTypes'
    BY <2>1 DEF RegistryTypes
  <2>3. RequestsNamed' /\ NotifiesKnown' /\ LoopIsRunning'
    BY <2>1 DEF RequestsNamed, NotifiesKnown, LoopIsRunning
  <2>4. GrantsHold' /\ ProvidersAccounted' /\ SubscriptionsAccounted'
    BY <2>1 DEF GrantsHold, ProvidersAccounted, SubscriptionsAccounted, Live
  <2> QED
    BY <2>2, <2>3, <2>4
<1>2. ASSUME UNCHANGED <<lifecycleVars, op, providers, notifySets, subscribed, todo,
                         current, reported>>,
             \A m \in Methods : route[m] = "ours" => route'[m] = "ours",
             RegistryTypes', RequestsNamed', GrantsHold'
      PROVE  RegistryInv'
  <2>1. LoopIsRunning' /\ (Live' => Live)
    BY <1>2 DEF LoopIsRunning, Live, lifecycleVars
  <2>2. \A m \in Methods : Accounted(m) => Accounted(m)'
    BY <1>2 DEF Accounted
  <2> QED
    BY <1>2, <2>1, <2>2, Frame
<1>3. ASSUME NEW r \in wire, RouterRegisters(r) PROVE RegistryInv'
  <2> DEFINE a == [req |-> r, ok |-> route[r.method] = "free"]
  <2>1. /\ wire' = wire \ {r} /\ answers' = answers \cup {a}
        /\ r \in Request /\ r.method \in Methods
        /\ UNCHANGED <<lifecycleVars, op, providers, notifySets, subscribed, todo,
                       current, reported>>
    BY <1>3 DEF RouterRegisters, RegistryTypes, Request
  <2>2. /\ route' \in {route, [route EXCEPT ![r.method] = "ours"]}
        /\ route[r.method] = "free" => route' = [route EXCEPT ![r.method] = "ours"]
    BY <1>3 DEF RouterRegisters
  <2>3. \A m \in Methods : route[m] = "ours" => route'[m] = "ours"
    BY <2>1, <2>2 DEF RegistryTypes
  <2>4. a \in [req : Request, ok : BOOLEAN] /\ a.req = r /\ a.ok = (route[r.method] = "free")
    BY <2>1
  <2>5. route' \in [Methods -> {"free", "ours", "stale", "other"}]
    BY <2>1, <2>2 DEF RegistryTypes
  <2> HIDE DEF a
  <2>6. RegistryTypes'
    BY <2>1, <2>4, <2>5 DEF RegistryTypes
  <2>7. RequestsNamed'
    BY <2>1, <2>4 DEF RequestsNamed
  <2>8. a.ok => route'[a.req.method] = "ours"
    BY <2>1, <2>2, <2>4 DEF RegistryTypes
  <2>9. GrantsHold'
    BY <2>1, <2>3, <2>8 DEF GrantsHold, lifecycleVars, RegistryTypes, Request
  <2> QED
    BY <1>2, <2>1, <2>3, <2>6, <2>7, <2>9
<1>4. ASSUME RouterNoticesDrop \/ \E m \in Methods : OtherClient(m) PROVE RegistryInv'
  <2>1. /\ UNCHANGED <<lifecycleVars, op, providers, notifySets, subscribed, todo,
                       current, reported, wire, answers>>
        /\ route' \in [Methods -> {"free", "ours", "stale", "other"}]
        /\ \A m \in Methods : route[m] = "ours" => route'[m] = "ours"
    BY <1>4 DEF RouterNoticesDrop, OtherClient, RegistryTypes
  <2>2. RegistryTypes'
    BY <2>1 DEF RegistryTypes
  <2>3. RequestsNamed' /\ GrantsHold'
    BY <2>1 DEF RequestsNamed, GrantsHold, RegistryTypes, Request, lifecycleVars
  <2> QED
    BY <1>2, <2>1, <2>2, <2>3
<1> QED
  BY <1>1, <1>3, <1>4

\* The rest of the lifecycle neither connects nor ends a loop.
LEMMA OtherStepInv ==
  ASSUME RegistryInv, OtherLifecycleStep \/ UNCHANGED vars
  PROVE  RegistryInv'
<1> USE DEF RegistryInv
<1>1. UNCHANGED registryVars
  BY DEF OtherLifecycleStep, vars
<1>2. /\ registering' = registering
      /\ closing' = "no" => closing = "no"
      /\ Live' => Live
  <2>1. CASE ReconnectTimerFires
    BY <2>1 DEF ReconnectTimerFires, Live
  <2>2. CASE ConnectFails
    BY <2>2 DEF ConnectFails, EmitError, Live
  <2>3. CASE Close
    BY <2>3 DEF Close, Return, Live
  <2>4. CASE UNCHANGED lifecycleVars
    BY <2>4 DEF lifecycleVars, Live
  <2> QED
    BY <2>1, <2>2, <2>3, <2>4 DEF OtherLifecycleStep, vars
<1>3. RegistryTypes' /\ RequestsNamed' /\ LoopIsRunning' /\ GrantsHold'
  BY <1>1, <1>2 DEF registryVars, RegistryTypes, RequestsNamed, LoopIsRunning, GrantsHold
<1>4. \A m \in Methods : Accounted(m) => Accounted(m)'
  BY <1>1 DEF registryVars, Accounted
<1> QED
  BY <1>1, <1>2, <1>3, <1>4, Frame DEF registryVars

\* Every step keeps the invariant.
LEMMA RegistryStep ==
  ASSUME LifecycleInv, RegistryInv, [Next]_vars
  PROVE  RegistryInv'
<1>1. ASSUME NEW o \in Ops,
             (o \in ProvideOps /\ Provide(o)) \/ (o \in NotifyOps /\ OnNotify(o))
      PROVE  RegistryInv'
  BY <1>1, StartInv
<1>2. CASE \/ \E o \in Ops : OpTimesOut(o)
           \/ \E a \in answers : OpAnswered(a)
           \/ \E o \in NotifyOps : Unsubscribe(o)
  BY <1>2, SettleInv
<1>3. CASE Connected
  BY <1>3, ConnectedInv
<1>4. CASE \/ \E m \in Methods : LoopSends(m)
           \/ \E a \in answers : LoopAnswered(a)
           \/ LoopTimesOut
           \/ LoopEnds
  BY <1>4, LoopInv
<1>5. ASSUME NEW e \in BOOLEAN, NEW noticed \in BOOLEAN, Disconnect(e, noticed)
      PROVE  RegistryInv'
  BY <1>5, DisconnectInv
<1>6. CASE \/ \E r \in wire : RouterRegisters(r)
           \/ RouterNoticesDrop
           \/ \E m \in Methods : OtherClient(m)
           \/ \E processed \in BOOLEAN : Reset(processed)
  BY <1>6, RouterInv
<1>7. CASE OtherLifecycleStep \/ UNCHANGED vars
  BY <1>7, OtherStepInv
<1> QED
  BY <1>1, <1>2, <1>3, <1>4, <1>5, <1>6, <1>7 DEF Next, Ops

\* To the lifecycle, a step of the registrations is one of its own or nothing.
LEMMA LifecycleKept ==
  ASSUME LifecycleInv, [Next]_vars
  PROVE  LifecycleInv'
<1>1. LifecycleNext \/ UNCHANGED lifecycleVars
  BY DEF Next, vars, Provide, OnNotify, Unsubscribe, OpTimesOut, OpAnswered, LoopAnswered,
     LoopFailed, LoopSends, OtherClient, Connected, LoopTimesOut, LoopEnds, Disconnect,
     Reset, OtherLifecycleStep, RouterRegisters, RouterNoticesDrop, LifecycleNext
<1>2. CASE LifecycleNext
  BY <1>2, SwitchesStep, CountersStep, ConnectionStep, ClosedStep DEF LifecycleInv
<1>3. CASE UNCHANGED lifecycleVars
  BY <1>3 DEF lifecycleVars, LifecycleInv, SwitchesOK, CountersOK, SingleFlight,
              ReconnectUnderWay, NoTimerAfterClose, ConnectedIffSocket, ClosingIsOurs
<1> QED
  BY <1>1, <1>2, <1>3

\* What the two theorems below rest on.
THEOREM RegistryInvariance == Spec => [](LifecycleInv /\ RegistryInv)
<1>1. Init => LifecycleInv /\ RegistryInv
  BY InitInv, RegistryInit DEF Init
<1>2. LifecycleInv /\ RegistryInv /\ [Next]_vars => (LifecycleInv /\ RegistryInv)'
  BY LifecycleKept, RegistryStep
<1> QED
  BY <1>1, <1>2, PTL DEF Spec

-----------------------------------------------------------------------------
\* What a connected Bridge provides is routed to it once it has registered again,
\* unless it has reported that this failed (bridge.ts 514-522, 558-572).
THEOREM ProvidersRouted == Spec => []ProviderIsRouted
<1>1. LifecycleInv /\ RegistryInv => ProviderIsRouted
  <2> SUFFICES ASSUME LifecycleInv, RegistryInv PROVE ProviderIsRouted
    OBVIOUS
  <2> USE DEF RegistryInv
  <2>1. LifecycleTypeOK
    BY DEF LifecycleInv, SwitchesOK, CountersOK, LifecycleTypeOK
  <2>2. answers \subseteq {[req |-> r, ok |-> b] : r \in Request, b \in BOOLEAN}
    <3>1. \A a \in answers : a = [req |-> a.req, ok |-> a.ok] /\ a.req \in Request /\ a.ok \in BOOLEAN
      BY DEF RegistryTypes
    <3> QED
      BY <3>1
  <2>3. RegistryTypeOK
    BY <2>1, <2>2 DEF RegistryTypes, RegistryTypeOK
  <2>4. Settled => \A m \in providers \ reported : route[m] = "ours"
    BY DEF Settled, Live, ProvidersAccounted, Accounted, LoopIsRunning, RegistryTypes
  <2> QED
    BY <2>3, <2>4 DEF ProviderIsRouted
<1> QED
  BY <1>1, RegistryInvariance, PTL

\* So is a method with subscribers, unless its registration is under way or has failed
\* (bridge.ts 539-549, 558-572).
THEOREM SubscriptionsRouted == Spec => []SubscriptionIsRoutedUnlessRefused
<1>1. LifecycleInv /\ RegistryInv => SubscriptionIsRoutedUnlessRefused
  <2> SUFFICES ASSUME LifecycleInv, RegistryInv, Settled, NEW o \in subscribed
               PROVE  \/ route[MethodOf[o]] = "ours" \/ MethodOf[o] \in reported
                      \/ InFlight(MethodOf[o])
                      \/ \E p \in NotifyOps : MethodOf[p] = MethodOf[o] /\ op[p] = "failed"
    BY DEF SubscriptionIsRoutedUnlessRefused
  <2> USE DEF RegistryInv
  <2>1. MethodOf[o] \in notifySets /\ MethodOf[o] \in Methods
    BY DEF NotifiesKnown, RegistryTypes
  <2>2. Live /\ todo = {} /\ current = NoMethod
    BY DEF Settled, Live, LoopIsRunning
  <2>3. route[MethodOf[o]] = "ours" \/ MethodOf[o] \in reported \/ Registering(MethodOf[o])
    BY <2>1, <2>2 DEF SubscriptionsAccounted, Accounted
  <2> QED
    BY <2>3 DEF Registering, InFlight, Ops
<1> QED
  BY <1>1, RegistryInvariance, PTL
===============================================================================
