---------------------------- MODULE BridgeRegistry ----------------------------
(***************************************************************************)
(* The methods one Bridge registers on the router (bridge.ts provide,      *)
(* onNotify, reRegister) against the router's routing table: a name has    *)
(* one owner, $/register of an owned name is refused, the routes of a      *)
(* connection go when the router notices that it is gone, and the Bridge   *)
(* registers what it knows again on every new connection.                  *)
(***************************************************************************)
EXTENDS BridgeLifecycle, FiniteSets

CONSTANTS
  Methods,
  ProvideOps,   \* calls of provide() by the Bridge's owner
  NotifyOps,    \* calls of onNotify()
  MethodOf,     \* the method name each of them passes
  NoMethod

Ops == ProvideOps \cup NotifyOps

Loop == "reRegister"

ASSUME RegistryAssumption ==
  /\ ProvideOps \cap NotifyOps = {}
  /\ MethodOf \in [Ops -> Methods]
  /\ NoMethod \notin Methods
  /\ Loop \notin Ops

VARIABLES
  op,           \* where each call of provide() or onNotify() is
  providers,    \* keys of Bridge.providers
  notifySets,   \* keys of Bridge.notifyHandlers
  subscribed,   \* onNotify() calls whose handler is in its set
  todo, current,\* reRegister(): methods left, and the one it awaits
  reported,     \* methods reRegister() emitted an 'error' for on this connection
  wire,         \* $/register requests the router has not processed
  answers,      \* its answers the Bridge has not received
  route         \* the router's table: who owns each method

registryVars == <<op, providers, notifySets, subscribed, todo, current, reported,
                  wire, answers, route>>

vars == <<lifecycleVars, registryVars>>

Request == [who : Ops \cup {Loop}, method : Methods]

RegistryTypeOK ==
  /\ LifecycleTypeOK
  /\ op \in [Ops -> {"idle", "sent", "done", "failed"}]
  /\ providers \subseteq Methods
  /\ notifySets \subseteq Methods
  /\ subscribed \subseteq NotifyOps
  /\ todo \subseteq Methods
  /\ current \in Methods \cup {NoMethod}
  /\ reported \subseteq Methods
  /\ wire \subseteq Request
  /\ answers \subseteq {[req |-> r, ok |-> b] : r \in Request, b \in BOOLEAN}
  /\ route \in [Methods -> {"free", "ours", "stale", "other"}]

Init ==
  /\ LifecycleInit
  /\ op = [o \in Ops |-> "idle"]
  /\ providers = {}
  /\ notifySets = {}
  /\ subscribed = {}
  /\ todo = {}
  /\ current = NoMethod
  /\ reported = {}
  /\ wire = {}
  /\ answers = {}
  /\ route = [m \in Methods |-> "free"]

-----------------------------------------------------------------------------
\* this.call('$/register', method): fails fast when disconnected.
Register(o) ==
  IF connected
  THEN /\ wire' = wire \cup {[who |-> o, method |-> MethodOf[o]]}
       /\ op' = [op EXCEPT ![o] = "sent"]
  ELSE /\ op' = [op EXCEPT ![o] = "failed"]
       /\ UNCHANGED wire

Provide(o) ==
  /\ op[o] = "idle"
  /\ IF MethodOf[o] \in providers
     THEN op' = [op EXCEPT ![o] = "done"] /\ UNCHANGED wire
     ELSE Register(o)
  /\ UNCHANGED <<lifecycleVars, providers, notifySets, subscribed, todo, current,
                 reported, answers, route>>

\* Only the first subscriber of a method registers it, and not if it is provided;
\* the set is in the map before the registration is answered.
OnNotify(o) ==
  /\ op[o] = "idle"
  /\ notifySets' = notifySets \cup {MethodOf[o]}
  /\ IF MethodOf[o] \in notifySets \cup providers
     THEN /\ op' = [op EXCEPT ![o] = "done"]
          /\ subscribed' = subscribed \cup {o}
          /\ UNCHANGED wire
     ELSE Register(o) /\ UNCHANGED subscribed
  /\ UNCHANGED <<lifecycleVars, providers, todo, current, reported, answers, route>>

\* The function onNotify() returned.
Unsubscribe(o) ==
  /\ o \in subscribed
  /\ subscribed' = subscribed \ {o}
  /\ UNCHANGED <<lifecycleVars, op, providers, notifySets, todo, current, reported,
                 wire, answers, route>>

\* Mutant: provide() stores its handler whatever the answer is.
OpAnsweredAnyway(a) ==
  LET o == a.req.who IN
  /\ o \in Ops
  /\ answers' = answers \ {a}
  /\ op' = [op EXCEPT ![o] = IF a.ok THEN "done" ELSE "failed"]
  /\ providers' = IF o \in ProvideOps THEN providers \cup {a.req.method} ELSE providers
  /\ subscribed' = IF a.ok /\ o \in NotifyOps
                   THEN subscribed \cup {o} ELSE subscribed
  /\ UNCHANGED <<lifecycleVars, notifySets, todo, current, reported, wire, route>>

\* The answer to the $/register of provide() or onNotify(), and what follows the
\* await.  An answer that comes after the timeout is ignored.
OpAnswered(a) ==
  LET o == a.req.who IN
  /\ o \in Ops
  /\ answers' = answers \ {a}
  /\ IF op[o] # "sent"
     THEN UNCHANGED <<op, providers, subscribed>>
     ELSE /\ op' = [op EXCEPT ![o] = IF a.ok THEN "done" ELSE "failed"]
          /\ providers' = IF a.ok /\ o \in ProvideOps
                          THEN providers \cup {a.req.method} ELSE providers
          /\ subscribed' = IF a.ok /\ o \in NotifyOps
                           THEN subscribed \cup {o} ELSE subscribed
  /\ UNCHANGED <<lifecycleVars, notifySets, todo, current, reported, wire, route>>

OpTimesOut(o) ==
  /\ op[o] = "sent"
  /\ op' = [op EXCEPT ![o] = "failed"]
  /\ UNCHANGED <<lifecycleVars, providers, notifySets, subscribed, todo, current,
                 reported, wire, answers, route>>

-----------------------------------------------------------------------------
\* Mutant: only the providers are registered again.
ConnectedWithoutSubscribers ==
  /\ ConnectSucceeds
  /\ todo' = providers
  /\ reported' = {}
  /\ UNCHANGED <<op, providers, notifySets, subscribed, current, wire, answers,
                 route>>

\* doReconnect() up to reRegister()'s snapshot of the method names.
Connected ==
  /\ ConnectSucceeds
  /\ todo' = providers \cup notifySets
  /\ reported' = {}
  /\ UNCHANGED <<op, providers, notifySets, subscribed, current, wire, answers,
                 route>>

LoopSends(m) ==
  /\ registering > 0 /\ current = NoMethod
  /\ m \in todo
  /\ todo' = todo \ {m}
  /\ current' = m
  /\ wire' = wire \cup {[who |-> Loop, method |-> m]}
  /\ UNCHANGED <<lifecycleVars, op, providers, notifySets, subscribed, reported,
                 answers, route>>

\* A $/register of the loop failed: it is reported and the loop goes on, or the
\* report throws and ends doReconnect().
LoopFailed ==
  /\ current' = NoMethod
  /\ IF errorListener
     THEN /\ reported' = reported \cup {current}
          /\ UNCHANGED <<lifecycleVars, todo>>
     ELSE /\ ReregisterThrows
          /\ todo' = {}
          /\ UNCHANGED reported

LoopAnswered(a) ==
  /\ a.req.who = Loop
  /\ answers' = answers \ {a}
  /\ IF a.req.method # current
     THEN UNCHANGED <<lifecycleVars, todo, current, reported>>
     ELSE IF a.ok
     THEN current' = NoMethod /\ UNCHANGED <<lifecycleVars, todo, reported>>
     ELSE LoopFailed
  /\ UNCHANGED <<op, providers, notifySets, subscribed, wire, route>>

LoopTimesOut ==
  /\ current # NoMethod
  /\ LoopFailed
  /\ UNCHANGED <<op, providers, notifySets, subscribed, wire, answers, route>>

LoopEnds ==
  /\ todo = {} /\ current = NoMethod
  /\ Reregistered
  /\ UNCHANGED registryVars

\* The socket closes: every $/register fails, a loop under way reports what it
\* still had to do, and the router has or has not noticed (noticed) that the
\* owner of the routes is gone.
Disconnect(withError, noticed) ==
  LET unfinished == todo \cup ({current} \ {NoMethod}) IN
  /\ SocketClosed(withError, unfinished # {})
  /\ op' = [o \in Ops |-> IF op[o] = "sent" THEN "failed" ELSE op[o]]
  /\ reported' = IF errorListener THEN reported \cup unfinished ELSE reported
  /\ todo' = {}
  /\ current' = NoMethod
  /\ wire' = {}
  /\ answers' = {}
  /\ route' = [m \in Methods |-> IF route[m] # "ours" THEN route[m]
                                 ELSE IF noticed THEN "free" ELSE "stale"]
  /\ UNCHANGED <<providers, notifySets, subscribed>>

\* $/reset drops the routes of the connection, unless it times out.
Reset(processed) ==
  /\ ResetSettles
  /\ route' = [m \in Methods |-> IF processed /\ route[m] = "ours"
                                 THEN "free" ELSE route[m]]
  /\ UNCHANGED <<op, providers, notifySets, subscribed, todo, current, reported,
                 wire, answers>>

OtherLifecycleStep ==
  /\ ReconnectTimerFires \/ ConnectFails \/ Close
  /\ UNCHANGED registryVars

-----------------------------------------------------------------------------
\* The router and its other clients (not under src/).
RouterRegisters(r) ==
  /\ r \in wire
  /\ wire' = wire \ {r}
  /\ answers' = answers \cup {[req |-> r, ok |-> route[r.method] = "free"]}
  /\ route' = IF route[r.method] = "free"
              THEN [route EXCEPT ![r.method] = "ours"] ELSE route
  /\ UNCHANGED <<lifecycleVars, op, providers, notifySets, subscribed, todo, current,
                 reported>>

RouterNoticesDrop ==
  /\ \E m \in Methods : route[m] = "stale"
  /\ route' = [m \in Methods |-> IF route[m] = "stale" THEN "free" ELSE route[m]]
  /\ UNCHANGED <<lifecycleVars, op, providers, notifySets, subscribed, todo, current,
                 reported, wire, answers>>

OtherClient(m) ==
  /\ \/ route[m] = "free" /\ route' = [route EXCEPT ![m] = "other"]
     \/ route[m] = "other" /\ route' = [route EXCEPT ![m] = "free"]
  /\ UNCHANGED <<lifecycleVars, op, providers, notifySets, subscribed, todo, current,
                 reported, wire, answers>>

Next ==
  \/ \E o \in ProvideOps : Provide(o)
  \/ \E o \in NotifyOps : OnNotify(o) \/ Unsubscribe(o)
  \/ \E o \in Ops : OpTimesOut(o)
  \/ \E a \in answers : OpAnswered(a) \/ LoopAnswered(a)
  \/ \E m \in Methods : LoopSends(m) \/ OtherClient(m)
  \/ Connected
  \/ LoopTimesOut
  \/ LoopEnds
  \/ \E withError, noticed \in BOOLEAN : Disconnect(withError, noticed)
  \/ \E processed \in BOOLEAN : Reset(processed)
  \/ OtherLifecycleStep
  \/ \E r \in wire : RouterRegisters(r)
  \/ RouterNoticesDrop

Spec == Init /\ [][Next]_vars

-----------------------------------------------------------------------------
\* A registration of the method may still succeed.
InFlight(m) == \/ \E o \in Ops : MethodOf[o] = m /\ op[o] = "sent"
               \/ \E r \in wire : r.method = m

\* The Bridge is connected, has registered what it knows again, and is not closed.
Settled == connected /\ registering = 0 /\ closing = "no" /\ ~uncaught

\* Types; and a provided method is routed to the Bridge whenever it is connected and has
\* re-registered, unless reRegister() reported that it failed: otherwise callers
\* get "method not available" from a provider that believes to serve them
\* (bridge.ts 514-522, 558-572).
ProviderIsRouted ==
  /\ RegistryTypeOK
  /\ Settled => \A m \in providers \ reported : route[m] = "ours"

\* The same for a method with subscribers, unless a registration of it failed.
SubscriptionIsRoutedUnlessRefused ==
  Settled => \A o \in subscribed :
    LET m == MethodOf[o] IN
    \/ route[m] = "ours" \/ m \in reported \/ InFlight(m)
    \/ \E p \in NotifyOps : MethodOf[p] = m /\ op[p] = "failed"

=============================================================================
