---------------------------- MODULE CloudClients ----------------------------
(***************************************************************************)
(* The manager that shares one Arduino Cloud client between the trigger    *)
(* nodes of one credential: packages/n8n-nodes-arduino-cloud/src/          *)
(* cloudClientManager.ts, driven by ArduinoCloudTrigger.node.ts.           *)
(*                                                                         *)
(* Credentials never share state, so one credential stands for all.  Every *)
(* segment of code between two awaits is one action.  Entries are numbered *)
(* in the order getEntry creates them, because a closure keeps the entry it*)
(* captured after the map has dropped it.  The client of arduino-iot-js is *)
(* external: each of its calls may succeed or fail.                        *)
(***************************************************************************)
EXTENDS Integers, FiniteSets

CONSTANTS
    Triggers,        \* the trigger nodes that use the credential
    Keys,            \* the (thingId, variableName) pairs
    KeyOf,           \* the pair each trigger node listens to
    MaxActivations   \* bound: how often n8n activates a trigger, in all

ASSUME KeysAssumption == KeyOf \in [Triggers -> Keys] /\ IsFiniteSet(Triggers)
ASSUME ActivationsAssumption == MaxActivations \in Nat

\* A fresh entry is made by an activation only, so there are no more entries.
Entries == 1..MaxActivations

VARIABLES
    live,          \* the entry the map holds for the credential, 0 for none
    made,          \* how many entries getEntry has created
    client,        \* per entry: its CloudClient, as the broker sees it
    handlers,      \* per entry and key: the triggers in the demux set
    sdkSubscribed, \* per entry: the keys it has asked the SDK for
    refCount,      \* per entry: the subscriptions counted
    callbacks,     \* per entry and key: callbacks the SDK has accepted
    phase,         \* per trigger: where its subscribe or tear-down is
    mine,          \* per trigger: the entry its closures captured
    activations    \* how many activations there have been

entryVars == <<live, made, client, handlers, sdkSubscribed, refCount, callbacks>>
vars == <<entryVars, phase, mine, activations>>

\* "none" is entry.client = null with no pendingConnect, "connecting" the
\* pendingConnect, "up" entry.client; "closing" a client that teardown took
\* out of its entry and is disconnecting, "down" one that is disconnected.
ClientStates == {"none", "connecting", "up", "closing", "down"}
Phases == {"idle", "connecting", "subscribing", "active", "closing"}

Init ==
    /\ live = 0
    /\ made = 0
    /\ client = [e \in Entries |-> "none"]
    /\ handlers = [e \in Entries |-> [k \in Keys |-> {}]]
    /\ sdkSubscribed = [e \in Entries |-> {}]
    /\ refCount = [e \in Entries |-> 0]
    /\ callbacks = [e \in Entries |-> [k \in Keys |-> 0]]
    /\ phase = [t \in Triggers |-> "idle"]
    /\ mine = [t \in Triggers |-> 0]
    /\ activations = 0

----------------------------------------------------------------------------
(* The manager's operations *)

\* The entry that getEntry returns: the one in the map or a new one.
EntryFor == IF live # 0 THEN live ELSE made + 1

\* The first half of subscribe and ensureConnected, up to the await: n8n
\* activates a trigger, which is counted before the client is there.
Subscribe(t) ==
    LET e == EntryFor IN
    /\ phase[t] = "idle"
    /\ activations < MaxActivations
    /\ activations' = activations + 1
    /\ live' = e
    /\ made' = IF live # 0 THEN made ELSE made + 1
    /\ mine' = [mine EXCEPT ![t] = e]
    /\ refCount' = [refCount EXCEPT ![e] = @ + 1]
    /\ client' = [client EXCEPT ![e] = IF @ = "none" THEN "connecting" ELSE @]
    /\ phase' = [phase EXCEPT ![t] = "connecting"]
    /\ UNCHANGED <<handlers, sdkSubscribed, callbacks>>

\* client.connect() resolves: entry.client is set and pendingConnect cleared.
ConnectResolves(e) ==
    /\ client[e] = "connecting"
    /\ client' = [client EXCEPT ![e] = "up"]
    /\ UNCHANGED <<live, made, handlers, sdkSubscribed, refCount, callbacks,
                   phase, mine, activations>>

\* The triggers that wait for the entry's pendingConnect.
Waiting(e) == {t \in Triggers : phase[t] = "connecting" /\ mine[t] = e}

\* Mutant: only the subscribe that started the connect takes its count back.
ConnectRejectsForOne(e) ==
    /\ client[e] = "connecting"
    /\ client' = [client EXCEPT ![e] = "none"]
    /\ refCount' = [refCount EXCEPT ![e] = @ - 1]
    /\ phase' = [t \in Triggers |-> IF t \in Waiting(e) THEN "idle" ELSE phase[t]]
    /\ UNCHANGED <<live, made, handlers, sdkSubscribed, callbacks, mine, activations>>

\* client.connect() rejects: every subscribe that shares the promise takes its
\* count back and rejects; the entry stays in the map.
ConnectRejects(e) ==
    /\ client[e] = "connecting"
    /\ client' = [client EXCEPT ![e] = "none"]
    /\ refCount' = [refCount EXCEPT ![e] = @ - Cardinality(Waiting(e))]
    /\ phase' = [t \in Triggers |-> IF t \in Waiting(e) THEN "idle" ELSE phase[t]]
    /\ UNCHANGED <<live, made, handlers, sdkSubscribed, callbacks, mine, activations>>

\* Mutant: each subscriber asks the SDK.
JoinAskingAgain(t) ==
    LET e == mine[t]
        k == KeyOf[t]
    IN
    /\ phase[t] = "connecting"
    /\ client[e] = "up"
    /\ handlers' = [handlers EXCEPT ![e][k] = @ \cup {t}]
    /\ sdkSubscribed' = [sdkSubscribed EXCEPT ![e] = @ \cup {k}]
    /\ phase' = [phase EXCEPT ![t] = "subscribing"]
    /\ UNCHANGED <<live, made, client, refCount, callbacks, mine, activations>>

\* subscribe resumes with the connected client: the handler joins the demux
\* set, and the first one for its key asks the SDK, marking the key before the
\* answer is there; a later one is done.
Join(t) ==
    LET e == mine[t]
        k == KeyOf[t]
    IN
    /\ phase[t] = "connecting"
    /\ client[e] = "up"
    /\ handlers' = [handlers EXCEPT ![e][k] = @ \cup {t}]
    /\ sdkSubscribed' = [sdkSubscribed EXCEPT ![e] = @ \cup {k}]
    /\ phase' = [phase EXCEPT ![t] =
                    IF k \in sdkSubscribed[e] THEN "active" ELSE "subscribing"]
    /\ UNCHANGED <<live, made, client, refCount, callbacks, mine, activations>>

\* The SDK accepts the callback: subscribe resolves.
SdkAccepts(t) ==
    /\ phase[t] = "subscribing"
    /\ callbacks' = [callbacks EXCEPT ![mine[t]][KeyOf[t]] = @ + 1]
    /\ phase' = [phase EXCEPT ![t] = "active"]
    /\ UNCHANGED <<live, made, client, handlers, sdkSubscribed, refCount, mine,
                   activations>>

\* teardown up to its await: the entry is emptied and leaves the map at once.
Teardown(e) ==
    /\ client' = [client EXCEPT ![e] = "closing"]
    /\ handlers' = [handlers EXCEPT ![e] = [k \in Keys |-> {}]]
    /\ sdkSubscribed' = [sdkSubscribed EXCEPT ![e] = {}]
    /\ live' = 0

\* Mutant: the client is released with the last handler of a key.
LeaveWithKey(t, keys) ==
    LET e == mine[t] IN
    /\ refCount' = [refCount EXCEPT ![e] = @ - 1]
    /\ IF handlers[e][KeyOf[t]] = {t}
         THEN /\ Teardown(e)
              /\ phase' = [phase EXCEPT ![t] = "closing"]
         ELSE /\ handlers' = [handlers EXCEPT ![e][KeyOf[t]] = @ \ {t}]
              /\ sdkSubscribed' = [sdkSubscribed EXCEPT ![e] = keys]
              /\ phase' = [phase EXCEPT ![t] = "idle"]
              /\ UNCHANGED <<live, client>>
    /\ UNCHANGED <<made, callbacks, mine, activations>>

\* What both ways out of an entry do: the handler leaves its set, the count
\* goes down, and at zero the client is released.  keys is what is left of
\* sdkSubscribed.
Leave(t, keys) ==
    LET e == mine[t] IN
    /\ refCount' = [refCount EXCEPT ![e] = @ - 1]
    /\ IF refCount[e] = 1
         THEN /\ Teardown(e)
              /\ phase' = [phase EXCEPT ![t] = "closing"]
         ELSE /\ handlers' = [handlers EXCEPT ![e][KeyOf[t]] = @ \ {t}]
              /\ sdkSubscribed' = [sdkSubscribed EXCEPT ![e] = keys]
              /\ phase' = [phase EXCEPT ![t] = "idle"]
              /\ UNCHANGED <<live, client>>
    /\ UNCHANGED <<made, callbacks, mine, activations>>

\* Mutant: the key stays marked.
SdkRefusesMarked(t) ==
    /\ phase[t] = "subscribing"
    /\ Leave(t, sdkSubscribed[mine[t]])

\* The SDK refuses the callback: the key is unmarked and the subscribe rejects.
SdkRefuses(t) ==
    /\ phase[t] = "subscribing"
    /\ Leave(t, sdkSubscribed[mine[t]] \ {KeyOf[t]})

\* n8n deactivates a trigger: its closeFunction runs the tear-down closure.
Unsubscribe(t) ==
    /\ phase[t] = "active"
    /\ Leave(t, sdkSubscribed[mine[t]])

\* client.disconnect() settles, either way, and the tear-down with it; the
\* callbacks of the client die with it.
Disconnected(t) ==
    LET e == mine[t] IN
    /\ phase[t] = "closing"
    /\ client' = [client EXCEPT ![e] = "down"]
    /\ callbacks' = [callbacks EXCEPT ![e] = [k \in Keys |-> 0]]
    /\ phase' = [phase EXCEPT ![t] = "idle"]
    /\ UNCHANGED <<live, made, handlers, sdkSubscribed, refCount, mine, activations>>

Next ==
    \/ \E t \in Triggers : \/ Subscribe(t) \/ Join(t) \/ SdkAccepts(t) \/ SdkRefuses(t)
                           \/ Unsubscribe(t) \/ Disconnected(t)
    \/ \E e \in Entries : ConnectResolves(e) \/ ConnectRejects(e)

Spec == Init /\ [][Next]_vars

----------------------------------------------------------------------------
(* What happens to a value *)

\* The callback given to the SDK: it hands a value of key k to every handler
\* in the demux set, so a trigger emits once per callback of its key.
Emitters(t) ==
    {c \in Entries \X (1..MaxActivations) :
        t \in handlers[c[1]][KeyOf[t]] /\ c[2] <= callbacks[c[1]][KeyOf[t]]}

Emissions(t) == Cardinality(Emitters(t))

----------------------------------------------------------------------------
(* Properties *)

\* Types.
CloudTypeOK ==
    /\ live \in Entries \cup {0} /\ made \in Entries \cup {0}
    /\ client \in [Entries -> ClientStates]
    /\ handlers \in [Entries -> [Keys -> SUBSET Triggers]]
    /\ sdkSubscribed \in [Entries -> SUBSET Keys]
    /\ refCount \in [Entries -> 0..Cardinality(Triggers)]
    /\ callbacks \in [Entries -> [Keys -> 0..MaxActivations]]
    /\ phase \in [Triggers -> Phases]
    /\ mine \in [Triggers -> Entries \cup {0}]
    /\ activations \in 0..MaxActivations

\* The triggers that hold a count of entry e.
Counted(e) ==
    {t \in Triggers : mine[t] = e /\ phase[t] \in {"connecting", "subscribing", "active"}}

\* Types; and the count of every entry is the number of triggers that still lean on it,
\* whichever of its connects and SDK calls failed, and a client that is
\* connected without anybody counted is never left behind.
CountsMatchUsers ==
    /\ CloudTypeOK
    /\ \A e \in Entries :
          /\ refCount[e] = Cardinality(Counted(e))
          /\ client[e] \in {"connecting", "up"} => refCount[e] > 0 /\ live = e

\* No property value reaches a workflow twice: a trigger's handler hangs on at
\* most one callback of one client, however often the SDK subscription of its
\* key was refused, shared and asked for again.  A trigger that was closed or
\* refused is silent, even while its client disconnects or serves others.
EmitsAtMostOnce ==
    \A t \in Triggers :
        Emissions(t) <= IF phase[t] \in {"subscribing", "active"} THEN 1 ELSE 0

\* While a client is up, a key is marked exactly when the SDK has one callback
\* for it or is being asked: a mark without either would leave every later
\* subscriber of the key without values, a callback without a mark would make
\* the next one ask for a second.
MarksMatchTheSdk ==
    \A e \in Entries, k \in Keys :
        client[e] = "up" =>
            (k \in sdkSubscribed[e]
                <=> callbacks[e][k] = 1
                    \/ \E t \in Counted(e) : phase[t] = "subscribing" /\ KeyOf[t] = k)

\* Disconnecting is the last user's business: a client is never taken away from
\* under a trigger that is active or about to be.
ClientOutlivesItsUsers ==
    [][\A e \in Entries :
          client[e] = "up" /\ client'[e] # "up" => Counted(e)' = {}]_vars

============================================================================
