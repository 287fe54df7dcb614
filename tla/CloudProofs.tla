----------------------------- MODULE CloudProofs ------------------------------
(***************************************************************************)
(* The safety properties of the Arduino Cloud nodes: of the manager that   *)
(* shares a client (CloudClients), for any number of triggers, keys and    *)
(* activations, then of a REST request (CloudRest, with the gates of       *)
(* CallGate), for any number of callers and whatever the cap, the window,  *)
(* the bucket and the tokens' lifetime.                                    *)
(***************************************************************************)
EXTENDS CloudClients, CloudRest, FiniteSetTheorems, TLAPS

USE KeysAssumption, ActivationsAssumption DEF Entries

\* Types; the numbers of entries that getEntry() has given out.
ClientTypes ==
    /\ activations \in 0..MaxActivations
    /\ made \in 0..activations
    /\ live \in 0..made
    /\ client \in [Entries -> ClientStates]
    /\ handlers \in [Entries -> [Keys -> SUBSET Triggers]]
    /\ sdkSubscribed \in [Entries -> SUBSET Keys]
    /\ refCount \in [Entries -> Nat]
    /\ callbacks \in [Entries -> [Keys -> {0, 1}]]
    /\ phase \in [Triggers -> Phases]
    /\ mine \in [Triggers -> 0..made]

\* The count of every entry is the number of triggers that lean on it.
CountsExact == \A e \in Entries : refCount[e] = Cardinality(Counted(e))

\* A client is as far as the triggers that use its entry need it to be, and the one
\* that is connected or connecting is in the map, and used.
ClientsServe ==
    /\ \A t \in Triggers :
          /\ phase[t] # "idle" => mine[t] \in Entries
          /\ phase[t] = "connecting" => client[mine[t]] \in {"connecting", "up"}
          /\ phase[t] \in {"subscribing", "active"} => client[mine[t]] = "up"
          /\ phase[t] = "closing" => client[mine[t]] = "closing"
    /\ \A e \in Entries :
          /\ client[e] \in {"connecting", "up"} => live = e /\ Counted(e) # {}
          /\ live = e => client[e] \in {"none", "connecting", "up"}
          /\ e > made => client[e] = "none"

\* A client is disconnected by one trigger, the last.
OneCloses ==
    \A t, u \in Triggers :
        phase[t] = "closing" /\ phase[u] = "closing" /\ mine[t] = mine[u] => t = u

\* A demux set holds triggers of its key that use its entry.
HandlersUse ==
    \A e \in Entries, k \in Keys : \A t \in handlers[e][k] :
        KeyOf[t] = k /\ mine[t] = e /\ phase[t] \in {"subscribing", "active"}

\* A key that is being asked for has no callback yet, and is asked for once; an entry
\* whose client was never up has none.
AskedOnce ==
    /\ \A t \in Triggers : phase[t] = "subscribing" => callbacks[mine[t]][KeyOf[t]] = 0
    /\ \A t, u \in Triggers :
          /\ phase[t] = "subscribing" /\ phase[u] = "subscribing"
          /\ mine[t] = mine[u] /\ KeyOf[t] = KeyOf[u]
          => t = u
    /\ \A e \in Entries : client[e] \in {"none", "connecting"} =>
          sdkSubscribed[e] = {} /\ \A k \in Keys : callbacks[e][k] = 0

ClientsInv ==
    /\ ClientTypes
    /\ CountsExact
    /\ ClientsServe
    /\ OneCloses
    /\ HandlersUse
    /\ AskedOnce
    /\ MarksMatchTheSdk

\* How many triggers there are to be counted.
LEMMA CountedFinite ==
    ASSUME NEW e
    PROVE  IsFiniteSet(Counted(e)) /\ Cardinality(Counted(e)) \in 0..Cardinality(Triggers)
<1>1. Counted(e) \in SUBSET Triggers
    BY DEF Counted
<1> QED
    BY <1>1, FS_Subset, FS_CardinalityType

\* A trigger that is not counted, or is, changes the count by one when it is or is not.
LEMMA CountOneMore ==
    ASSUME NEW e, NEW t, t \notin Counted(e)
    PROVE  Cardinality(Counted(e) \cup {t}) = Cardinality(Counted(e)) + 1
BY CountedFinite, FS_AddElement

LEMMA CountOneLess ==
    ASSUME NEW e, NEW t, t \in Counted(e)
    PROVE  /\ Cardinality(Counted(e) \ {t}) = Cardinality(Counted(e)) - 1
           /\ Cardinality(Counted(e)) = 1 <=> Counted(e) = {t}
<1>1. Cardinality(Counted(e) \ {t}) = Cardinality(Counted(e)) - 1
    BY CountedFinite, FS_RemoveElement
<1>2. Cardinality(Counted(e)) = 1 <=> \E x : Counted(e) = {x}
    BY CountedFinite, FS_Singleton
<1> QED
    BY <1>1, <1>2

LEMMA ClientsInit == Init => ClientsInv
<1> SUFFICES ASSUME Init PROVE ClientsInv
    OBVIOUS
<1> USE DEF Init
<1>1. ClientTypes
    BY DEF ClientTypes, ClientStates, Phases
<1>2. \A e : Counted(e) = {}
    BY DEF Counted
<1>3. CountsExact
    BY <1>2, FS_EmptySet DEF CountsExact
<1>4. ClientsServe /\ OneCloses /\ HandlersUse
    BY <1>2 DEF ClientsServe, OneCloses, HandlersUse
<1>5. AskedOnce /\ MarksMatchTheSdk
    BY DEF AskedOnce, MarksMatchTheSdk
<1> QED
    BY <1>1, <1>3, <1>4, <1>5 DEF ClientsInv

-----------------------------------------------------------------------------
\* A trigger is activated: it is counted before its client is there.
LEMMA SubscribeInv ==
    ASSUME ClientsInv, NEW t \in Triggers, Subscribe(t)
    PROVE  ClientsInv'
<1> USE DEF ClientsInv
<1> PICK e : e = EntryFor
    OBVIOUS
<1>1. /\ phase[t] = "idle"
      /\ activations < MaxActivations /\ activations' = activations + 1
      /\ live' = e
      /\ made' = IF live # 0 THEN made ELSE made + 1
      /\ mine' = [mine EXCEPT ![t] = e]
      /\ refCount' = [refCount EXCEPT ![e] = @ + 1]
      /\ client' = [client EXCEPT ![e] = IF @ = "none" THEN "connecting" ELSE @]
      /\ phase' = [phase EXCEPT ![t] = "connecting"]
      /\ UNCHANGED <<handlers, sdkSubscribed, callbacks>>
    BY DEF Subscribe
<1>2. e \in Entries /\ e \in 1..made' /\ made <= made' /\ made' <= activations'
    BY <1>1 DEF EntryFor, ClientTypes
<1>3. client[e] \in {"none", "connecting", "up"}
    BY <1>1, <1>2 DEF EntryFor, ClientsServe, ClientTypes
<1>4. \A f \in Entries : f # e => client[f] \notin {"connecting", "up"} /\ f # live
    BY DEF ClientsServe, EntryFor, ClientTypes
<1>5. ClientTypes'
    BY <1>1, <1>2, <1>3 DEF ClientTypes, Phases, ClientStates
<1>6. /\ Counted(e)' = Counted(e) \cup {t} /\ t \notin Counted(e)
      /\ \A f \in Entries : f # e => Counted(f)' = Counted(f)
    BY <1>1, <1>2 DEF Counted, ClientTypes
<1>7. CountsExact'
    BY <1>1, <1>2, <1>6, CountOneMore DEF CountsExact, ClientTypes
<1>8. /\ client'[e] \in {"connecting", "up"}
      /\ client[e] # "none" => client'[e] = client[e]
      /\ client[e] = "none" => client'[e] = "connecting"
      /\ \A f \in Entries : f # e => client'[f] = client[f]
    BY <1>1, <1>2, <1>3 DEF ClientTypes
<1>9. \A u \in Triggers : u # t => phase'[u] = phase[u] /\ mine'[u] = mine[u]
    BY <1>1 DEF ClientTypes
<1>10. phase'[t] = "connecting" /\ mine'[t] = e
    BY <1>1 DEF ClientTypes
<1>11. ClientsServe'
    <2>1. ASSUME NEW u \in Triggers
          PROVE  /\ phase'[u] # "idle" => mine'[u] \in Entries
                 /\ phase'[u] = "connecting" => client'[mine'[u]] \in {"connecting", "up"}
                 /\ phase'[u] \in {"subscribing", "active"} => client'[mine'[u]] = "up"
                 /\ phase'[u] = "closing" => client'[mine'[u]] = "closing"
        BY <1>2, <1>8, <1>9, <1>10, <1>3 DEF ClientsServe, ClientTypes
    <2>2. ASSUME NEW f \in Entries
          PROVE  /\ client'[f] \in {"connecting", "up"} => live' = f /\ Counted(f)' # {}
                 /\ live' = f => client'[f] \in {"none", "connecting", "up"}
                 /\ f > made' => client'[f] = "none"
        BY <1>1, <1>2, <1>4, <1>6, <1>8 DEF ClientsServe, ClientTypes
    <2> QED
        BY <2>1, <2>2 DEF ClientsServe
<1>12. OneCloses' /\ HandlersUse'
    <2>1. OneCloses'
        BY <1>9, <1>10 DEF OneCloses
    <2>2. ASSUME NEW f \in Entries, NEW k \in Keys, NEW u \in handlers[f][k]
          PROVE  KeyOf[u] = k /\ mine'[u] = f /\ phase'[u] \in {"subscribing", "active"}
        <3>1. u \in Triggers
            BY <2>2 DEF ClientTypes
        <3>2. KeyOf[u] = k /\ mine[u] = f /\ phase[u] \in {"subscribing", "active"}
            BY <2>2 DEF HandlersUse
        <3> QED
            BY <1>1, <1>9, <3>1, <3>2
    <2> QED
        BY <1>1, <2>1, <2>2 DEF HandlersUse
<1>13. AskedOnce'
    <2>1. \A u \in Triggers : phase'[u] = "subscribing"
                               => phase[u] = "subscribing" /\ mine'[u] = mine[u]
        BY <1>9, <1>10
    <2>2. \A f \in Entries : client'[f] \in {"none", "connecting"}
                              => client[f] \in {"none", "connecting"}
        BY <1>3, <1>8
    <2> QED
        BY <1>1, <2>1, <2>2 DEF AskedOnce
<1>14. MarksMatchTheSdk'
    <2>1. ASSUME NEW f \in Entries, client'[f] = "up", NEW k \in Keys
          PROVE  k \in sdkSubscribed'[f]
                 <=> callbacks'[f][k] = 1
                     \/ \E u \in Counted(f)' : phase'[u] = "subscribing" /\ KeyOf[u] = k
        <3>1. client[f] = "up"
            BY <1>3, <1>8, <2>1
        <3>2. \A u \in Triggers : u \in Counted(f)' /\ phase'[u] = "subscribing"
                                   <=> u \in Counted(f) /\ phase[u] = "subscribing"
            BY <1>1, <1>9, <1>10 DEF Counted
        <3> QED
            BY <1>1, <3>1, <3>2 DEF MarksMatchTheSdk, Counted
    <2> QED
        BY <2>1 DEF MarksMatchTheSdk
<1> QED
    BY <1>5, <1>7, <1>11, <1>12, <1>13, <1>14

\* The connect that the triggers of an entry share resolves.
LEMMA ConnectResolvesInv ==
    ASSUME ClientsInv, NEW e \in Entries, ConnectResolves(e)
    PROVE  ClientsInv'
<1> USE DEF ClientsInv
<1>1. /\ client[e] = "connecting" /\ client' = [client EXCEPT ![e] = "up"]
      /\ UNCHANGED <<live, made, handlers, sdkSubscribed, refCount, callbacks, phase, mine,
                     activations>>
    BY DEF ConnectResolves
<1>2. client'[e] = "up" /\ \A f \in Entries : f # e => client'[f] = client[f]
    BY <1>1 DEF ClientTypes
<1>3. ClientTypes'
    BY <1>1 DEF ClientTypes, ClientStates
<1>4. \A f : Counted(f)' = Counted(f)
    BY <1>1 DEF Counted
<1>5. CountsExact'
    BY <1>1, <1>4 DEF CountsExact
<1>6. ClientsServe'
    BY <1>1, <1>2, <1>4 DEF ClientsServe, ClientTypes
<1>7. OneCloses' /\ HandlersUse'
    BY <1>1 DEF OneCloses, HandlersUse
<1>8. AskedOnce'
    BY <1>1, <1>2 DEF AskedOnce
<1>9. MarksMatchTheSdk'
    <2>1. ASSUME NEW f \in Entries, client'[f] = "up", NEW k \in Keys
          PROVE  k \in sdkSubscribed[f]
                 <=> callbacks[f][k] = 1
                     \/ \E u \in Counted(f) : phase[u] = "subscribing" /\ KeyOf[u] = k
        <3>1. CASE f # e
            BY <1>2, <2>1, <3>1 DEF MarksMatchTheSdk
        <3>2. CASE f = e
            <4>1. \A u \in Counted(e) : phase[u] # "subscribing"
                BY <1>1 DEF ClientsServe, Counted
            <4> QED
                BY <1>1, <3>2, <4>1 DEF AskedOnce
        <3> QED
            BY <3>1, <3>2
    <2> QED
        BY <1>1, <1>4, <2>1 DEF MarksMatchTheSdk
<1> QED
    BY <1>3, <1>5, <1>6, <1>7, <1>8, <1>9

\* It rejects: all who share it take their counts back, and nobody else uses the entry.
LEMMA ConnectRejectsInv ==
    ASSUME ClientsInv, NEW e \in Entries, ConnectRejects(e)
    PROVE  ClientsInv'
<1> USE DEF ClientsInv
<1>1. /\ client[e] = "connecting" /\ client' = [client EXCEPT ![e] = "none"]
      /\ refCount' = [refCount EXCEPT ![e] = @ - Cardinality(Waiting(e))]
      /\ phase' = [t \in Triggers |-> IF t \in Waiting(e) THEN "idle" ELSE phase[t]]
      /\ UNCHANGED <<live, made, handlers, sdkSubscribed, callbacks, mine, activations>>
    BY DEF ConnectRejects
<1>2. Waiting(e) = Counted(e)
    BY <1>1 DEF Waiting, Counted, ClientsServe
<1>3. refCount'[e] = 0 /\ \A f \in Entries : f # e => refCount'[f] = refCount[f]
    BY <1>1, <1>2, CountedFinite DEF CountsExact, ClientTypes
<1>4. client'[e] = "none" /\ \A f \in Entries : f # e => client'[f] = client[f]
    BY <1>1 DEF ClientTypes
<1>5. Counted(e)' = {} /\ \A f \in Entries : f # e => Counted(f)' = Counted(f)
    BY <1>1, <1>2 DEF Counted, Waiting
<1>6. ClientTypes'
    BY <1>1, <1>3 DEF ClientTypes, ClientStates, Phases
<1>7. CountsExact'
    BY <1>3, <1>5, FS_EmptySet DEF CountsExact
<1>8. \A t \in Triggers : /\ phase'[t] \in {"idle", phase[t]}
                          /\ phase[t] \notin {"connecting", "idle"} => phase'[t] = phase[t]
                          /\ phase'[t] = "connecting" => mine[t] # e
    BY <1>1 DEF Waiting
<1>9. ClientsServe'
    BY <1>1, <1>4, <1>5, <1>8 DEF ClientsServe, ClientTypes
<1>10. OneCloses' /\ HandlersUse'
    <2>1. OneCloses'
        BY <1>1, <1>8 DEF OneCloses
    <2>2. ASSUME NEW f \in Entries, NEW k \in Keys, NEW u \in handlers[f][k]
          PROVE  KeyOf[u] = k /\ mine[u] = f /\ phase'[u] \in {"subscribing", "active"}
        <3>1. u \in Triggers
            BY <2>2 DEF ClientTypes
        <3> QED
            BY <1>8, <2>2, <3>1 DEF HandlersUse
    <2> QED
        BY <1>1, <2>1, <2>2 DEF HandlersUse
<1>11. \A u \in Triggers : phase'[u] = "subscribing" <=> phase[u] = "subscribing"
    BY <1>8
<1>12. AskedOnce'
    BY <1>1, <1>4, <1>11 DEF AskedOnce
<1>13. MarksMatchTheSdk'
    <2>1. ASSUME NEW f \in Entries, client'[f] = "up", NEW k \in Keys
          PROVE  k \in sdkSubscribed'[f]
                 <=> callbacks'[f][k] = 1
                     \/ \E u \in Counted(f)' : phase'[u] = "subscribing" /\ KeyOf[u] = k
        <3>1. f # e /\ client[f] = "up"
            BY <1>4, <2>1
        <3>2. k \in sdkSubscribed[f]
              <=> callbacks[f][k] = 1
                  \/ \E u \in Counted(f) : phase[u] = "subscribing" /\ KeyOf[u] = k
            BY <3>1 DEF MarksMatchTheSdk
        <3>3. Counted(f)' = Counted(f) /\ Counted(f) \subseteq Triggers
            BY <1>5, <3>1 DEF Counted
        <3>4. \A u \in Counted(f) : phase'[u] = "subscribing" <=> phase[u] = "subscribing"
            BY <1>11, <3>3
        <3> QED
            BY <1>1, <3>2, <3>3, <3>4
    <2> QED
        BY <2>1 DEF MarksMatchTheSdk
<1> QED
    BY <1>6, <1>7, <1>9, <1>10, <1>12, <1>13

-----------------------------------------------------------------------------
\* A subscribe goes on with the connected client.
LEMMA JoinInv ==
    ASSUME ClientsInv, NEW t \in Triggers, Join(t)
    PROVE  ClientsInv'
<1> USE DEF ClientsInv
<1> PICK e : e = mine[t]
    OBVIOUS
<1> PICK k : k = KeyOf[t]
    OBVIOUS
<1>1. /\ phase[t] = "connecting" /\ client[e] = "up"
      /\ handlers' = [handlers EXCEPT ![e][k] = @ \cup {t}]
      /\ sdkSubscribed' = [sdkSubscribed EXCEPT ![e] = @ \cup {k}]
      /\ phase' = [phase EXCEPT ![t] =
                      IF k \in sdkSubscribed[e] THEN "active" ELSE "subscribing"]
      /\ UNCHANGED <<live, made, client, refCount, callbacks, mine, activations>>
    BY DEF Join
<1>2. e \in Entries /\ k \in Keys
    BY <1>1 DEF ClientsServe
<1>3. ClientTypes'
    BY <1>1, <1>2 DEF ClientTypes, Phases
<1>4. /\ phase'[t] = IF k \in sdkSubscribed[e] THEN "active" ELSE "subscribing"
      /\ \A u \in Triggers : u # t => phase'[u] = phase[u]
    BY <1>1 DEF ClientTypes
<1>5. \A f : Counted(f)' = Counted(f)
    BY <1>1, <1>4 DEF Counted
<1>6. CountsExact'
    BY <1>1, <1>5 DEF CountsExact
<1>7. ClientsServe'
    BY <1>1, <1>4, <1>5 DEF ClientsServe
<1>8. OneCloses'
    BY <1>1, <1>4 DEF OneCloses
<1>9. HandlersUse'
    <2>1. ASSUME NEW f \in Entries, NEW j \in Keys, NEW u \in handlers'[f][j]
          PROVE  KeyOf[u] = j /\ mine[u] = f /\ phase'[u] \in {"subscribing", "active"}
        <3>1. CASE u = t /\ f = e /\ j = k
            BY <1>4, <3>1
        <3>2. CASE ~(u = t /\ f = e /\ j = k)
            <4>1. u \in handlers[f][j]
                BY <1>1, <1>2, <2>1, <3>2 DEF ClientTypes
            <4>2. u \in Triggers
                BY <4>1 DEF ClientTypes
            <4> QED
                BY <1>1, <1>4, <4>1, <4>2 DEF HandlersUse
        <3> QED
            BY <3>1, <3>2
    <2> QED
        BY <1>1, <2>1 DEF HandlersUse
<1>10. k \notin sdkSubscribed[e]
       => /\ callbacks[e][k] = 0
          /\ \A u \in Triggers : ~(phase[u] = "subscribing" /\ mine[u] = e /\ KeyOf[u] = k)
    BY <1>1, <1>2 DEF MarksMatchTheSdk, ClientTypes, Counted
<1>11. AskedOnce'
    BY <1>1, <1>2, <1>4, <1>10 DEF AskedOnce
<1>12. MarksMatchTheSdk'
    <2>1. ASSUME NEW f \in Entries, client[f] = "up", NEW j \in Keys
          PROVE  j \in sdkSubscribed'[f]
                 <=> callbacks'[f][j] = 1
                     \/ \E u \in Counted(f)' : phase'[u] = "subscribing" /\ KeyOf[u] = j
        <3>1. CASE f = e /\ j = k /\ k \notin sdkSubscribed[e]
            <4>1. t \in Counted(e)'
                BY <1>1, <1>5 DEF Counted
            <4> QED
                BY <1>1, <1>2, <1>4, <3>1, <4>1 DEF ClientTypes
        <3>2. CASE ~(f = e /\ j = k /\ k \notin sdkSubscribed[e])
            <4>1. j \in sdkSubscribed'[f] <=> j \in sdkSubscribed[f]
                BY <1>1, <1>2, <3>2 DEF ClientTypes
            <4>2. \A u \in Counted(f) : phase'[u] = "subscribing" /\ KeyOf[u] = j
                                        <=> phase[u] = "subscribing" /\ KeyOf[u] = j
                BY <1>1, <1>4, <3>2 DEF Counted
            <4> QED
                BY <1>1, <1>5, <2>1, <4>1, <4>2 DEF MarksMatchTheSdk
        <3> QED
            BY <3>1, <3>2
    <2> QED
        BY <1>1, <2>1 DEF MarksMatchTheSdk
<1> QED
    BY <1>3, <1>6, <1>7, <1>8, <1>9, <1>11, <1>12

\* The SDK accepts the callback that was asked for.
LEMMA SdkAcceptsInv ==
    ASSUME ClientsInv, NEW t \in Triggers, SdkAccepts(t)
    PROVE  ClientsInv'
<1> USE DEF ClientsInv
<1> PICK e : e = mine[t]
    OBVIOUS
<1> PICK k : k = KeyOf[t]
    OBVIOUS
<1>1. /\ phase[t] = "subscribing"
      /\ callbacks' = [callbacks EXCEPT ![e][k] = @ + 1]
      /\ phase' = [phase EXCEPT ![t] = "active"]
      /\ UNCHANGED <<live, made, client, handlers, sdkSubscribed, refCount, mine,
                     activations>>
    BY DEF SdkAccepts
<1>2. e \in Entries /\ k \in Keys /\ client[e] = "up" /\ callbacks[e][k] = 0
    BY <1>1 DEF ClientsServe, AskedOnce
<1>3. ClientTypes'
    BY <1>1, <1>2 DEF ClientTypes, Phases
<1>4. phase'[t] = "active" /\ \A u \in Triggers : u # t => phase'[u] = phase[u]
    BY <1>1 DEF ClientTypes
<1>5. \A f : Counted(f)' = Counted(f)
    BY <1>1, <1>4 DEF Counted
<1>6. CountsExact'
    BY <1>1, <1>5 DEF CountsExact
<1>7. ClientsServe'
    BY <1>1, <1>4, <1>5 DEF ClientsServe
<1>8. OneCloses'
    BY <1>1, <1>4 DEF OneCloses
<1>9. HandlersUse'
    BY <1>1, <1>4 DEF HandlersUse, ClientTypes
<1>10. /\ callbacks'[e][k] = 1
       /\ \A f \in Entries, j \in Keys :
              ~(f = e /\ j = k) => callbacks'[f][j] = callbacks[f][j]
    BY <1>1, <1>2 DEF ClientTypes
<1>11. AskedOnce'
    <2>1. ASSUME NEW u \in Triggers, phase'[u] = "subscribing"
          PROVE  callbacks'[mine[u]][KeyOf[u]] = 0
        <3>1. u # t /\ phase[u] = "subscribing" /\ mine[u] \in Entries
            BY <1>4, <2>1 DEF ClientsServe
        <3>2. ~(mine[u] = e /\ KeyOf[u] = k)
            BY <1>1, <3>1 DEF AskedOnce
        <3> QED
            BY <1>10, <3>1, <3>2 DEF AskedOnce
    <2>2. \A f \in Entries : client[f] \in {"none", "connecting"} => f # e
        BY <1>2
    <2> QED
        BY <1>1, <1>4, <1>10, <2>1, <2>2 DEF AskedOnce
<1>12. MarksMatchTheSdk'
    <2>1. ASSUME NEW f \in Entries, client[f] = "up", NEW j \in Keys
          PROVE  j \in sdkSubscribed[f]
                 <=> callbacks'[f][j] = 1
                     \/ \E u \in Counted(f)' : phase'[u] = "subscribing" /\ KeyOf[u] = j
        <3>1. CASE f = e /\ j = k
            BY <1>1, <1>2, <1>10, <2>1, <3>1 DEF MarksMatchTheSdk, Counted
        <3>2. CASE ~(f = e /\ j = k)
            <4>1. \A u \in Counted(f) : phase'[u] = "subscribing" /\ KeyOf[u] = j
                                        <=> phase[u] = "subscribing" /\ KeyOf[u] = j
                BY <1>1, <1>4, <3>2 DEF Counted
            <4> QED
                BY <1>5, <1>10, <2>1, <3>2, <4>1 DEF MarksMatchTheSdk
        <3> QED
            BY <3>1, <3>2
    <2> QED
        BY <1>1, <2>1 DEF MarksMatchTheSdk
<1> QED
    BY <1>3, <1>6, <1>7, <1>8, <1>9, <1>11, <1>12

\* A trigger leaves its entry: by its tear-down, or because the SDK refuses its callback.
\* The last one takes the client with it.
LEMMA LeaveInv ==
    ASSUME ClientsInv, NEW t \in Triggers, NEW keys, Leave(t, keys),
           \/ phase[t] = "subscribing" /\ keys = sdkSubscribed[mine[t]] \ {KeyOf[t]}
           \/ phase[t] = "active" /\ keys = sdkSubscribed[mine[t]]
    PROVE  /\ ClientsInv'
           /\ \A f \in Entries : client[f] = "up" /\ client'[f] # "up" => Counted(f)' = {}
<1> USE DEF ClientsInv
<1> PICK e : e = mine[t]
    OBVIOUS
<1> PICK k : k = KeyOf[t]
    OBVIOUS
<1>1. /\ e \in Entries /\ k \in Keys /\ client[e] = "up" /\ live = e
      /\ t \in Counted(e)
    BY DEF ClientsServe, Counted
<1>2. /\ refCount' = [refCount EXCEPT ![e] = @ - 1]
      /\ UNCHANGED <<made, callbacks, mine, activations>>
    BY DEF Leave
<1>3. refCount[e] = Cardinality(Counted(e)) /\ refCount[e] \in Nat
    BY <1>1 DEF CountsExact, ClientTypes
<1>4. \A f \in Entries : f # e => client[f] \notin {"connecting", "up"}
    BY <1>1 DEF ClientsServe
<1>5. refCount'[e] = refCount[e] - 1 /\ \A f \in Entries : f # e => refCount'[f] = refCount[f]
    BY <1>1, <1>2 DEF ClientTypes
<1>6. keys \subseteq Keys
    BY <1>1 DEF ClientTypes
<1>7. CASE refCount[e] = 1
    <2>1. /\ client' = [client EXCEPT ![e] = "closing"]
          /\ handlers' = [handlers EXCEPT ![e] = [j \in Keys |-> {}]]
          /\ sdkSubscribed' = [sdkSubscribed EXCEPT ![e] = {}]
          /\ live' = 0
          /\ phase' = [phase EXCEPT ![t] = "closing"]
        BY <1>7 DEF Leave, Teardown
    <2>2. Counted(e) = {t}
        BY <1>1, <1>3, <1>7, CountOneLess
    <2>3. phase'[t] = "closing" /\ \A u \in Triggers : u # t => phase'[u] = phase[u]
        BY <2>1 DEF ClientTypes
    <2>4. client'[e] = "closing" /\ \A f \in Entries : f # e => client'[f] = client[f]
        BY <1>1, <2>1 DEF ClientTypes
    <2>5. \A u \in Triggers : u # t /\ phase[u] # "idle" => mine[u] # e
        BY <1>1, <2>2 DEF ClientsServe, Counted, ClientTypes, Phases
    <2>6. ClientTypes'
        BY <1>1, <1>2, <1>5, <1>7, <2>1 DEF ClientTypes, ClientStates, Phases
    <2>7. Counted(e)' = {} /\ \A f \in Entries : f # e => Counted(f)' = Counted(f)
        BY <1>2, <2>2, <2>3 DEF Counted
    <2>8. CountsExact'
        BY <1>5, <1>7, <2>7, FS_EmptySet DEF CountsExact
    <2>9. ClientsServe'
        <3>1. ASSUME NEW u \in Triggers
              PROVE  /\ phase'[u] # "idle" => mine[u] \in Entries
                     /\ phase'[u] = "connecting" => client'[mine[u]] \in {"connecting", "up"}
                     /\ phase'[u] \in {"subscribing", "active"} => client'[mine[u]] = "up"
                     /\ phase'[u] = "closing" => client'[mine[u]] = "closing"
            BY <1>1, <2>3, <2>4, <2>5 DEF ClientsServe
        <3>2. ASSUME NEW f \in Entries
              PROVE  /\ client'[f] \notin {"connecting", "up"} /\ live' # f
                     /\ f > made => client'[f] = "none"
            BY <1>1, <1>4, <2>1, <2>4 DEF ClientsServe
        <3> QED
            BY <1>2, <3>1, <3>2 DEF ClientsServe
    <2>10. OneCloses'
        BY <1>2, <2>3, <2>5 DEF OneCloses
    <2>11. HandlersUse'
        <3>1. ASSUME NEW f \in Entries, NEW j \in Keys, NEW u \in handlers'[f][j]
              PROVE  KeyOf[u] = j /\ mine[u] = f /\ phase'[u] \in {"subscribing", "active"}
            <4>1. f # e /\ u \in handlers[f][j]
                BY <1>1, <2>1, <3>1 DEF ClientTypes
            <4>2. u \in Triggers
                BY <4>1 DEF ClientTypes
            <4> QED
                BY <2>3, <4>1, <4>2 DEF HandlersUse
        <3> QED
            BY <1>2, <3>1 DEF HandlersUse
    <2>12. AskedOnce'
        BY <1>2, <2>1, <2>3, <2>4 DEF AskedOnce, ClientTypes
    <2>13. MarksMatchTheSdk'
        BY <1>4, <2>4 DEF MarksMatchTheSdk
    <2> QED
        BY <1>4, <2>6, <2>7, <2>8, <2>9, <2>10, <2>11, <2>12, <2>13
<1>8. CASE refCount[e] # 1
    <2>1. /\ handlers' = [handlers EXCEPT ![e][k] = @ \ {t}]
          /\ sdkSubscribed' = [sdkSubscribed EXCEPT ![e] = keys]
          /\ phase' = [phase EXCEPT ![t] = "idle"]
          /\ UNCHANGED <<live, client>>
        BY <1>8 DEF Leave
    <2>2. Counted(e) # {t} /\ Cardinality(Counted(e) \ {t}) = refCount[e] - 1
        BY <1>1, <1>3, <1>8, CountOneLess
    <2>3. phase'[t] = "idle" /\ \A u \in Triggers : u # t => phase'[u] = phase[u]
        BY <2>1 DEF ClientTypes
    <2>4. /\ Counted(e)' = Counted(e) \ {t} /\ Counted(e)' # {}
          /\ \A f \in Entries : f # e => Counted(f)' = Counted(f)
        BY <1>1, <1>2, <2>2, <2>3 DEF Counted
    <2>5. refCount[e] - 1 \in Nat
        BY <2>2, <2>4, <1>3, CountedFinite, FS_EmptySet
    <2>6. ClientTypes'
        BY <1>1, <1>2, <1>6, <2>1, <2>5 DEF ClientTypes, Phases
    <2>7. CountsExact'
        BY <1>5, <2>2, <2>4 DEF CountsExact
    <2>8. ClientsServe'
        BY <1>2, <2>1, <2>3, <2>4 DEF ClientsServe
    <2>9. OneCloses'
        BY <1>2, <2>3 DEF OneCloses
    <2>10. HandlersUse'
        <3>1. ASSUME NEW f \in Entries, NEW j \in Keys, NEW u \in handlers'[f][j]
              PROVE  KeyOf[u] = j /\ mine[u] = f /\ phase'[u] \in {"subscribing", "active"}
            <4>1. u \in handlers[f][j] /\ ~(f = e /\ j = k /\ u = t)
                BY <1>1, <2>1, <3>1 DEF ClientTypes
            <4>2. u \in Triggers /\ KeyOf[u] = j /\ mine[u] = f
                BY <4>1 DEF HandlersUse, ClientTypes
            <4>3. u # t
                BY <4>1, <4>2
            <4> QED
                BY <2>3, <4>1, <4>2, <4>3 DEF HandlersUse
        <3> QED
            BY <1>2, <3>1 DEF HandlersUse
    <2>11. AskedOnce'
        <3>1. \A u \in Triggers : phase'[u] = "subscribing" => phase[u] = "subscribing"
            BY <2>3
        <3>2. \A f \in Entries : client[f] \in {"none", "connecting"}
                                 => sdkSubscribed'[f] = sdkSubscribed[f]
            BY <1>1, <2>1 DEF ClientTypes
        <3> QED
            BY <1>2, <2>1, <3>1, <3>2 DEF AskedOnce
    <2>12. MarksMatchTheSdk'
        <3>1. ASSUME NEW j \in Keys
              PROVE  j \in sdkSubscribed'[e]
                     <=> callbacks'[e][j] = 1
                         \/ \E u \in Counted(e)' : phase'[u] = "subscribing" /\ KeyOf[u] = j
            <4>1. sdkSubscribed'[e] = keys
                BY <1>1, <2>1 DEF ClientTypes
            <4>2. CASE phase[t] = "subscribing" /\ j = k
                <5>1. callbacks[e][j] = 0 /\ j \notin keys
                    BY <4>2 DEF AskedOnce
                <5>2. \A u \in Counted(e) \ {t} : ~(phase[u] = "subscribing" /\ KeyOf[u] = j)
                    BY <4>2 DEF AskedOnce, Counted
                <5> QED
                    BY <1>2, <2>3, <2>4, <4>1, <5>1, <5>2 DEF Counted
            <4>3. CASE ~(phase[t] = "subscribing" /\ j = k)
                <5>1. j \in keys <=> j \in sdkSubscribed[e]
                    BY <4>3
                <5>2. (\E u \in Counted(e)' : phase'[u] = "subscribing" /\ KeyOf[u] = j)
                      <=> \E u \in Counted(e) : phase[u] = "subscribing" /\ KeyOf[u] = j
                    BY <2>3, <2>4, <4>3 DEF Counted
                <5> QED
                    BY <1>1, <1>2, <4>1, <5>1, <5>2 DEF MarksMatchTheSdk
            <4> QED
                BY <4>2, <4>3
        <3> QED
            BY <1>4, <2>1, <3>1 DEF MarksMatchTheSdk
    <2> QED
        BY <2>1, <2>6, <2>7, <2>8, <2>9, <2>10, <2>11, <2>12
<1> QED
    BY <1>7, <1>8

\* The client of an entry is gone, and its callbacks with it.
LEMMA DisconnectedInv ==
    ASSUME ClientsInv, NEW t \in Triggers, Disconnected(t)
    PROVE  /\ ClientsInv'
           /\ \A f \in Entries : client[f] = "up" => client'[f] = "up"
<1> USE DEF ClientsInv
<1> PICK e : e = mine[t]
    OBVIOUS
<1>1. /\ phase[t] = "closing"
      /\ client' = [client EXCEPT ![e] = "down"]
      /\ callbacks' = [callbacks EXCEPT ![e] = [j \in Keys |-> 0]]
      /\ phase' = [phase EXCEPT ![t] = "idle"]
      /\ UNCHANGED <<live, made, handlers, sdkSubscribed, refCount, mine, activations>>
    BY DEF Disconnected
<1>2. e \in Entries /\ client[e] = "closing"
    BY <1>1 DEF ClientsServe
<1>3. ClientTypes'
    BY <1>1, <1>2 DEF ClientTypes, ClientStates, Phases
<1>4. phase'[t] = "idle" /\ \A u \in Triggers : u # t => phase'[u] = phase[u]
    BY <1>1 DEF ClientTypes
<1>5. client'[e] = "down" /\ \A f \in Entries : f # e => client'[f] = client[f]
    BY <1>1, <1>2 DEF ClientTypes
<1>6. \A f \in Entries : f # e => callbacks'[f] = callbacks[f]
    BY <1>1 DEF ClientTypes
<1>7. \A u \in Triggers : u # t /\ phase[u] # "idle" => mine[u] # e /\ mine[u] \in Entries
    BY <1>1, <1>2 DEF ClientsServe, OneCloses, ClientTypes, Phases
<1>8. \A f : Counted(f)' = Counted(f)
    BY <1>1, <1>4 DEF Counted
<1>9. CountsExact'
    BY <1>1, <1>8 DEF CountsExact
<1>10. ClientsServe'
    <2>1. ASSUME NEW u \in Triggers
          PROVE  /\ phase'[u] # "idle" => mine[u] \in Entries
                 /\ phase'[u] = "connecting" => client'[mine[u]] \in {"connecting", "up"}
                 /\ phase'[u] \in {"subscribing", "active"} => client'[mine[u]] = "up"
                 /\ phase'[u] = "closing" => client'[mine[u]] = "closing"
        BY <1>4, <1>5, <1>7 DEF ClientsServe
    <2>2. ASSUME NEW f \in Entries
          PROVE  /\ client'[f] \in {"connecting", "up"} => live = f /\ Counted(f) # {}
                 /\ live = f => client'[f] \in {"none", "connecting", "up"}
                 /\ f > made => client'[f] = "none"
        BY <1>2, <1>5 DEF ClientsServe
    <2> QED
        BY <1>1, <1>8, <2>1, <2>2 DEF ClientsServe
<1>11. OneCloses'
    BY <1>1, <1>4 DEF OneCloses
<1>12. HandlersUse'
    BY <1>1, <1>4 DEF HandlersUse, ClientTypes
<1>13. AskedOnce'
    BY <1>1, <1>4, <1>5, <1>6, <1>7 DEF AskedOnce
<1>14. MarksMatchTheSdk'
    <2>1. ASSUME NEW f \in Entries, client'[f] = "up", NEW j \in Keys
          PROVE  j \in sdkSubscribed[f]
                 <=> callbacks'[f][j] = 1
                     \/ \E u \in Counted(f) : phase'[u] = "subscribing" /\ KeyOf[u] = j
        <3>1. f # e /\ client[f] = "up"
            BY <1>5, <2>1
        <3>2. \A u \in Counted(f) : phase'[u] = phase[u]
            BY <1>4, <1>1 DEF Counted
        <3> QED
            BY <1>6, <3>1, <3>2 DEF MarksMatchTheSdk
    <2> QED
        BY <1>1, <1>8, <2>1 DEF MarksMatchTheSdk
<1> QED
    BY <1>2, <1>3, <1>5, <1>9, <1>10, <1>11, <1>12, <1>13, <1>14

-----------------------------------------------------------------------------
\* Every step keeps the invariant, and takes a client away from nobody.
LEMMA ClientsStep ==
    ASSUME ClientsInv, Next
    PROVE  /\ ClientsInv'
           /\ \A f \in Entries : client[f] = "up" /\ client'[f] # "up" => Counted(f)' = {}
<1>1. ASSUME NEW t \in Triggers, Subscribe(t)
      PROVE  \A f \in Entries : client[f] = "up" => client'[f] = "up"
    BY <1>1 DEF Subscribe, ClientsInv, ClientTypes
<1>2. ASSUME NEW e \in Entries, ConnectResolves(e) \/ ConnectRejects(e)
      PROVE  \A f \in Entries : client[f] = "up" => client'[f] = "up"
    BY <1>2 DEF ConnectResolves, ConnectRejects, ClientsInv, ClientTypes
<1>3. ASSUME NEW t \in Triggers, Join(t) \/ SdkAccepts(t)
      PROVE  client' = client
    BY <1>3 DEF Join, SdkAccepts
<1>4. ASSUME NEW t \in Triggers, Subscribe(t) \/ Join(t) \/ SdkAccepts(t)
      PROVE  ClientsInv'
    BY <1>4, SubscribeInv, JoinInv, SdkAcceptsInv
<1>5. ASSUME NEW e \in Entries, ConnectResolves(e) \/ ConnectRejects(e)
      PROVE  ClientsInv'
    BY <1>5, ConnectResolvesInv, ConnectRejectsInv
<1>6. ASSUME NEW t \in Triggers, SdkRefuses(t) \/ Unsubscribe(t)
      PROVE  /\ ClientsInv'
             /\ \A f \in Entries : client[f] = "up" /\ client'[f] # "up" => Counted(f)' = {}
    BY <1>6, LeaveInv DEF SdkRefuses, Unsubscribe
<1> QED
    BY <1>1, <1>2, <1>3, <1>4, <1>5, <1>6, DisconnectedInv DEF Next

\* The invariant holds throughout.
THEOREM ClientsInvariant == Spec => []ClientsInv
<1>1. ClientsInv /\ UNCHANGED vars => ClientsInv'
    BY DEF ClientsInv, ClientTypes, CountsExact, ClientsServe, OneCloses, HandlersUse,
           AskedOnce, MarksMatchTheSdk, Counted, vars, entryVars
<1>2. ClientsInv /\ [Next]_vars => ClientsInv'
    BY <1>1, ClientsStep
<1> QED
    BY <1>2, ClientsInit, PTL DEF Spec

\* The types of the module, and the count that every entry keeps of its users: it comes out
\* right whichever of the connects and the SDK's calls failed.
THEOREM CountsHold == Spec => []CountsMatchUsers
<1>1. ASSUME ClientsInv PROVE CountsMatchUsers
    <2> USE <1>1 DEF ClientsInv
    <2>1. ASSUME NEW e \in Entries
          PROVE  /\ refCount[e] = Cardinality(Counted(e))
                 /\ refCount[e] \in 0..Cardinality(Triggers)
        BY CountedFinite DEF CountsExact
    <2>2. refCount \in [Entries -> 0..Cardinality(Triggers)]
        BY <2>1 DEF ClientTypes
    <2>3. CloudTypeOK
        <3>1. 0..made \subseteq Entries \cup {0}
            BY DEF ClientTypes
        <3>2. ASSUME NEW e \in Entries PROVE callbacks[e] \in [Keys -> 0..MaxActivations]
            <4>1. callbacks[e] \in [Keys -> {0, 1}]
                BY DEF ClientTypes
            <4>2. {0, 1} \subseteq 0..MaxActivations
                OBVIOUS
            <4> QED
                BY <4>1, <4>2
        <3>3. callbacks \in [Entries -> [Keys -> 0..MaxActivations]]
            BY <3>2 DEF ClientTypes
        <3>4. live \in Entries \cup {0} /\ made \in Entries \cup {0}
            BY DEF ClientTypes
        <3>5. mine \in [Triggers -> Entries \cup {0}]
            BY <3>1 DEF ClientTypes
        <3> QED
            BY <2>2, <3>3, <3>4, <3>5 DEF CloudTypeOK, ClientTypes
    <2>4. ASSUME NEW e \in Entries, client[e] \in {"connecting", "up"}
          PROVE  refCount[e] > 0 /\ live = e
        <3>1. live = e /\ Counted(e) # {}
            BY <2>4 DEF ClientsServe
        <3> QED
            BY <2>1, <3>1, CountedFinite, FS_EmptySet, FS_CardinalityType
    <2> QED
        BY <2>1, <2>3, <2>4 DEF CountsMatchUsers
<1> QED
    BY <1>1, ClientsInvariant, PTL

\* No mark without a callback and no callback without a mark, after any number of
\* refused and repeated subscribes.
THEOREM MarksHold == Spec => []MarksMatchTheSdk
BY ClientsInvariant, PTL DEF ClientsInv

\* A value is emitted once at most by each trigger, and by none that is not subscribed.
THEOREM EmitsOnce == Spec => []EmitsAtMostOnce
<1>1. ASSUME ClientsInv, NEW t \in Triggers
      PROVE  Emissions(t) <= IF phase[t] \in {"subscribing", "active"} THEN 1 ELSE 0
    <2> USE <1>1 DEF ClientsInv
    <2>1. Emitters(t) \subseteq {<<mine[t], 1>>}
        <3>1. ASSUME NEW c \in Emitters(t) PROVE c = <<mine[t], 1>>
            <4>1. /\ c \in Entries \X (1..MaxActivations)
                  /\ t \in handlers[c[1]][KeyOf[t]] /\ c[2] <= callbacks[c[1]][KeyOf[t]]
                BY <3>1 DEF Emitters
            <4>2. c[1] = mine[t]
                BY <4>1 DEF HandlersUse
            <4>3. callbacks[c[1]][KeyOf[t]] \in {0, 1}
                BY <4>1 DEF ClientTypes
            <4> QED
                BY <4>1, <4>2, <4>3
        <3> QED
            BY <3>1
    <2>2. CASE phase[t] \in {"subscribing", "active"}
        <3> PICK x : x = <<mine[t], 1>>
            OBVIOUS
        <3>1. IsFiniteSet({x}) /\ Cardinality({x}) = 1
            BY FS_Singleton
        <3>2. Cardinality(Emitters(t)) <= Cardinality({x})
            BY <2>1, <3>1, FS_Subset
        <3> QED
            BY <2>2, <3>1, <3>2 DEF Emissions
    <2>3. CASE phase[t] \notin {"subscribing", "active"}
        <3>1. Emitters(t) = {}
            BY <2>3 DEF Emitters, HandlersUse
        <3> QED
            BY <2>3, <3>1, FS_EmptySet DEF Emissions
    <2> QED
        BY <2>2, <2>3
<1>2. ClientsInv => EmitsAtMostOnce
    BY <1>1 DEF EmitsAtMostOnce
<1> QED
    BY <1>2, ClientsInvariant, PTL

\* A client that was up goes down under no trigger.
THEOREM ClientsOutlive == Spec => ClientOutlivesItsUsers
<1>1. ClientsInv /\ [Next]_vars
      => [\A e \in Entries : client[e] = "up" /\ client'[e] # "up" => Counted(e)' = {}]_vars
    BY ClientsStep
<1> QED
    BY <1>1, ClientsInvariant, PTL DEF Spec, ClientOutlivesItsUsers

-----------------------------------------------------------------------------
(* A REST request: the invariant *)

\* The calls of a tick are numbered from 0; those of the last Window are all kept; in no
\* window, be it the one that ends now or another, are there more than MaxCalls.
CallsCounted ==
    /\ recorded \subseteq Call /\ counters \subseteq recorded /\ IsFiniteSet(recorded)
    /\ \A c \in recorded : c.at <= now /\ (c.at > now - Window => c \in counters)
    /\ \A c \in counters : c.nr < Cardinality({d \in counters : d.at = c.at})
    /\ Cardinality(Active) <= MaxCalls
    /\ \A from \in Int : Cardinality(Within(from)) <= MaxCalls

\* A refusal spoke of the calls that were active then, A; the first of them leaves the
\* window when it said, and no other call has been recorded since.
SpokeOf(i, A) ==
    /\ Active \subseteq A /\ Cardinality(A) <= MaxCalls
    /\ refusal[i].left = MaxCalls - Cardinality(A)
    /\ \E c \in A : refusal[i].until = c.at + Window

RefusalsHonest ==
    /\ refusal \in [Items -> [left : 0..MaxCalls, until : Nat] \cup {None}]
    /\ \A i \in Items : refusal[i] # None => \E A \in SUBSET counters : SpokeOf(i, A)

\* What the bucket has granted and what it holds come to its brim at most; who sleeps
\* does so until a token will be there.
BucketBalanced ==
    /\ credit \in -Slack..(Capacity * Period) /\ lastRefill \in 0..now
    /\ wakeAt # None => wakeAt = lastRefill + Period - credit /\ credit < Period
    /\ burst \in Nat /\ burst + Refilled <= Capacity * Period

\* Nobody is on the chain twice.
ChainExact ==
    /\ pc \in [Callers -> {"idle", "queued", "granted", "waiting", "sent"}]
    /\ chain \in Seq(Callers)
    /\ \A k \in 1..Len(chain) : pc[chain[k]] = "queued"
    /\ \A j, k \in 1..Len(chain) : chain[j] = chain[k] => j = k

\* A token is typed, and the fetch in flight was sent in the past.
TokenTimely ==
    /\ token # None => token \in [expiresAt : Nat, validUntil : Nat]
    /\ asked # None => asked \in 0..now

RestInv ==
    /\ now \in 0..MaxTime
    /\ CallsCounted /\ RefusalsHonest /\ BucketBalanced /\ ChainExact /\ TokenTimely

\* A set of natural numbers that is not empty has a least one.
LEMMA LeastNatural ==
    ASSUME NEW S \in SUBSET Nat, S # {}
    PROVE  \E x \in S : \A y \in S : x <= y
<1>1. PICK R : R = StrictSubsetOrdering(Nat)
    OBVIOUS
<1>2. PICK T : T = {0..(x - 1) : x \in S}
    OBVIOUS
<1>3. T \subseteq FiniteSubsetsOf(Nat) /\ T # {}
    <2>1. ASSUME NEW x \in S PROVE 0..(x - 1) \in FiniteSubsetsOf(Nat)
        BY FS_Interval DEF FiniteSubsetsOf
    <2> QED
        BY <1>2, <2>1
<1>4. IsWellFoundedOn(R, FiniteSubsetsOf(Nat))
    BY <1>1, FS_StrictSubsetOrderingWellFounded
<1>5. PICK A \in T : \A B \in T : ~(<<B, A>> \in R)
    BY <1>3, <1>4, WFMin
<1>6. PICK x \in S : A = 0..(x - 1)
    BY <1>2
<1>7. ASSUME NEW y \in S, y < x PROVE FALSE
    <2>1. 0..(y - 1) \in T
        BY <1>2
    <2>2. 0..(y - 1) \subseteq A /\ y \in A /\ y \notin 0..(y - 1)
        BY <1>6, <1>7
    <2>3. 0..(y - 1) \in SUBSET Nat /\ A \in SUBSET Nat
        BY <1>6
    <2>4. <<0..(y - 1), A>> \in R
        BY <1>1, <2>2, <2>3 DEF StrictSubsetOrdering
    <2> QED
        BY <1>5, <2>1, <2>4
<1> QED
    BY <1>7

USE WindowAssumption, CapAssumption, GuardAssumption, BucketAssumption, TokenAssumption,
    CallersAssumption DEF Max2, Min2

----------------------------------------------------------------------------
(* The gates *)

\* A part of the calls is finite, and so is its number.
LEMMA Parts ==
    ASSUME CallsCounted, NEW S \in SUBSET recorded
    PROVE  /\ IsFiniteSet(S) /\ Cardinality(S) \in Nat
           /\ \A T \in SUBSET S : Cardinality(T) <= Cardinality(S)
           /\ \A T \in SUBSET S : T # S => Cardinality(T) < Cardinality(S)
<1>1. IsFiniteSet(S)
    BY FS_Subset DEF CallsCounted
<1>2. ASSUME NEW T \in SUBSET S
      PROVE  /\ Cardinality(T) \in Nat /\ Cardinality(T) <= Cardinality(S)
             /\ Cardinality(S) = Cardinality(T) => S = T
    BY <1>1, FS_Subset, FS_CardinalityType
<1> QED
    BY <1>1, <1>2, FS_CardinalityType

\* The first of some calls is one of them.
LEMMA FirstIsOne ==
    ASSUME NEW calls \in SUBSET Call, calls # {}
    PROVE  \E c \in calls : First(calls) = c.at
<1>1. PICK S : S = {c.at : c \in calls}
    OBVIOUS
<1>2. S \in SUBSET Nat /\ S # {}
    BY <1>1 DEF Call
<1>3. PICK x \in S : \A y \in S : x <= y
    BY <1>2, LeastNatural
<1>4. \A c \in calls : x <= c.at
    BY <1>1, <1>3
<1>5. First(calls) \in S
    BY <1>1, <1>3, <1>4 DEF First
<1> QED
    BY <1>1, <1>5

\* A call that is recorded counts: its number is not taken.
LEMMA CallIsNew ==
    ASSUME RestInv, CapLeaves
    PROVE  ThisCall \in Call /\ ThisCall \notin recorded
<1>1. PICK S : S = {c \in counters : c.at = now}
    OBVIOUS
<1>2. S \subseteq Active /\ Active \subseteq recorded
    BY <1>1 DEF Active, RestInv, CallsCounted, Call
<1>3. Cardinality(S) \in Nat /\ Cardinality(Active) \in Nat /\ Cardinality(S) <= Cardinality(Active)
    BY <1>2, Parts DEF RestInv
<1>4. Cardinality(S) \in 0..(MaxCalls - 1)
    BY <1>3 DEF CapLeaves
<1>5. ThisCall = [at |-> now, nr |-> Cardinality(S)]
    BY <1>1 DEF ThisCall
<1>6. \A c \in counters : c.at = now => c.nr < Cardinality(S)
    BY <1>1 DEF RestInv, CallsCounted
<1>7. ThisCall \notin counters /\ ThisCall.at = now
    BY <1>3, <1>5, <1>6
<1>8. \A c \in recorded : c.at = now => c \in counters
    BY DEF RestInv, CallsCounted
<1> QED
    BY <1>3, <1>4, <1>5, <1>7, <1>8 DEF RestInv, Call

\* Both gates let an item pass: of the calls in any window, one more is recorded.
LEMMA PassedCounts ==
    ASSUME RestInv, NEW i \in Items, Passed(i), now' = now
    PROVE  CallsCounted' /\ RefusalsHonest'
<1>1. PICK x : x = ThisCall
    OBVIOUS
<1>2. /\ CapLeaves /\ counters' = Kept \cup {x} /\ recorded' = recorded \cup {x}
      /\ refusal' = [j \in Items |-> None]
    BY <1>1 DEF Passed
<1>3. x \in Call /\ x \notin recorded /\ x.at = now
    BY <1>1, <1>2, CallIsNew DEF ThisCall
<1>4. /\ now \in Nat /\ CallsCounted
      /\ Kept \subseteq counters /\ Active \subseteq Kept /\ counters \subseteq recorded
      /\ \A c \in counters : c \notin Kept => c.at # now
    BY DEF Kept, Active, RestInv, CallsCounted, Call
<1>5. /\ recorded' \subseteq Call /\ counters' \subseteq recorded' /\ IsFiniteSet(recorded')
      /\ \A c \in recorded' : c.at <= now /\ (c.at > now - Window => c \in counters')
    <2>1. recorded' \subseteq Call /\ counters' \subseteq recorded' /\ IsFiniteSet(recorded')
        BY <1>2, <1>3, <1>4, FS_AddElement DEF CallsCounted
    <2>2. ASSUME NEW c \in recorded', c # x
          PROVE  c.at <= now /\ (c.at > now - Window => c \in Active)
        BY <1>2, <2>2, <1>4 DEF CallsCounted, Active
    <2> QED
        BY <1>2, <1>3, <1>4, <2>1, <2>2
<1>6. ASSUME NEW c \in counters'
      PROVE  c.nr < Cardinality({d \in counters' : d.at = c.at})
    <2>1. PICK S : S = {d \in counters : d.at = now}
        OBVIOUS
    <2>2. S \in SUBSET recorded /\ IsFiniteSet(S) /\ Cardinality(S) \in Nat
        BY <1>4, <2>1, Parts
    <2>3. CASE c.at = now
        <3>1. {d \in counters' : d.at = now} = S \cup {x}
            BY <1>2, <1>3, <1>4, <2>1
        <3>2. Cardinality(S \cup {x}) = Cardinality(S) + 1
            BY <1>3, <2>2, FS_AddElement
        <3>3. c # x => c.nr < Cardinality(S) /\ c.nr \in Nat
            BY <1>2, <1>4, <2>1, <2>3 DEF CallsCounted, Call
        <3>4. x.nr = Cardinality(S)
            BY <1>1, <2>1 DEF ThisCall
        <3>5. c.nr < Cardinality(S) + 1
            BY <2>2, <3>3, <3>4 DEF CallsCounted
        <3>6. {d \in counters' : d.at = c.at} = {d \in counters' : d.at = now}
            BY <2>3
        <3>7. Cardinality({d \in counters' : d.at = c.at}) = Cardinality(S) + 1
            BY <3>1, <3>2, <3>6
        <3> QED
            BY <1>4, <2>3, <3>5, <3>7
    <2>4. CASE c.at # now
        <3>1. c \in Kept /\ c \in counters
            BY <1>2, <1>3, <1>4, <2>4
        <3>2. {d \in counters' : d.at = c.at} = {d \in counters : d.at = c.at}
            BY <1>2, <1>3, <2>4, <3>1 DEF Kept
        <3> QED
            BY <1>4, <3>1, <3>2 DEF CallsCounted
    <2> QED
        BY <2>3, <2>4
<1>7. ASSUME NEW S \in SUBSET Active
      PROVE  Cardinality(S \cup {x}) <= MaxCalls
    <2>1. IsFiniteSet(S) /\ Cardinality(S) \in Nat /\ Cardinality(S) < MaxCalls
        <3>1. Active \in SUBSET recorded /\ S \in SUBSET recorded
            BY <1>4
        <3>2. Cardinality(Active) \in Nat /\ Cardinality(S) <= Cardinality(Active)
            BY <1>4, <3>1, Parts
        <3> QED
            BY <1>2, <1>4, <3>1, <3>2, Parts DEF CapLeaves
    <2>2. Cardinality(S \cup {x}) \in {Cardinality(S), Cardinality(S) + 1}
        BY <2>1, FS_AddElement
    <2> QED
        BY <2>1, <2>2
<1>8. Active' = Active \cup {x}
    BY <1>2, <1>3, <1>4 DEF Active, Kept
<1>9. ASSUME NEW from \in Int
      PROVE  Cardinality(Within(from)') <= MaxCalls
    <2>1. CASE now \in from..(from + Window - 1)
        <3>1. Within(from) \subseteq Active
            BY <1>4, <2>1 DEF Within, Active, CallsCounted, Call
        <3>2. Within(from)' = Within(from) \cup {x}
            BY <1>2, <1>3, <2>1 DEF Within
        <3> QED
            BY <1>7, <3>1, <3>2
    <2>2. CASE now \notin from..(from + Window - 1)
        <3>1. Within(from)' = Within(from)
            BY <1>2, <1>3, <2>2 DEF Within
        <3> QED
            BY <1>4, <3>1 DEF CallsCounted
    <2> QED
        BY <2>1, <2>2
<1>10. CallsCounted'
    BY <1>5, <1>6, <1>7, <1>8, <1>9 DEF CallsCounted
<1>11. RefusalsHonest'
    BY <1>2 DEF RefusalsHonest
<1> QED
    BY <1>10, <1>11

\* An item is refused: there are calls that are active.
LEMMA RefusedCounts ==
    ASSUME RestInv, NEW i \in Items, Refused(i), now' = now
    PROVE  CallsCounted' /\ RefusalsHonest'
<1>1. /\ counters' = counters /\ recorded' = recorded
      /\ refusal' = [refusal EXCEPT ![i] = [left |-> Remaining, until |-> now + ResetsIn]]
      /\ Active' = Active
    BY DEF Refused, Active
<1>2. CallsCounted'
    BY <1>1 DEF RestInv, CallsCounted, Within
<1>3. /\ Active \in SUBSET counters /\ Active \in SUBSET Call /\ IsFiniteSet(Active)
      /\ Cardinality(Active) \in 0..MaxCalls /\ now \in Nat
    <2>1. CallsCounted /\ now \in Nat
        BY DEF RestInv
    <2>2. Active \in SUBSET counters /\ counters \subseteq recorded
        BY <2>1 DEF Active, CallsCounted
    <2> QED
        BY <2>1, <2>2, Parts DEF CallsCounted
<1>4. Active # {} /\ Remaining = MaxCalls - Cardinality(Active)
    <2>1. Cardinality({}) = 0
        BY FS_EmptySet
    <2>2. Remaining = MaxCalls - Cardinality(Active)
        BY <1>3 DEF Remaining
    <2>3. CASE Active = {}
        <3>1. Cardinality(Active) = 0
            BY <2>1, <2>3
        <3> QED
            BY <2>2, <3>1 DEF Refused, CapLeaves, GuardAllows
    <2> QED
        BY <2>2, <2>3
<1>5. PICK c \in Active : First(Active) = c.at
    BY <1>3, <1>4, FirstIsOne
<1>6. now + ResetsIn = c.at + Window /\ now + ResetsIn \in Nat
    BY <1>3, <1>5 DEF ResetsIn, Active, Call
<1>7. /\ refusal'[i] = [left |-> MaxCalls - Cardinality(Active), until |-> c.at + Window]
      /\ refusal' \in [Items -> [left : 0..MaxCalls, until : Nat] \cup {None}]
      /\ \A j \in Items : j # i => refusal'[j] = refusal[j]
    BY <1>1, <1>3, <1>4, <1>6 DEF RestInv, RefusalsHonest
<1>8. ASSUME NEW j \in Items, refusal'[j] # None
      PROVE  \E A \in SUBSET counters : SpokeOf(j, A)'
    <2>1. CASE j = i
        <3>1. PICK A : A = Active
            OBVIOUS
        <3>2. SpokeOf(i, A)'
            BY <1>1, <1>3, <1>5, <1>7, <3>1 DEF SpokeOf
        <3> QED
            BY <1>1, <1>3, <2>1, <3>1, <3>2
    <2>2. CASE j # i
        <3>1. PICK A \in SUBSET counters : SpokeOf(j, A)
            BY <1>7, <1>8, <2>2 DEF RestInv, RefusalsHonest
        <3>2. SpokeOf(j, A)'
            BY <1>1, <1>7, <2>2, <3>1 DEF SpokeOf
        <3> QED
            BY <3>2
    <2> QED
        BY <2>1, <2>2
<1> QED
    BY <1>1, <1>2, <1>7, <1>8 DEF RefusalsHonest

\* As long as no item passes or is refused, calls only leave the window.
LEMMA GatesAside ==
    ASSUME RestInv, UNCHANGED gateVars, now' \in Nat, now <= now'
    PROVE  CallsCounted' /\ RefusalsHonest'
<1>1. counters' = counters /\ recorded' = recorded /\ refusal' = refusal
    BY DEF gateVars
<1>2. Active' \subseteq Active /\ Active \in SUBSET recorded
    BY <1>1 DEF Active, RestInv, CallsCounted, Call
<1>3. Cardinality(Active) \in Nat /\ Cardinality(Active') \in Nat /\ Cardinality(Active') <= Cardinality(Active)
    <2>1. Active' \in SUBSET recorded
        BY <1>2
    <2> QED
        BY <1>2, <2>1, Parts DEF RestInv
<1>4. CallsCounted'
    <2>1. \A c \in recorded : c.at <= now' /\ (c.at > now' - Window => c \in counters)
        BY DEF RestInv, CallsCounted, Call
    <2> QED
        BY <1>1, <1>3, <2>1 DEF RestInv, CallsCounted, Within
<1>5. RefusalsHonest'
    <2>1. ASSUME NEW i \in Items, NEW A, SpokeOf(i, A) PROVE SpokeOf(i, A)'
        BY <1>1, <1>2, <2>1 DEF SpokeOf
    <2> QED
        BY <1>1, <2>1 DEF RestInv, RefusalsHonest
<1> QED
    BY <1>4, <1>5

----------------------------------------------------------------------------
(* The token bucket *)

\* The brim is a number of ticks, and as much as a token at least.
LEMMA Brim == Capacity * Period \in Nat /\ Capacity * Period >= Period
<1>1. \A a, b \in Nat \ {0} : a * b \in Nat /\ a * b >= b
    OBVIOUS
<1> QED
    BY <1>1

\* What the bucket holds is at most its brim, and owes what a timer was early.
LEMMA RefilledType ==
    ASSUME RestInv
    PROVE  Refilled \in -Slack..(Capacity * Period)
<1>1. PICK brim \in Nat : brim = Capacity * Period
    BY Brim
<1> QED
    BY <1>1 DEF RestInv, BucketBalanced, Refilled

\* As long as no time passes and no link starts or ends, the bucket stays.
LEMMA BucketAside ==
    ASSUME RestInv, UNCHANGED <<now, credit, lastRefill, wakeAt, burst>>
    PROVE  BucketBalanced'
BY DEF RestInv, BucketBalanced, Refilled

\* A link takes a token, from a bucket that a timer may have been early for.
LEMMA TakeBalances ==
    ASSUME RestInv, NEW c \in Callers, Take(c), lastRefill' = now, now' = now,
           Refilled >= Period - Slack
    PROVE  BucketBalanced'
<1>1. PICK brim \in Nat : brim = Capacity * Period /\ brim >= Period
    BY Brim
<1>2. PICK r : r = Refilled
    OBVIOUS
<1>3. r \in -Slack..brim /\ r >= Period - Slack
    BY <1>1, <1>2, RefilledType
<1>4. credit' = r - Period /\ wakeAt' = None /\ burst' = burst + Period
    BY <1>2 DEF Take
<1>5. burst \in Nat /\ burst + r <= brim /\ now \in Nat
    BY <1>1, <1>2 DEF RestInv, BucketBalanced
<1>6. Refilled' = credit'
    BY <1>5 DEF Refilled
<1>7. credit' \in -Slack..brim /\ burst' \in Nat /\ burst' + credit' <= brim /\ lastRefill' \in 0..now'
    BY <1>3, <1>4, <1>5
<1> QED
    BY <1>1, <1>4, <1>6, <1>7 DEF BucketBalanced

\* A link starts: it takes a token, or sleeps until one is there.
LEMMA StartBalances ==
    ASSUME RestInv, NEW c \in Callers, StartLink(c)
    PROVE  BucketBalanced'
<1>1. now' = now /\ lastRefill' = now
    BY DEF StartLink
<1>2. PICK brim \in Nat : brim = Capacity * Period /\ brim >= Period
    BY Brim
<1>3. PICK r : r = Refilled
    OBVIOUS
<1>4. r \in -Slack..brim /\ now \in Nat /\ burst \in Nat /\ burst + r <= brim
    BY <1>2, <1>3, RefilledType DEF RestInv, BucketBalanced
<1>5. CASE r >= Period
    <2>1. Take(c)
        BY <1>3, <1>5 DEF StartLink
    <2> QED
        BY <1>1, <1>3, <1>4, <1>5, <2>1, TakeBalances
<1>6. CASE ~(r >= Period)
    <2>1. credit' = r /\ wakeAt' = now + (Period - r) /\ burst' = burst
        BY <1>3, <1>4, <1>6 DEF StartLink
    <2>2. Refilled' = r
        BY <1>1, <1>4, <2>1 DEF Refilled
    <2> QED
        BY <1>1, <1>2, <1>4, <1>6, <2>1, <2>2 DEF BucketBalanced
<1> QED
    BY <1>5, <1>6

\* A sleep is over when a token is there, or will be in at most Slack ticks.
LEMMA WakeBalances ==
    ASSUME RestInv, NEW c \in Callers, Wake(c)
    PROVE  BucketBalanced'
<1>1. /\ now' = now /\ lastRefill' = now /\ Take(c)
      /\ now >= lastRefill + Period - credit - Slack /\ credit < Period
    BY DEF Wake, RestInv, BucketBalanced
<1>2. PICK brim \in Nat : brim = Capacity * Period /\ brim >= Period
    BY Brim
<1>3. Refilled >= Period - Slack
    BY <1>1, <1>2 DEF Refilled, RestInv, BucketBalanced
<1> QED
    BY <1>1, <1>3, TakeBalances

\* A tick gives back as much as it refills.
LEMMA TickBalances ==
    ASSUME RestInv, Tick
    PROVE  BucketBalanced'
<1>1. /\ now' = now + 1 /\ burst' = Max2(0, burst - 1)
      /\ UNCHANGED <<credit, lastRefill, wakeAt>>
    BY DEF Tick, bucketVars
<1>2. PICK brim \in Nat : brim = Capacity * Period
    BY Brim
<1>3. /\ now \in Nat /\ burst \in Nat /\ credit \in -Slack..brim /\ lastRefill \in 0..now
      /\ burst + Refilled <= brim
    BY <1>2 DEF RestInv, BucketBalanced
<1>4. Refilled' \in -Slack..brim /\ Refilled' <= Refilled + 1
    BY <1>1, <1>2, <1>3 DEF Refilled
<1>5. Refilled \in -Slack..brim
    BY <1>2, RefilledType
<1>6. burst' \in Nat /\ burst' + Refilled' <= brim
    <2>1. \A a \in Nat : \A r, q \in Int :
            a + r <= brim /\ q <= r + 1 /\ q <= brim
            => Max2(0, a - 1) \in Nat /\ Max2(0, a - 1) + q <= brim
        OBVIOUS
    <2>2. Refilled \in Int /\ Refilled' \in Int /\ Refilled' <= brim
        BY <1>4, <1>5
    <2> QED
        BY <1>1, <1>3, <1>4, <2>1, <2>2
<1> QED
    BY <1>1, <1>2, <1>3, <1>6 DEF RestInv, BucketBalanced

----------------------------------------------------------------------------
(* The chain of callers *)

\* A caller gets into the chain at its end.
LEMMA JoinsChain ==
    ASSUME RestInv, NEW c \in Callers, pc[c] = "idle",
           pc' = [pc EXCEPT ![c] = "queued"], chain' = Append(chain, c)
    PROVE  ChainExact'
<1>1. \A k \in 1..Len(chain) : chain[k] \in Callers /\ chain[k] # c
    BY DEF RestInv, ChainExact
<1>2. /\ chain' \in Seq(Callers) /\ Len(chain) \in Nat /\ Len(chain') = Len(chain) + 1
      /\ \A k \in 1..Len(chain) : chain'[k] = chain[k]
      /\ chain'[Len(chain) + 1] = c
    BY DEF RestInv, ChainExact
<1>3. \A k \in 1..Len(chain') : k \in 1..Len(chain) \/ k = Len(chain) + 1
    BY <1>2
<1> QED
    BY <1>1, <1>2, <1>3 DEF RestInv, ChainExact

\* The first in the chain leaves it.
LEMMA LeavesChain ==
    ASSUME RestInv, NEW c \in Callers, chain # <<>>, c = Head(chain),
           pc' = [pc EXCEPT ![c] = "granted"], chain' = Tail(chain)
    PROVE  ChainExact'
<1>1. /\ chain' \in Seq(Callers) /\ Len(chain) \in Nat /\ Len(chain') = Len(chain) - 1
      /\ \A k \in 1..Len(chain') : chain'[k] = chain[k + 1]
      /\ Len(chain) >= 1 /\ c = chain[1]
    BY DEF RestInv, ChainExact
<1>2. \A k \in 1..Len(chain') : k + 1 \in 1..Len(chain) /\ chain'[k] # c
    BY <1>1 DEF RestInv, ChainExact
<1> QED
    BY <1>1, <1>2 DEF RestInv, ChainExact

\* Those who are not on the chain go on.
LEMMA ChainAside ==
    ASSUME RestInv, chain' = chain,
           pc' \in [Callers -> {"idle", "queued", "granted", "waiting", "sent"}],
           \A c \in Callers : pc[c] = "queued" => pc'[c] = "queued"
    PROVE  ChainExact'
<1>1. \A k \in 1..Len(chain) : chain[k] \in Callers
    BY DEF RestInv, ChainExact
<1> QED
    BY <1>1 DEF RestInv, ChainExact

----------------------------------------------------------------------------
(* The invariant *)

\* The cache and the gates stay as long as nothing touches them.
LEMMA TokenAside ==
    ASSUME RestInv, UNCHANGED <<now, tokenVars>>
    PROVE  TokenTimely'
BY DEF RestInv, TokenTimely, tokenVars

\* Nothing is recorded, refused, granted, queued, fetched or cached.
LEMMA RestInit_Inv == RestInit => RestInv
<1> SUFFICES ASSUME RestInit PROVE RestInv
    OBVIOUS
<1> USE DEF RestInit, GateInit
<1>1. Cardinality({}) = 0 /\ IsFiniteSet({})
    BY FS_EmptySet
<1>2. CallsCounted
    BY <1>1 DEF CallsCounted, Active, Within
<1>3. RefusalsHonest
    BY DEF RefusalsHonest
<1>4. BucketBalanced
    <2>1. PICK brim \in Nat : brim = Capacity * Period
        BY Brim
    <2> QED
        BY <2>1 DEF BucketBalanced, Refilled
<1>5. ChainExact
    BY DEF ChainExact
<1>6. TokenTimely
    BY DEF TokenTimely
<1> QED
    BY <1>2, <1>3, <1>4, <1>5, <1>6 DEF RestInv

\* Every step keeps the invariant.
LEMMA RestStep == RestInv /\ [RestNext]_restVars => RestInv'
<1> SUFFICES ASSUME RestInv, [RestNext]_restVars PROVE RestInv'
    OBVIOUS
<1>1. /\ now \in 0..MaxTime /\ Items \subseteq Callers /\ Lists \subseteq Callers
      /\ pc \in [Callers -> {"idle", "queued", "granted", "waiting", "sent"}]
    BY DEF RestInv, ChainExact, Callers
<1>2. ASSUME NEW i \in Items, Refuse(i)
      PROVE  RestInv'
    <2>1. Refused(i) /\ UNCHANGED <<now, pc, bucketVars, tokenVars>>
        BY <1>2 DEF Refuse
    <2>2. CallsCounted' /\ RefusalsHonest'
        BY <2>1, RefusedCounts
    <2> QED
        BY <1>1, <2>1, <2>2, BucketAside, ChainAside, TokenAside DEF RestInv, bucketVars
<1>3. ASSUME NEW i \in Items, Admit(i)
      PROVE  RestInv'
    <2>1. /\ pc[i] = "idle" /\ Passed(i)
          /\ pc' = [pc EXCEPT ![i] = "queued"] /\ chain' = Append(chain, i)
          /\ UNCHANGED <<now, credit, lastRefill, wakeAt, burst, tokenVars>>
        BY <1>3 DEF Admit
    <2>2. CallsCounted' /\ RefusalsHonest'
        BY <2>1, PassedCounts
    <2>3. ChainExact'
        BY <1>1, <2>1, JoinsChain
    <2> QED
        BY <1>1, <2>1, <2>2, <2>3, BucketAside, TokenAside DEF RestInv
<1>4. ASSUME NEW i \in Items, RecordInVain(i)
      PROVE  RestInv'
    <2>1. Passed(i) /\ UNCHANGED <<now, pc, bucketVars, tokenVars>>
        BY <1>4 DEF RecordInVain
    <2>2. CallsCounted' /\ RefusalsHonest'
        BY <2>1, PassedCounts
    <2> QED
        BY <1>1, <2>1, <2>2, BucketAside, ChainAside, TokenAside DEF RestInv, bucketVars
<1>5. ASSUME NEW l \in Lists, List(l)
      PROVE  RestInv'
    <2>1. /\ pc[l] = "idle"
          /\ pc' = [pc EXCEPT ![l] = "queued"] /\ chain' = Append(chain, l)
          /\ UNCHANGED <<now, credit, lastRefill, wakeAt, burst, gateVars, tokenVars>>
        BY <1>5 DEF List
    <2>2. ChainExact'
        BY <1>1, <2>1, JoinsChain
    <2> QED
        BY <1>1, <2>1, <2>2, GatesAside, BucketAside, TokenAside DEF RestInv
<1>6. ASSUME NEW c \in Callers, StartLink(c)
      PROVE  RestInv'
    <2>1. /\ chain # <<>> /\ c = Head(chain) /\ UNCHANGED <<now, gateVars, tokenVars>>
          /\ Take(c) \/ UNCHANGED <<chain, pc>>
        BY <1>6 DEF StartLink
    <2>2. ChainExact'
        BY <1>1, <2>1, LeavesChain, ChainAside DEF Take
    <2>3. BucketBalanced'
        BY <1>6, StartBalances
    <2> QED
        BY <1>1, <2>1, <2>2, <2>3, GatesAside, TokenAside DEF RestInv
<1>7. ASSUME NEW c \in Callers, Wake(c)
      PROVE  RestInv'
    <2>1. /\ chain # <<>> /\ c = Head(chain) /\ UNCHANGED <<now, gateVars, tokenVars>>
          /\ Take(c)
        BY <1>7 DEF Wake
    <2>2. ChainExact'
        BY <2>1, LeavesChain DEF Take
    <2>3. BucketBalanced'
        BY <1>7, WakeBalances
    <2> QED
        BY <1>1, <2>1, <2>2, <2>3, GatesAside, TokenAside DEF RestInv
<1>8. ASSUME UNCHANGED <<now, gateVars, bucketVars>>, TokenTimely',
             pc' \in [Callers -> {"idle", "queued", "granted", "waiting", "sent"}],
             \A c \in Callers : pc[c] = "queued" => pc'[c] = "queued"
      PROVE  RestInv'
    BY <1>1, <1>8, GatesAside, BucketAside, ChainAside DEF RestInv, bucketVars
<1>9. ASSUME NEW c \in Callers, UseCached(c) \/ Answered(c)
      PROVE  RestInv'
    <2>1. /\ pc' \in {[pc EXCEPT ![c] = "sent"], [pc EXCEPT ![c] = "idle"]}
          /\ pc[c] \in {"granted", "sent"}
          /\ UNCHANGED <<now, gateVars, bucketVars, tokenVars>>
        BY <1>9 DEF UseCached, Answered
    <2> QED
        BY <1>1, <1>8, <2>1, TokenAside
<1>10. ASSUME NEW c \in Callers, AwaitToken(c)
       PROVE  RestInv'
    <2>1. /\ pc' = [pc EXCEPT ![c] = "waiting"] /\ pc[c] = "granted"
          /\ asked' = IF asked = None THEN now ELSE asked
          /\ UNCHANGED <<now, gateVars, bucketVars, token>>
        BY <1>10 DEF AwaitToken
    <2>2. TokenTimely'
        BY <1>1, <2>1 DEF RestInv, TokenTimely
    <2> QED
        BY <1>1, <1>8, <2>1, <2>2
<1>11. ASSUME NEW minted \in 0..MaxTime, TokenArrives(minted)
       PROVE  RestInv'
    <2>1. /\ asked # None /\ minted \in asked..now
          /\ token' = [expiresAt |-> now + Lifetime, validUntil |-> minted + Lifetime]
          /\ asked' = None
          /\ pc' = [c \in Callers |-> IF pc[c] = "waiting" THEN "sent" ELSE pc[c]]
          /\ UNCHANGED <<now, gateVars, bucketVars>>
        BY <1>11 DEF TokenArrives
    <2>2. TokenTimely'
        BY <1>1, <2>1 DEF RestInv, TokenTimely
    <2> QED
        BY <1>1, <1>8, <2>1, <2>2
<1>12. ASSUME TokenFails
       PROVE  RestInv'
    <2>1. /\ asked' = None
          /\ pc' = [c \in Callers |-> IF pc[c] = "waiting" THEN "idle" ELSE pc[c]]
          /\ UNCHANGED <<now, gateVars, bucketVars, token>>
        BY <1>12 DEF TokenFails
    <2>2. TokenTimely'
        BY <2>1 DEF RestInv, TokenTimely
    <2> QED
        BY <1>1, <1>8, <2>1, <2>2
<1>13. ASSUME Tick
       PROVE  RestInv'
    <2>1. /\ now < MaxTime /\ now' = now + 1
          /\ UNCHANGED <<pc, gateVars, chain, tokenVars>>
        BY <1>13 DEF Tick
    <2>2. TokenTimely'
        BY <1>1, <2>1 DEF RestInv, TokenTimely, tokenVars
    <2>3. BucketBalanced'
        BY <1>13, TickBalances
    <2>4. now' \in 0..MaxTime
        BY <1>1, <2>1
    <2> QED
        BY <1>1, <2>1, <2>2, <2>3, <2>4, GatesAside, ChainAside DEF RestInv
<1>14. CASE UNCHANGED restVars
    BY <1>1, <1>8, <1>14, TokenAside DEF restVars
<1> QED
    BY <1>2, <1>3, <1>4, <1>5, <1>6, <1>7, <1>9, <1>10, <1>11, <1>12, <1>13, <1>14 DEF RestNext

\* The gates count every call, the bucket balances, the chain is exact, the token is typed.
THEOREM RestInvariant == RestSpec => []RestInv
BY RestInit_Inv, RestStep, PTL DEF RestSpec

\* In no window are there more than MaxCalls calls, whichever of them it starts with.
THEOREM CapHolds == RestSpec => []WindowCap
<1>1. RestInv => WindowCap
    BY DEF RestInv, CallsCounted, Call, WindowCap
<1> QED
    BY <1>1, RestInvariant, PTL

\* An item that was refused finds more calls free than it was told of, when one was to be:
\* the first of those that it was told of has left the window, and none has come.
THEOREM RefusalsAreHonest == RestSpec => []RetryIsHonest
<1>1. ASSUME RestInv, NEW i \in Items, refusal[i] # None, now >= refusal[i].until
      PROVE  Remaining > refusal[i].left
    <2>1. PICK A \in SUBSET counters : SpokeOf(i, A)
        BY <1>1 DEF RestInv, RefusalsHonest
    <2>2. PICK c \in A : refusal[i].until = c.at + Window
        BY <2>1 DEF SpokeOf
    <2>3. /\ CallsCounted /\ now \in Nat /\ A \in SUBSET recorded /\ Active \in SUBSET A
          /\ c.at \in Nat
        BY <1>1, <2>1 DEF RestInv, CallsCounted, SpokeOf, Call
    <2>4. c \notin Active
        BY <1>1, <2>2, <2>3 DEF Active
    <2>5. /\ Cardinality(Active) \in Nat /\ Cardinality(A) \in Nat
          /\ Cardinality(Active) < Cardinality(A)
        BY <2>3, <2>4, Parts
    <2> QED
        BY <2>1, <2>5 DEF SpokeOf, Remaining
<1>2. RestInv => RetryIsHonest
    BY <1>1 DEF RetryIsHonest
<1> QED
    BY <1>2, RestInvariant, PTL

\* The chain is never longer than there are callers.
LEMMA ChainIsShort ==
    ASSUME RestInv
    PROVE  Len(chain) <= Cardinality(Callers)
<1>1. Len(chain) \in Nat /\ chain \in [1..Len(chain) -> Callers]
    BY DEF RestInv, ChainExact
<1>2. chain \in Injection(1..Len(chain), Callers)
    BY <1>1 DEF Injection, IsInjective, RestInv, ChainExact
<1>3. IsFiniteSet(Callers)
    BY DEF Callers
<1>4. Cardinality(1..Len(chain)) <= Cardinality(Callers)
    BY <1>2, <1>3, FS_Injection
<1>5. Cardinality(1..Len(chain)) = Len(chain)
    BY <1>1, FS_Interval
<1> QED
    BY <1>4, <1>5

\* Over any stretch of time the bucket grants what it holds at its brim, what refills it in
\* that time, and what one timer is early, at most; the state is of its type.
THEOREM BudgetKept == RestSpec => []ThrottleBound
<1>1. ASSUME RestInv PROVE ThrottleBound
    <2>1. PICK brim \in Nat : brim = Capacity * Period
        BY Brim
    <2>2. Refilled \in -Slack..brim
        BY <1>1, <2>1, RefilledType
    <2>3. burst <= brim + Slack
        BY <1>1, <2>1, <2>2 DEF RestInv, BucketBalanced
    <2>4. counters \subseteq Call /\ recorded \subseteq Call /\ now \in 0..MaxTime
        BY <1>1 DEF RestInv, CallsCounted
    <2>5. \A i \in Items : refusal[i] = None \/ refusal[i] \in [left : 0..MaxCalls, until : Nat]
        BY <1>1 DEF RestInv, RefusalsHonest
    <2>6. /\ credit \in -Slack..brim /\ lastRefill \in 0..MaxTime /\ burst \in Nat
          /\ wakeAt \in 0..(MaxTime + Period + Slack) \cup {None}
        BY <1>1, <2>1 DEF RestInv, BucketBalanced
    <2>7. asked \in 0..MaxTime \cup {None}
        BY <1>1 DEF RestInv, TokenTimely
    <2>8. Len(chain) <= Cardinality(Callers)
        BY <1>1, ChainIsShort
    <2> QED
        BY <1>1, <2>1, <2>3, <2>4, <2>5, <2>6, <2>7, <2>8
        DEF RestInv, ChainExact, TokenTimely, ThrottleBound, RestTypeOK
<1> QED
    BY <1>1, RestInvariant, PTL

\* A request is sent while the server takes its token, when that was within the margin
\* on its way; no bound is put on how long a token may be.
THEOREM TokensValid == RestSpec => TokenValidAtSend
<1>1. RestInv /\ [RestNext]_restVars
      => [\A c \in Callers : Sends(c) /\ token'.expiresAt - token'.validUntil <= Margin
                              => now < token'.validUntil]_restVars
    <2> SUFFICES ASSUME RestInv, RestNext, NEW c \in Callers, pc[c] # "sent", pc'[c] = "sent",
                        token'.expiresAt - token'.validUntil <= Margin
                 PROVE  now < token'.validUntil
        BY DEF Sends
    <2>1. pc \in [Callers -> {"idle", "queued", "granted", "waiting", "sent"}] /\ now \in Nat
        BY DEF RestInv, ChainExact
    <2>2. ASSUME NEW d \in Callers, UseCached(d)
          PROVE  now < token'.validUntil
        BY <2>1, <2>2 DEF UseCached, Fresh, RestInv, TokenTimely, tokenVars
    <2>3. ASSUME NEW minted \in 0..MaxTime, TokenArrives(minted)
          PROVE  now < token'.validUntil
        BY <2>1, <2>3 DEF TokenArrives, RestInv, TokenTimely
    <2>4. ASSUME pc' = pc \/ \E d \in Callers :
                   \E p \in {"idle", "queued", "granted", "waiting"} : pc' = [pc EXCEPT ![d] = p]
          PROVE  FALSE
        BY <2>1, <2>4
    <2>5. \A i \in Items : Refuse(i) \/ RecordInVain(i) => pc' = pc
        BY DEF Refuse, RecordInVain
    <2>6. \A i \in Items : Admit(i) => pc' = [pc EXCEPT ![i] = "queued"]
        BY DEF Admit
    <2>7. \A l \in Lists : List(l) => pc' = [pc EXCEPT ![l] = "queued"]
        BY DEF List
    <2>8. \A d \in Callers : StartLink(d) \/ Wake(d)
                            => pc' = pc \/ pc' = [pc EXCEPT ![d] = "granted"]
        BY DEF StartLink, Wake, Take
    <2>9. \A d \in Callers : /\ AwaitToken(d) => pc' = [pc EXCEPT ![d] = "waiting"]
                             /\ Answered(d) => pc' = [pc EXCEPT ![d] = "idle"]
        BY DEF AwaitToken, Answered
    <2>10. ~TokenFails
        BY <2>1 DEF TokenFails
    <2>11. Tick => pc' = pc
        BY DEF Tick
    <2> QED
        BY <2>2, <2>3, <2>4, <2>5, <2>6, <2>7, <2>8, <2>9, <2>10, <2>11 DEF RestNext, Callers
<1> QED
    BY <1>1, RestInvariant, PTL DEF RestSpec, TokenValidAtSend
================================================================================
