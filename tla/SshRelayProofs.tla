----------------------------- MODULE SshRelayProofs -----------------------------
(***************************************************************************)
(* Registry, waiters and channels of the SSH relay are exact, for any      *)
(* number of devices, connections and Bridges.                             *)
(***************************************************************************)
EXTENDS SshRelay, TLAPS

\* Who is past authentication has a nickname.
Named ==
    \A c \in Clients :
        client[c] \in {"authenticated", "forwarding", "ending"} => nick[c] \in Nicks

\* The inductive invariant.  Each of the three properties needs the others: a
\* waiter is not connected, so that the end of a client does not take it out of
\* "waiting", and a channel goes through a client whose nickname is settled.
RelayInv ==
    /\ RelayTypeOK
    /\ Named
    /\ RegistryIsExact
    /\ WaitersAreExact
    /\ ChannelToOwnDevice

USE RelayAssumption

LEMMA InitInv == ASSUME Init PROVE RelayInv
<1> USE DEF Init
<1>1. RelayTypeOK BY DEF RelayTypeOK, ClientPhases, DialerPhases
<1>2. Named /\ RegistryIsExact BY DEF Named, RegistryIsExact
<1>3. WaitersAreExact BY DEF WaitersAreExact
<1>4. ChannelToOwnDevice BY DEF ChannelToOwnDevice
<1> QED BY <1>1, <1>2, <1>3, <1>4 DEF RelayInv

\* The steps of listen(), and those in which a Bridge comes or goes, touch no
\* client, no list and no channel.
LEMMA BootInv ==
    ASSUME RelayInv, NEW d \in Dialers,
           ListenAgain(d) \/ Listen(d) \/ Bound(d) \/ BindFails(d) \/ AskAgain(d) \/ Drop(d)
    PROVE  RelayInv'
<1> USE DEF RelayInv, clientVars, relayVars, serverVars
<1>1. UNCHANGED <<client, nick, old, registry, waiters, via>>
  BY DEF ListenAgain, Listen, Bound, BindFails, AskAgain, Drop
<1>2. /\ phase[d] \in {"new", "binding", "refused", "ready"}
      /\ \E now \in {"new", "binding", "refused", "ready"} :
            phase' = [phase EXCEPT ![d] = now]
  <2>1. CASE ListenAgain(d) BY <2>1 DEF ListenAgain
  <2>2. CASE Listen(d) \/ Bound(d) BY <2>2 DEF Listen, Bound
  <2>3. CASE BindFails(d) \/ AskAgain(d) \/ Drop(d) BY <2>3 DEF BindFails, AskAgain, Drop
  <2> QED BY <2>1, <2>2, <2>3
<1>3. RelayTypeOK'
  <2>1. CASE ListenAgain(d) \/ BindFails(d) \/ AskAgain(d) \/ Drop(d)
    <3>1. UNCHANGED <<server, config, port, closing>>
      BY <2>1 DEF ListenAgain, BindFails, AskAgain, Drop
    <3> QED BY <1>1, <1>2, <3>1 DEF RelayTypeOK, DialerPhases
  <2>2. CASE Listen(d)
    BY <1>1, <1>2, <2>2 DEF RelayTypeOK, DialerPhases, Listen
  <2>3. CASE Bound(d)
    BY <1>1, <1>2, <2>3 DEF RelayTypeOK, DialerPhases, Bound
  <2> QED BY <2>1, <2>2, <2>3
<1>4. (Named /\ RegistryIsExact)'
  BY <1>1 DEF Named, RegistryIsExact
<1>5. WaitersAreExact'
  BY <1>1, <1>2 DEF WaitersAreExact, RelayTypeOK
<1>6. ChannelToOwnDevice'
  BY <1>1, <1>2 DEF ChannelToOwnDevice, RelayTypeOK
<1> QED BY <1>3, <1>4, <1>5, <1>6

\* The steps of a device's connection.
LEMMA ClientInv ==
    ASSUME RelayInv, NEW c \in Clients,
           \/ Accept(c) \/ Forward(c) \/ ClientCloses(c)
           \/ \E n \in Nicks : Authenticate(c, n)
    PROVE  RelayInv'
<1> USE DEF RelayInv, clientVars, relayVars, serverVars, dialerVars
<1>1. CASE Accept(c)
  BY <1>1 DEF Accept, RelayTypeOK, ClientPhases, Named, RegistryIsExact,
              WaitersAreExact, ChannelToOwnDevice
<1>2. ASSUME NEW n \in Nicks, Authenticate(c, n) PROVE RelayInv'
  BY <1>2 DEF Authenticate, RelayTypeOK, ClientPhases, Named, RegistryIsExact,
              WaitersAreExact, ChannelToOwnDevice
<1>3. CASE Forward(c)
  <2> DEFINE n == nick[c]
  <2> USE <1>3 DEF Forward, InstallEntry
  <2>0. n \in Nicks /\ registry[n] # c
    BY DEF Named, RegistryIsExact
  <2> USE <2>0
  <2>1. RelayTypeOK' BY DEF RelayTypeOK, ClientPhases, DialerPhases
  <2>2. Named' BY DEF RelayTypeOK, Named, RegistryIsExact
  <2>3. RegistryIsExact' BY DEF RelayTypeOK, RegistryIsExact
  <2>4. WaitersAreExact' BY DEF RelayTypeOK, WaitersAreExact
  <2>5. ChannelToOwnDevice'
    BY DEF RelayTypeOK, ChannelToOwnDevice, WaitersAreExact, RegistryIsExact
  <2> QED BY <2>1, <2>2, <2>3, <2>4, <2>5
<1>4. CASE ClientCloses(c)
  <2> USE <1>4 DEF ClientCloses
  <2>1. RelayTypeOK' BY DEF RelayTypeOK, ClientPhases, DialerPhases
  <2>2. Named' BY DEF RelayTypeOK, Named
  <2>3. RegistryIsExact' BY DEF RelayTypeOK, RegistryIsExact
  <2>4. WaitersAreExact' BY DEF RelayTypeOK, WaitersAreExact, ChannelToOwnDevice
  <2>5. ChannelToOwnDevice' BY DEF RelayTypeOK, ChannelToOwnDevice
  <2> QED BY <2>1, <2>2, <2>3, <2>4, <2>5
<1> QED BY <1>1, <1>2, <1>3, <1>4

\* The steps of a Bridge's transport.
LEMMA DialerInv ==
    ASSUME RelayInv, NEW d \in Dialers,
           Connect(d) \/ WaitTimesOut(d) \/ ChannelOpens(d) \/ ChannelEnds(d)
    PROVE  RelayInv'
<1> USE DEF RelayInv, clientVars, relayVars, serverVars
<1>0. (Named /\ RegistryIsExact)'
  BY DEF Named, RegistryIsExact, Connect, WaitTimesOut, ChannelOpens, ChannelEnds
<1>1. CASE Connect(d)
  <2> USE <1>1 DEF Connect
  <2>1. RelayTypeOK' BY DEF RelayTypeOK, DialerPhases
  <2>2. WaitersAreExact' BY DEF RelayTypeOK, WaitersAreExact
  <2>3. ChannelToOwnDevice' BY DEF RelayTypeOK, ChannelToOwnDevice, RegistryIsExact
  <2> QED BY <1>0, <2>1, <2>2, <2>3
<1>2. CASE WaitTimesOut(d)
  <2> USE <1>2 DEF WaitTimesOut
  <2>1. RelayTypeOK' BY DEF RelayTypeOK, DialerPhases
  <2>2. WaitersAreExact' BY DEF RelayTypeOK, WaitersAreExact
  <2>3. ChannelToOwnDevice' BY DEF RelayTypeOK, ChannelToOwnDevice
  <2> QED BY <1>0, <2>1, <2>2, <2>3
<1>3. CASE ChannelOpens(d) \/ ChannelEnds(d)
  <2> USE <1>3 DEF ChannelOpens, ChannelEnds
  <2>1. RelayTypeOK' BY DEF RelayTypeOK, DialerPhases
  <2>2. WaitersAreExact' BY DEF RelayTypeOK, WaitersAreExact
  <2>3. ChannelToOwnDevice' BY DEF RelayTypeOK, ChannelToOwnDevice
  <2> QED BY <1>0, <2>1, <2>2, <2>3
<1> QED BY <1>1, <1>2, <1>3

\* The two halves of close().
LEMMA CloseInv == ASSUME RelayInv, Close \/ CloseEnds PROVE RelayInv'
<1> USE DEF RelayInv, relayVars, dialerVars
<1>1. CASE Close
  <2> USE <1>1 DEF Close
  <2>1. RelayTypeOK' BY DEF RelayTypeOK, ClientPhases, DialerPhases
  <2>2. Named' BY DEF RelayTypeOK, Named, RegistryIsExact
  <2>3. RegistryIsExact' BY DEF RelayTypeOK, RegistryIsExact, Named
  <2>4. WaitersAreExact' BY DEF RelayTypeOK, WaitersAreExact
  <2>5. ChannelToOwnDevice' BY DEF RelayTypeOK, ChannelToOwnDevice
  <2> QED BY <2>1, <2>2, <2>3, <2>4, <2>5
<1>2. CASE CloseEnds
  <2> USE <1>2 DEF CloseEnds
  <2>1. RelayTypeOK' BY DEF RelayTypeOK
  <2>2. (Named /\ RegistryIsExact)' BY DEF Named, RegistryIsExact
  <2>3. (WaitersAreExact /\ ChannelToOwnDevice)' BY DEF WaitersAreExact, ChannelToOwnDevice
  <2> QED BY <2>1, <2>2, <2>3
<1> QED BY <1>1, <1>2

LEMMA NextInv == ASSUME RelayInv, [Next]_vars PROVE RelayInv'
<1>1. CASE UNCHANGED vars
  BY <1>1 DEF vars, serverVars, clientVars, relayVars, dialerVars, RelayInv, RelayTypeOK,
              Named, RegistryIsExact, WaitersAreExact, ChannelToOwnDevice
<1> QED BY <1>1, BootInv, ClientInv, DialerInv, CloseInv DEF Next

\* The inductive invariant holds in every behaviour.
THEOREM Invariance == Spec => []RelayInv
BY InitInv, NextInv, PTL DEF Spec

\* Types, and the server is there exactly while it has the port
\* (SshServer.ts:131-144, 147-167).
THEOREM RelayTypes == Spec => []RelayTypeOK
BY Invariance, PTL DEF RelayInv

\* A nickname is routed to the last client that forwards for it
\* (SshServer.ts:251-261, 353-375).
THEOREM RegistryExact == Spec => []RegistryIsExact
BY Invariance, PTL DEF RelayInv

\* Those who wait are those in the lists, and their devices are not there
\* (SshServer.ts:180-186, 365-396).
THEOREM WaitersExact == Spec => []WaitersAreExact
BY Invariance, PTL DEF RelayInv

\* A Bridge talks to its own device (SshServer.ts:180-186, ssh.ts:41-52).
THEOREM OwnDevice == Spec => []ChannelToOwnDevice
BY Invariance, PTL DEF RelayInv
================================================================================
