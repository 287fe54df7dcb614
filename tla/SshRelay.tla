------------------------------- MODULE SshRelay -------------------------------
(***************************************************************************)
(* The SSH server inside n8n that devices dial in to, and the Bridges that *)
(* reach their devices through it: packages/n8n-nodes/src/SshServer.ts,    *)
(* bridge/src/transport/ssh.ts, and the boot in BridgeManager.ts.          *)
(*                                                                         *)
(* A client is one SSH connection of a device, used once; a device that    *)
(* comes back is another client with the same nickname.  A dialer is a     *)
(* Bridge: it boots the server with listen(), then its transport dials     *)
(* again whenever it has lost its channel.  All credentials name the same  *)
(* address and port.  ssh2, the devices and the operating system's port    *)
(* are external.                                                           *)
(***************************************************************************)
EXTENDS FiniteSets, Integers

CONSTANTS
    Nicks,      \* nicknames: the keyId of a device's certificate
    Clients,    \* SSH connections
    Dialers,    \* Bridges
    NickOf,     \* the device of each Bridge
    Configs,    \* what assertConfigMatches compares: host key and user CA
    ConfigOf,   \* what the credential of each Bridge says
    None        \* null

ASSUME RelayAssumption ==
    /\ NickOf \in [Dialers -> Nicks] /\ ConfigOf \in [Dialers -> Configs]
    /\ None \notin Nicks \cup Clients \cup Configs

VARIABLES
    server,     \* this.server # null
    config,     \* this.config
    port,       \* the config of the listener that has the port, None if it is free
    closing,    \* a close() that awaits server.close()
    client,     \* per client: how far it is
    nick,       \* per client: the deviceNick its authentication captured
    old,        \* the clients that close() left to the server it stops
    registry,   \* per nickname: the client that forwards for it
    waiters,    \* per nickname: the Bridges whose connect() waits for it
    phase,      \* per Bridge: how far it is
    via         \* per Bridge: the client its channel goes through

serverVars == <<server, config, port, closing>>
clientVars == <<client, nick, old>>
relayVars == <<registry, waiters>>
dialerVars == <<phase, via>>
vars == <<serverVars, clientVars, relayVars, dialerVars>>

\* "ending" is a client that end() was called on, whose 'close' is to come, and that
\* has not asked to forward again.
ClientPhases == {"unused", "accepted", "authenticated", "forwarding", "ending", "closed"}

\* "ready" is a transport without a channel: before its first connect(), and
\* when the Bridge waits for its next attempt.
DialerPhases == {"new", "binding", "refused", "ready", "waiting", "opening", "open"}

Init ==
    /\ server = FALSE
    /\ config = None
    /\ port = None
    /\ closing = FALSE
    /\ client = [c \in Clients |-> "unused"]
    /\ nick = [c \in Clients |-> None]
    /\ old = {}
    /\ registry = [n \in Nicks |-> None]
    /\ waiters = [n \in Nicks |-> {}]
    /\ phase = [d \in Dialers |-> "new"]
    /\ via = [d \in Dialers |-> None]

----------------------------------------------------------------------------
(* Boot *)

\* listen() of a Bridge that finds the server up: the configs must match.  A
\* config that a close() has set to null makes the comparison throw.
ListenAgain(d) ==
    /\ phase[d] = "new" /\ server
    /\ phase' = [phase EXCEPT ![d] = IF config = ConfigOf[d] THEN "ready" ELSE "refused"]
    /\ UNCHANGED <<serverVars, clientVars, relayVars, via>>

\* listen() of one that finds no server: it is the first, or another is still
\* binding the port.  Its config is taken at once.
Listen(d) ==
    /\ phase[d] = "new" /\ ~server
    /\ config' = ConfigOf[d]
    /\ phase' = [phase EXCEPT ![d] = "binding"]
    /\ UNCHANGED <<server, port, closing, clientVars, relayVars, via>>

\* The port is bound, and the server is there.
Bound(d) ==
    /\ phase[d] = "binding" /\ port = None
    /\ port' = ConfigOf[d]
    /\ server' = TRUE
    /\ phase' = [phase EXCEPT ![d] = "ready"]
    /\ UNCHANGED <<config, closing, clientVars, relayVars, via>>

\* Somebody has the port: listen() rejects, and its config stays.
BindFails(d) ==
    /\ phase[d] = "binding" /\ port # None
    /\ phase' = [phase EXCEPT ![d] = "refused"]
    /\ UNCHANGED <<serverVars, clientVars, relayVars, via>>

\* Whoever wanted the Bridge comes again.
AskAgain(d) ==
    /\ phase[d] = "refused"
    /\ phase' = [phase EXCEPT ![d] = "new"]
    /\ UNCHANGED <<serverVars, clientVars, relayVars, via>>

----------------------------------------------------------------------------
(* Devices *)

\* A device dials in.
Accept(c) ==
    /\ client[c] = "unused" /\ port # None
    /\ client' = [client EXCEPT ![c] = "accepted"]
    /\ UNCHANGED <<serverVars, nick, old, relayVars, dialerVars>>

\* handleAuth accepts its certificate, which names it.  A client that is turned
\* away stays as it is until it goes.
Authenticate(c, n) ==
    /\ client[c] = "accepted" /\ config # None
    /\ client' = [client EXCEPT ![c] = "authenticated"]
    /\ nick' = [nick EXCEPT ![c] = n]
    /\ UNCHANGED <<serverVars, old, relayVars, dialerVars>>

\* Mutant: the entry goes to everybody who waits.
InstallEntryForAll(c, n) ==
    /\ client' = [x \in Clients |-> IF x = c THEN "forwarding"
                                    ELSE IF x = registry[n] THEN "ending" ELSE client[x]]
    /\ registry' = [registry EXCEPT ![n] = c]
    /\ waiters' = [m \in Nicks |-> {}]
    /\ phase' = [d \in Dialers |-> IF phase[d] = "waiting" THEN "opening" ELSE phase[d]]
    /\ via' = [d \in Dialers |-> IF phase[d] = "waiting" THEN c ELSE via[d]]

\* installEntry: the client that forwarded before is ended, and all who wait for
\* the device get the entry; each of them opens its channel.
InstallEntry(c, n) ==
    /\ client' = [x \in Clients |-> IF x = c THEN "forwarding"
                                    ELSE IF x = registry[n] THEN "ending" ELSE client[x]]
    /\ registry' = [registry EXCEPT ![n] = c]
    /\ waiters' = [waiters EXCEPT ![n] = {}]
    /\ phase' = [d \in Dialers |-> IF d \in waiters[n] THEN "opening" ELSE phase[d]]
    /\ via' = [d \in Dialers |-> IF d \in waiters[n] THEN c ELSE via[d]]

\* The tcpip-forward request of a client that has a nickname; others are rejected.
\* Nobody looks whether the client was ended.  (While it forwards, asking again
\* changes nothing.)
Forward(c) ==
    /\ client[c] \in {"authenticated", "ending"} /\ nick[c] # None
    /\ InstallEntry(c, nick[c])
    /\ UNCHANGED <<serverVars, nick, old>>

\* Mutant: the 'close' does not look whose entry it is.
ClientClosesAnyEntry(c) ==
    /\ client[c] \notin {"unused", "closed"}
    /\ client' = [client EXCEPT ![c] = "closed"]
    /\ registry' = [n \in Nicks |-> IF n = nick[c] THEN None ELSE registry[n]]
    /\ phase' = [d \in Dialers |-> IF via[d] = c THEN "ready" ELSE phase[d]]
    /\ via' = [d \in Dialers |-> IF via[d] = c THEN None ELSE via[d]]
    /\ UNCHANGED <<serverVars, nick, old, waiters>>

\* The 'close' of a client, whether it was ended, the device went or its
\* keepalive ran out: its channels go with it, and its entry if it is still
\* its own.
ClientCloses(c) ==
    /\ client[c] \notin {"unused", "closed"}
    /\ client' = [client EXCEPT ![c] = "closed"]
    /\ registry' = [n \in Nicks |-> IF n = nick[c] /\ registry[n] = c THEN None
                                    ELSE registry[n]]
    /\ phase' = [d \in Dialers |-> IF via[d] = c THEN "ready" ELSE phase[d]]
    /\ via' = [d \in Dialers |-> IF via[d] = c THEN None ELSE via[d]]
    /\ UNCHANGED <<serverVars, nick, old, waiters>>

----------------------------------------------------------------------------
(* Bridges *)

\* connect(): through the entry there is, or the Bridge waits for one.  Without
\* a server it rejects, which changes nothing here.
Connect(d) ==
    LET n == NickOf[d] IN
    /\ phase[d] = "ready" /\ server /\ config # None
    /\ IF registry[n] # None
         THEN /\ phase' = [phase EXCEPT ![d] = "opening"]
              /\ via' = [via EXCEPT ![d] = registry[n]]
              /\ UNCHANGED waiters
         ELSE /\ phase' = [phase EXCEPT ![d] = "waiting"]
              /\ waiters' = [waiters EXCEPT ![n] = @ \cup {d}]
              /\ UNCHANGED via
    /\ UNCHANGED <<serverVars, clientVars, registry>>

\* Mutant: the waiter stays in its list.
WaitTimesOutListed(d) ==
    /\ phase[d] = "waiting" /\ d \in waiters[NickOf[d]]
    /\ phase' = [phase EXCEPT ![d] = "ready"]
    /\ UNCHANGED <<serverVars, clientVars, relayVars, via>>

\* connectTimeoutMs is over: the waiter leaves its list and rejects.
WaitTimesOut(d) ==
    /\ phase[d] = "waiting" /\ d \in waiters[NickOf[d]]
    /\ phase' = [phase EXCEPT ![d] = "ready"]
    /\ waiters' = [waiters EXCEPT ![NickOf[d]] = @ \ {d}]
    /\ UNCHANGED <<serverVars, clientVars, registry, via>>

\* The device opens the channel that forwardOut asked for, and the transport
\* has its stream.
ChannelOpens(d) ==
    /\ phase[d] = "opening"
    /\ phase' = [phase EXCEPT ![d] = "open"]
    /\ UNCHANGED <<serverVars, clientVars, relayVars, via>>

\* It refuses, or the channel ends: by the device's side or because the Bridge
\* closes its transport.
ChannelEnds(d) ==
    /\ phase[d] \in {"opening", "open"}
    /\ phase' = [phase EXCEPT ![d] = "ready"]
    /\ via' = [via EXCEPT ![d] = None]
    /\ UNCHANGED <<serverVars, clientVars, relayVars>>

\* A Bridge that is done, or that could not connect the first time, is dropped.
Drop(d) ==
    /\ phase[d] = "ready"
    /\ phase' = [phase EXCEPT ![d] = "new"]
    /\ UNCHANGED <<serverVars, clientVars, relayVars, via>>

----------------------------------------------------------------------------
(* close() *)

\* Mutant: the waiters are forgotten, not rejected.
CloseForgetsWaiters ==
    /\ server /\ ~closing
    /\ server' = FALSE
    /\ port' = None
    /\ closing' = TRUE
    /\ client' = [c \in Clients |-> IF \E n \in Nicks : registry[n] = c THEN "ending"
                                    ELSE client[c]]
    /\ old' = {c \in Clients : client[c] \notin {"unused", "closed"}}
    /\ registry' = [n \in Nicks |-> None]
    /\ waiters' = [n \in Nicks |-> {}]
    /\ UNCHANGED <<config, nick, phase, via>>

\* close() up to its await: the registered clients are ended, the waiters
\* rejected, and the port is let go.  A client that forwards nothing yet is left.
Close ==
    /\ server /\ ~closing
    /\ server' = FALSE
    /\ port' = None
    /\ closing' = TRUE
    /\ client' = [c \in Clients |-> IF \E n \in Nicks : registry[n] = c THEN "ending"
                                    ELSE client[c]]
    /\ old' = {c \in Clients : client[c] \notin {"unused", "closed"}}
    /\ registry' = [n \in Nicks |-> None]
    /\ phase' = [d \in Dialers |-> IF phase[d] = "waiting" THEN "ready" ELSE phase[d]]
    /\ waiters' = [n \in Nicks |-> {}]
    /\ UNCHANGED <<config, nick, via>>

\* The last client of the stopped server is gone: close() resolves.
CloseEnds ==
    /\ closing /\ \A c \in old : client[c] = "closed"
    /\ closing' = FALSE
    /\ config' = None
    /\ old' = {}
    /\ UNCHANGED <<server, port, client, nick, relayVars, dialerVars>>

Next ==
    \/ \E d \in Dialers :
          \/ ListenAgain(d) \/ Listen(d) \/ Bound(d) \/ BindFails(d) \/ AskAgain(d)
          \/ Connect(d) \/ WaitTimesOut(d) \/ ChannelOpens(d) \/ ChannelEnds(d) \/ Drop(d)
    \/ \E c \in Clients :
          \/ Accept(c) \/ Forward(c) \/ ClientCloses(c)
          \/ \E n \in Nicks : Authenticate(c, n)
    \/ Close \/ CloseEnds

Spec == Init /\ [][Next]_vars

\* The timers of connect() fire; a channel that is asked for is opened or not,
\* at the latest when the keepalive of its client's socket runs out.
RelayFairness ==
    \A d \in Dialers : /\ WF_vars(WaitTimesOut(d))
                       /\ WF_vars(ChannelOpens(d) \/ ChannelEnds(d))

FairSpec == Spec /\ RelayFairness

----------------------------------------------------------------------------
(* Properties *)

\* Types; and the server is there exactly while it has the port.
RelayTypeOK ==
    /\ server <=> port # None
    /\ server \in BOOLEAN /\ closing \in BOOLEAN
    /\ config \in Configs \cup {None} /\ port \in Configs \cup {None}
    /\ client \in [Clients -> ClientPhases]
    /\ nick \in [Clients -> Nicks \cup {None}]
    /\ old \subseteq Clients
    /\ registry \in [Nicks -> Clients \cup {None}]
    /\ waiters \in [Nicks -> SUBSET Dialers]
    /\ phase \in [Dialers -> DialerPhases]
    /\ via \in [Dialers -> Clients \cup {None}]

\* A nickname is routed to the last client that asked to forward for it, and to none
\* that has been ended since or is gone: a device that comes back while its former
\* connection is still draining evicts it, and the late 'close' of that one
\* takes nothing from the newcomer (SshServer.ts:251-259, 347-375).
RegistryIsExact ==
    \A c \in Clients, n \in Nicks :
        registry[n] = c <=> client[c] = "forwarding" /\ nick[c] = n

\* Nobody waits for a device that is there, and who is in a list waits.
WaitersAreExact ==
    \A d \in Dialers, n \in Nicks :
        /\ d \in waiters[n] <=> phase[d] = "waiting" /\ NickOf[d] = n
        /\ d \in waiters[n] => registry[n] = None

\* A Bridge talks to its own device, on a client that is not gone.
ChannelToOwnDevice ==
    \A d \in Dialers :
        /\ phase[d] \in {"opening", "open"} <=> via[d] # None
        /\ via[d] # None => nick[via[d]] = NickOf[d] /\ client[via[d]] \in {"forwarding", "ending"}

\* connect() comes to an end, with a channel or without, also when the server
\* is closed or the client it goes through is evicted meanwhile.
EveryConnectEnds ==
    \A d \in Dialers : phase[d] \in {"waiting", "opening"} ~> phase[d] \notin {"waiting", "opening"}

===============================================================================
