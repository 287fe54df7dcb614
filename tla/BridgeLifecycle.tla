--------------------------- MODULE BridgeLifecycle ---------------------------
(***************************************************************************)
(* The connection of one Bridge (packages/bridge/src/bridge.ts) to the     *)
(* arduino-router over a SocketTransport (transport/socket-base.ts): the   *)
(* first connection has succeeded, the socket may close at any time, a     *)
(* backoff timer drives the reconnect attempts, and close() tears it down. *)
(*                                                                         *)
(* One action is one macrotask of the event loop (a socket event, a timer  *)
(* callback, a call of the user) with the promise continuations it         *)
(* settles: nothing else runs before they do.                              *)
(***************************************************************************)
EXTENDS Integers

CONSTANTS
  BaseDelay,          \* options.reconnect.baseDelayMs
  MaxDelay            \* options.reconnect.maxDelayMs

ASSUME LifecycleAssumption ==
  /\ BaseDelay \in Nat \ {0}
  /\ MaxDelay \in Nat \ {0}

VARIABLES
  reconnectEnabled,   \* options.reconnect.enabled, never changed
  errorListener,      \* somebody listens to the Bridge's 'error' event
  socket,        \* a wired socket exists (SocketTransport.socket)
  connected,     \* Bridge.connected
  closedByUs,    \* Bridge.closedByUs
  timer,         \* delay of the armed reconnectTimer, 0 when it is null
  backoff,       \* min(baseDelayMs * 2^reconnectAttempt, maxDelayMs)
  connecting,    \* how many doReconnect() await transport.connect()
  registering,   \* how many doReconnect() await reRegister()
  closing,       \* where close() is: not called, awaiting $/reset, awaiting
                 \* transport.close(), returned
  uncaught       \* an 'error' was emitted that nobody listens to: emit() threw

lifecycleVars == <<reconnectEnabled, errorListener, socket, connected, closedByUs,
                   timer, backoff, connecting, registering, closing, uncaught>>

Smaller(a, b) == IF a < b THEN a ELSE b

FirstDelay == Smaller(BaseDelay, MaxDelay)

LifecycleTypeOK ==
  /\ reconnectEnabled \in BOOLEAN
  /\ errorListener \in BOOLEAN
  /\ socket \in BOOLEAN
  /\ connected \in BOOLEAN
  /\ closedByUs \in BOOLEAN
  /\ timer \in 0..MaxDelay
  /\ backoff \in 1..MaxDelay
  /\ connecting \in Nat
  /\ registering \in Nat
  /\ closing \in {"no", "reset", "ending", "done"}
  /\ uncaught \in BOOLEAN

\* The state Bridge.connect() resolves with, after its owner has attached the
\* listeners it wants.
LifecycleInit ==
  /\ reconnectEnabled \in BOOLEAN
  /\ errorListener \in BOOLEAN
  /\ socket = TRUE
  /\ connected = TRUE
  /\ closedByUs = FALSE
  /\ timer = 0
  /\ backoff = FirstDelay
  /\ connecting = 0
  /\ registering = 0
  /\ closing = "no"
  /\ uncaught = FALSE

-----------------------------------------------------------------------------
\* emit('error') throws when nobody listens to the event.
EmitError(emits) == uncaught' = (uncaught \/ (emits /\ ~errorListener))

\* scheduleReconnect(), when its caller gets to call it.
ScheduleReconnect(called) ==
  IF called /\ timer = 0 /\ ~closedByUs
  THEN /\ timer' = backoff
       /\ backoff' = Smaller(2 * backoff, MaxDelay)
  ELSE UNCHANGED <<timer, backoff>>

\* The end of close(): removeAllListeners().
Return ==
  /\ closing' = "done"
  /\ errorListener' = FALSE

\* The transport's 'close' event, preceded by an 'error' event when the socket
\* failed.  Every pending call rejects, so a reRegister() under way runs to its
\* end: with a method to register it emits 'error' for it (failing), and that
\* throws without a listener.  A close() under way returns.
SocketClosed(withError, failing) ==
  /\ socket
  /\ failing => registering > 0
  /\ socket' = FALSE
  /\ connected' = FALSE
  /\ ScheduleReconnect(reconnectEnabled /\ ~closedByUs)
  /\ registering' = 0
  /\ EmitError(withError \/ failing)
  /\ IF closing \in {"reset", "ending"}
     THEN Return
     ELSE UNCHANGED <<closing, errorListener>>
  /\ UNCHANGED <<reconnectEnabled, closedByUs, connecting>>

\* Mutant: the attempts are counted from 0 again before the connection is up.
ReconnectTimerFiresAndResets ==
  /\ timer # 0
  /\ timer' = 0
  /\ connecting' = IF closedByUs THEN connecting ELSE connecting + 1
  /\ backoff' = FirstDelay
  /\ UNCHANGED <<reconnectEnabled, errorListener, socket, connected, closedByUs,
                 registering, closing, uncaught>>

\* The reconnect timer fires and doReconnect() runs to its first await.
ReconnectTimerFires ==
  /\ timer # 0
  /\ timer' = 0
  /\ connecting' = IF closedByUs THEN connecting ELSE connecting + 1
  /\ UNCHANGED <<reconnectEnabled, errorListener, socket, connected, closedByUs,
                 backoff, registering, closing, uncaught>>

\* transport.connect() resolves: doReconnect() goes on to await reRegister().
ConnectSucceeds ==
  /\ connecting > 0
  /\ connecting' = connecting - 1
  /\ socket' = TRUE
  /\ connected' = TRUE
  /\ backoff' = FirstDelay
  /\ registering' = registering + 1
  /\ UNCHANGED <<reconnectEnabled, errorListener, closedByUs, timer, closing,
                 uncaught>>

\* Mutant: the failed attempt is reported and that is all.
ConnectFailsForGood ==
  /\ connecting > 0
  /\ connecting' = connecting - 1
  /\ EmitError(TRUE)
  /\ UNCHANGED <<reconnectEnabled, errorListener, socket, connected, closedByUs,
                 timer, backoff, registering, closing>>

\* transport.connect() rejects: doReconnect()'s catch emits 'error' and then
\* schedules the next attempt.  When emit() throws, the schedule is not reached.
ConnectFails ==
  /\ connecting > 0
  /\ connecting' = connecting - 1
  /\ EmitError(TRUE)
  /\ ScheduleReconnect(errorListener /\ ~closedByUs)
  /\ UNCHANGED <<reconnectEnabled, errorListener, socket, connected, closedByUs,
                 registering, closing>>

\* reRegister() returns and doReconnect() emits 'reconnect'.
Reregistered ==
  /\ registering > 0
  /\ registering' = registering - 1
  /\ UNCHANGED <<reconnectEnabled, errorListener, socket, connected, closedByUs,
                 timer, backoff, connecting, closing, uncaught>>

\* Mutant: doReconnect()'s catch schedules the next attempt before it emits 'error'.
ReregisterThrowsAfterScheduling ==
  /\ registering > 0
  /\ ~errorListener
  /\ ScheduleReconnect(TRUE)
  /\ EmitError(TRUE)
  /\ registering' = registering - 1
  /\ UNCHANGED <<reconnectEnabled, errorListener, socket, connected, closedByUs,
                 connecting, closing>>

\* A $/register of reRegister() is refused or times out and nobody listens: the
\* emit in reRegister()'s catch throws, and so does the emit in doReconnect()'s,
\* so 'reconnect' is not emitted.  (With a listener the loop just goes on.)
ReregisterThrows ==
  /\ registering > 0
  /\ ~errorListener
  /\ EmitError(TRUE)
  /\ registering' = registering - 1
  /\ UNCHANGED <<reconnectEnabled, errorListener, socket, connected, closedByUs,
                 timer, backoff, connecting, closing>>

\* Mutant: nothing is done on a Bridge that is not connected.
CloseOnlyConnected ==
  /\ closing = "no"
  /\ IF connected
     THEN /\ closing' = "reset" /\ closedByUs' = TRUE /\ timer' = 0
          /\ UNCHANGED errorListener
     ELSE Return /\ UNCHANGED <<closedByUs, timer>>
  /\ UNCHANGED <<reconnectEnabled, socket, connected, backoff, connecting,
                 registering, uncaught>>

\* Mutant: close() awaits the 'close' event of a socket that is not there.
CloseAwaitsNothing ==
  /\ closing = "no"
  /\ closedByUs' = TRUE
  /\ timer' = 0
  /\ closing' = IF connected THEN "reset" ELSE "ending"
  /\ UNCHANGED <<reconnectEnabled, errorListener, socket, connected, backoff,
                 connecting, registering, uncaught>>

\* close() up to its first await: $/reset when connected; otherwise
\* transport.close(), which returns at once because there is no socket.
Close ==
  /\ closing = "no"
  /\ closedByUs' = TRUE
  /\ timer' = 0
  /\ IF connected
     THEN closing' = "reset" /\ UNCHANGED errorListener
     ELSE Return
  /\ UNCHANGED <<reconnectEnabled, socket, connected, backoff, connecting,
                 registering, uncaught>>

\* $/reset is answered or its 500 ms pass: close() awaits transport.close(),
\* which ends the socket and waits for its 'close' event.
ResetSettles ==
  /\ closing = "reset"
  /\ closing' = "ending"
  /\ UNCHANGED <<reconnectEnabled, errorListener, socket, connected, closedByUs,
                 timer, backoff, connecting, registering, uncaught>>

LifecycleNext ==
  \/ \E withError, failing \in BOOLEAN : SocketClosed(withError, failing)
  \/ ReconnectTimerFires
  \/ ConnectSucceeds
  \/ ConnectFails
  \/ Reregistered
  \/ ReregisterThrows
  \/ Close
  \/ ResetSettles

LifecycleSpec == LifecycleInit /\ [][LifecycleNext]_lifecycleVars

-----------------------------------------------------------------------------
\* What is due in the event loop happens: a timer fires, and a call whose answer or
\* timeout is due goes on.  Nothing here depends on the router.
EventLoopFairness ==
  /\ WF_lifecycleVars(ReconnectTimerFires)
  /\ WF_lifecycleVars(Reregistered \/ ReregisterThrows)
  /\ WF_lifecycleVars(ResetSettles)

\* The router is not down for ever: an attempt that hangs, or that is made again and
\* again, succeeds.
RouterComesBack == SF_lifecycleVars(ConnectSucceeds)

FairSpec == LifecycleSpec /\ EventLoopFairness /\ RouterComesBack

-----------------------------------------------------------------------------
\* At most one reconnect is under way, be it an armed timer, a connection
\* attempt or a re-registration, and none of the first two while a socket is up:
\* two would leave a second live socket on the router (bridge.ts 223-252).
SingleFlight ==
  /\ (IF timer # 0 THEN 1 ELSE 0) + connecting + registering <= 1
  /\ timer # 0 \/ connecting > 0 => ~socket

\* A Bridge whose 'error' event is listened to, which lost its connection and was
\* not closed, has a reconnect under way: nothing else would ever start one
\* (bridge.ts 218-220, 245-250).
ReconnectUnderWay ==
  errorListener /\ reconnectEnabled /\ ~connected /\ ~closedByUs
  => timer # 0 \/ connecting > 0

\* The same whether or not anybody listens, as bridge.ts 246-247 says: the failed
\* attempt is surfaced via 'error' and the next one is scheduled.
FailedAttemptIsRetried ==
  reconnectEnabled /\ ~connected /\ ~closedByUs => timer # 0 \/ connecting > 0

\* The delay follows the outage (bridge.ts 225-229, 242): the first attempt after a
\* connection was lost waits the shortest time, whatever happened before; every timer
\* armed leaves twice its delay for the next one, up to the cap; and only a
\* connection that comes up makes it shorter again.
BackoffFollowsOutage ==
  [][/\ connected /\ ~connected' /\ timer' # 0 => timer' = FirstDelay
     /\ timer' \notin {0, timer} => backoff' = Smaller(2 * timer', MaxDelay)
     /\ backoff' < backoff => connected' /\ ~connected]_lifecycleVars

\* After close() was called no new attempt to connect starts, whatever close() found:
\* a live connection, an armed timer or neither (bridge.ts 218-224, 238, 621-626).
NoAttemptAfterClose ==
  [][closing # "no" => connecting' <= connecting]_lifecycleVars

\* A Bridge that is listened to and not closed gets its connection back.
Recovers ==
  (errorListener /\ reconnectEnabled /\ ~connected) ~> (connected \/ closedByUs)

\* close() waits for one thing only, the end of a live socket: neither an outage nor
\* a reconnect nor an unanswered $/reset holds it up (bridge.ts 621-626, 644-661).  That
\* end is the router's to make (socket-base.ts 81-84), so close() need not return.
CloseEndsSocket ==
  closedByUs ~> closing = "done" \/ (closing = "ending" /\ socket)
=============================================================================
