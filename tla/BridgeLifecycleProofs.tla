------------------------ MODULE BridgeLifecycleProofs ------------------------
(***************************************************************************)
(* The safety properties of BridgeLifecycle, for every pair of delays.     *)
(***************************************************************************)
EXTENDS BridgeLifecycle, TLAPS

\* The Bridge believes to be connected when it has a socket.  Without this a failed
\* attempt could be one of a Bridge that is up.
ConnectedIffSocket == connected <=> socket

\* close() leaves no reconnect timer behind, and none is armed later
\* (bridge.ts 224, 249, 623-626).
NoTimerAfterClose == closedByUs => timer = 0

\* close() sets closedByUs before anything else.
ClosingIsOurs == closing # "no" => closedByUs

\* The two halves of the type invariant, for one prover each.
SwitchesOK ==
  /\ reconnectEnabled \in BOOLEAN
  /\ errorListener \in BOOLEAN
  /\ socket \in BOOLEAN
  /\ connected \in BOOLEAN
  /\ closedByUs \in BOOLEAN
  /\ uncaught \in BOOLEAN

CountersOK ==
  /\ timer \in 0..MaxDelay
  /\ backoff \in 1..MaxDelay
  /\ connecting \in Nat
  /\ registering \in Nat
  /\ closing \in {"no", "reset", "ending", "done"}

LifecycleInv ==
  /\ SwitchesOK
  /\ CountersOK
  /\ SingleFlight
  /\ ReconnectUnderWay
  /\ NoTimerAfterClose
  /\ ConnectedIffSocket
  /\ ClosingIsOurs

\* The delay that follows one within bounds is within bounds and no shorter.
LEMMA NextDelay ==
  ASSUME NEW d \in 1..MaxDelay
  PROVE  Smaller(2 * d, MaxDelay) \in d..MaxDelay
BY LifecycleAssumption DEF Smaller

\* So is the first one.
LEMMA FirstDelayInRange == FirstDelay \in 1..MaxDelay
BY LifecycleAssumption DEF FirstDelay, Smaller

\* scheduleReconnect() arms a timer within bounds or leaves things as they are.
LEMMA ScheduleReconnectEffect ==
  ASSUME timer \in 0..MaxDelay, backoff \in 1..MaxDelay,
         NEW called \in BOOLEAN, ScheduleReconnect(called)
  PROVE  /\ timer' \in 0..MaxDelay
         /\ backoff' \in backoff..MaxDelay
         /\ closedByUs \/ ~called => timer' = timer
         /\ called /\ ~closedByUs => timer' # 0
<1>1. Smaller(2 * backoff, MaxDelay) \in backoff..MaxDelay
  BY NextDelay
<1>2. CASE called /\ timer = 0 /\ ~closedByUs
  <2>1. timer' = backoff /\ backoff' = Smaller(2 * backoff, MaxDelay)
    BY <1>2 DEF ScheduleReconnect
  <2> QED
    BY <1>1, <1>2, <2>1, LifecycleAssumption
<1>3. CASE ~(called /\ timer = 0 /\ ~closedByUs)
  <2>1. timer' = timer /\ backoff' = backoff
    BY <1>3 DEF ScheduleReconnect
  <2> QED
    BY <1>3, <2>1, LifecycleAssumption
<1> QED
  BY <1>2, <1>3

\* A Bridge that has just connected satisfies the invariant.
LEMMA InitInv == LifecycleInit => LifecycleInv
<1> SUFFICES ASSUME LifecycleInit PROVE LifecycleInv
  OBVIOUS
<1> USE DEF LifecycleInit
<1>1. SwitchesOK
  BY DEF SwitchesOK
<1>2. CountersOK
  BY FirstDelayInRange, LifecycleAssumption DEF CountersOK
<1>3. SingleFlight
  BY DEF SingleFlight
<1>4. ReconnectUnderWay /\ NoTimerAfterClose /\ ConnectedIffSocket /\ ClosingIsOurs
  BY DEF ReconnectUnderWay, NoTimerAfterClose, ConnectedIffSocket, ClosingIsOurs
<1> QED
  BY <1>1, <1>2, <1>3, <1>4 DEF LifecycleInv

-----------------------------------------------------------------------------
\* One lemma per conjunct of the invariant, one step per action in each.

\* The switches stay Boolean.
LEMMA SwitchesStep ==
  ASSUME SwitchesOK, LifecycleNext
  PROVE  SwitchesOK'
<1> USE DEF SwitchesOK
<1>1. ASSUME NEW withError \in BOOLEAN, NEW failing \in BOOLEAN,
             SocketClosed(withError, failing)
      PROVE  SwitchesOK'
  BY <1>1 DEF SocketClosed, EmitError, Return
<1>2. CASE ReconnectTimerFires
  BY <1>2 DEF ReconnectTimerFires
<1>3. CASE ConnectSucceeds
  BY <1>3 DEF ConnectSucceeds
<1>4. CASE ConnectFails
  BY <1>4 DEF ConnectFails, EmitError
<1>5. CASE Reregistered
  BY <1>5 DEF Reregistered
<1>6. CASE ReregisterThrows
  BY <1>6 DEF ReregisterThrows, EmitError
<1>7. CASE Close
  BY <1>7 DEF Close, Return
<1>8. CASE ResetSettles
  BY <1>8 DEF ResetSettles
<1> QED
  BY <1>1, <1>2, <1>3, <1>4, <1>5, <1>6, <1>7, <1>8 DEF LifecycleNext

\* What a closing socket does to the counters.
LEMMA SocketClosedEffect ==
  ASSUME SwitchesOK, CountersOK,
         NEW withError, NEW failing, SocketClosed(withError, failing)
  PROVE  /\ CountersOK'
         /\ closedByUs => timer' = timer
         /\ reconnectEnabled /\ ~closedByUs => timer' # 0
         /\ backoff' \in backoff..MaxDelay
<1>1. (reconnectEnabled /\ ~closedByUs) \in BOOLEAN
  OBVIOUS
<1>2. ScheduleReconnect(reconnectEnabled /\ ~closedByUs)
  BY DEF SocketClosed
<1>3. /\ timer' \in 0..MaxDelay
      /\ backoff' \in backoff..MaxDelay
      /\ closedByUs => timer' = timer
      /\ reconnectEnabled /\ ~closedByUs => timer' # 0
  BY <1>1, <1>2, ScheduleReconnectEffect DEF CountersOK
<1>4. closing' \in {"no", "reset", "ending", "done"}
  BY DEF SocketClosed, CountersOK, Return
<1>5. connecting' \in Nat /\ registering' \in Nat
  BY DEF SocketClosed, CountersOK
<1>6. backoff' \in 1..MaxDelay
  BY <1>3 DEF CountersOK
<1> QED
  BY <1>3, <1>4, <1>5, <1>6 DEF CountersOK

\* What a failed attempt does to them.
LEMMA ConnectFailsEffect ==
  ASSUME SwitchesOK, CountersOK, ConnectFails
  PROVE  /\ CountersOK'
         /\ closedByUs => timer' = timer
         /\ errorListener /\ ~closedByUs => timer' # 0
         /\ backoff' \in backoff..MaxDelay
<1>1. (errorListener /\ ~closedByUs) \in BOOLEAN
  OBVIOUS
<1>2. ScheduleReconnect(errorListener /\ ~closedByUs)
  BY DEF ConnectFails
<1>3. /\ timer' \in 0..MaxDelay
      /\ backoff' \in backoff..MaxDelay
      /\ closedByUs => timer' = timer
      /\ errorListener /\ ~closedByUs => timer' # 0
  BY <1>1, <1>2, ScheduleReconnectEffect DEF CountersOK
<1>4. connecting' \in Nat /\ registering' \in Nat /\ closing' = closing
  BY DEF ConnectFails, CountersOK
<1>5. backoff' \in 1..MaxDelay
  BY <1>3 DEF CountersOK
<1> QED
  BY <1>3, <1>4, <1>5 DEF CountersOK

\* Every step keeps the delays and the counters within bounds.
LEMMA CountersStep ==
  ASSUME SwitchesOK, CountersOK, LifecycleNext
  PROVE  CountersOK'
<1>1. ASSUME NEW withError \in BOOLEAN, NEW failing \in BOOLEAN,
             SocketClosed(withError, failing)
      PROVE  CountersOK'
  BY <1>1, SocketClosedEffect
<1>2. CASE ReconnectTimerFires
  BY <1>2, LifecycleAssumption DEF ReconnectTimerFires, CountersOK
<1>3. CASE ConnectSucceeds
  BY <1>3, FirstDelayInRange DEF ConnectSucceeds, CountersOK
<1>4. CASE ConnectFails
  BY <1>4, ConnectFailsEffect
<1>5. CASE Reregistered
  BY <1>5 DEF Reregistered, CountersOK
<1>6. CASE ReregisterThrows
  BY <1>6 DEF ReregisterThrows, CountersOK
<1>7. CASE Close
  BY <1>7, LifecycleAssumption DEF Close, Return, CountersOK
<1>8. CASE ResetSettles
  BY <1>8 DEF ResetSettles, CountersOK
<1> QED
  BY <1>1, <1>2, <1>3, <1>4, <1>5, <1>6, <1>7, <1>8 DEF LifecycleNext

\* The connection: a reconnect at a time, and one whenever there has to be one.
LEMMA ConnectionStep ==
  ASSUME LifecycleInv, LifecycleNext
  PROVE  SingleFlight' /\ ConnectedIffSocket' /\ ReconnectUnderWay'
<1> USE DEF LifecycleInv
<1>a. /\ timer \in Nat /\ connecting \in Nat /\ registering \in Nat
  BY LifecycleAssumption DEF CountersOK
<1> USE DEF SingleFlight, ConnectedIffSocket, ReconnectUnderWay
<1>1. ASSUME NEW withError \in BOOLEAN, NEW failing \in BOOLEAN,
             SocketClosed(withError, failing)
      PROVE  SingleFlight' /\ ConnectedIffSocket' /\ ReconnectUnderWay'
  <2>1. /\ ~socket' /\ ~connected' /\ registering' = 0 /\ socket
        /\ UNCHANGED <<reconnectEnabled, closedByUs, connecting>>
    BY <1>1 DEF SocketClosed
  <2>2. reconnectEnabled /\ ~closedByUs => timer' # 0
    BY <1>1, SocketClosedEffect
  <2>3. connecting' = 0
    BY <1>a, <2>1
  <2>4. SingleFlight' /\ ConnectedIffSocket'
    BY <2>1, <2>3
  <2> QED
    BY <2>1, <2>2, <2>4
<1>2. CASE ReconnectTimerFires
  <2>1. timer # 0 /\ connecting = 0 /\ registering = 0 /\ ~socket
    BY <1>a, <1>2 DEF ReconnectTimerFires
  <2>2. ~closedByUs
    BY <2>1 DEF NoTimerAfterClose
  <2>3. timer' = 0 /\ connecting' = 1 /\ registering' = 0 /\ ~socket' /\ ~connected'
    BY <1>2, <2>1, <2>2 DEF ReconnectTimerFires
  <2> QED
    BY <2>3
<1>3. CASE ConnectSucceeds
  <2>1. /\ timer' = 0 /\ connecting' = 0 /\ registering' = 1
        /\ socket' = TRUE /\ connected' = TRUE
    BY <1>a, <1>3 DEF ConnectSucceeds
  <2> QED
    BY <2>1
<1>4. CASE ConnectFails
  <2>1. timer = 0 /\ connecting = 1 /\ registering = 0 /\ ~socket
    BY <1>a, <1>4 DEF ConnectFails
  <2>2. /\ connecting' = 0 /\ registering' = 0
        /\ UNCHANGED <<reconnectEnabled, errorListener, closedByUs, socket, connected>>
    BY <1>4, <2>1 DEF ConnectFails
  <2>3. errorListener /\ ~closedByUs => timer' # 0
    BY <1>4, ConnectFailsEffect
  <2>4. SingleFlight' /\ ConnectedIffSocket'
    BY <2>1, <2>2
  <2> QED
    BY <2>2, <2>3, <2>4
<1>5. CASE Reregistered
  BY <1>a, <1>5 DEF Reregistered
<1>6. CASE ReregisterThrows
  BY <1>a, <1>6 DEF ReregisterThrows
<1>7. CASE Close
  <2>1. /\ timer' = 0 /\ closedByUs'
        /\ UNCHANGED <<socket, connected, connecting, registering>>
    BY <1>7 DEF Close
  <2> QED
    BY <1>a, <2>1
<1>8. CASE ResetSettles
  BY <1>8 DEF ResetSettles
<1> QED
  BY <1>1, <1>2, <1>3, <1>4, <1>5, <1>6, <1>7, <1>8 DEF LifecycleNext

\* close(): closedByUs is set for good, and no timer with it.
LEMMA ClosedStep ==
  ASSUME LifecycleInv, LifecycleNext
  PROVE  NoTimerAfterClose' /\ ClosingIsOurs'
<1> USE DEF LifecycleInv, NoTimerAfterClose, ClosingIsOurs
<1>1. ASSUME NEW withError \in BOOLEAN, NEW failing \in BOOLEAN,
             SocketClosed(withError, failing)
      PROVE  NoTimerAfterClose' /\ ClosingIsOurs'
  <2>1. closedByUs => timer' = timer
    BY <1>1, SocketClosedEffect
  <2>2. closedByUs' = closedByUs /\ (closing' # "no" => closing # "no")
    BY <1>1 DEF SocketClosed, Return
  <2> QED
    BY <2>1, <2>2
<1>2. CASE ReconnectTimerFires
  BY <1>2 DEF ReconnectTimerFires
<1>3. CASE ConnectSucceeds
  BY <1>3 DEF ConnectSucceeds
<1>4. CASE ConnectFails
  <2>1. closedByUs => timer' = timer
    BY <1>4, ConnectFailsEffect
  <2>2. UNCHANGED <<closedByUs, closing>>
    BY <1>4 DEF ConnectFails
  <2> QED
    BY <2>1, <2>2
<1>5. CASE Reregistered
  BY <1>5 DEF Reregistered
<1>6. CASE ReregisterThrows
  BY <1>6 DEF ReregisterThrows
<1>7. CASE Close
  BY <1>7 DEF Close
<1>8. CASE ResetSettles
  BY <1>8 DEF ResetSettles
<1> QED
  BY <1>1, <1>2, <1>3, <1>4, <1>5, <1>6, <1>7, <1>8 DEF LifecycleNext

-----------------------------------------------------------------------------
\* The inductive invariant holds in every reachable state, for every pair of delays.
THEOREM Invariance == LifecycleSpec => []LifecycleInv
<1>1. LifecycleInit => LifecycleInv
  BY InitInv
<1>2. LifecycleInv /\ [LifecycleNext]_lifecycleVars => LifecycleInv'
  <2>1. CASE LifecycleNext
    BY <2>1, SwitchesStep, CountersStep, ConnectionStep, ClosedStep DEF LifecycleInv
  <2>2. CASE UNCHANGED lifecycleVars
    BY <2>2 DEF lifecycleVars, LifecycleInv, SwitchesOK, CountersOK, SingleFlight,
                ReconnectUnderWay, NoTimerAfterClose, ConnectedIffSocket, ClosingIsOurs
  <2> QED
    BY <2>1, <2>2
<1> QED
  BY <1>1, <1>2, PTL DEF LifecycleSpec

\* The variables keep their types, whatever the delays are.
THEOREM TypeCorrectness == LifecycleSpec => []LifecycleTypeOK
<1>1. LifecycleInv => LifecycleTypeOK
  BY DEF LifecycleInv, SwitchesOK, CountersOK, LifecycleTypeOK
<1> QED
  BY <1>1, Invariance, PTL

\* Never two reconnects of one Bridge, nor one beside a live socket
\* (bridge.ts 223-252).
THEOREM OneReconnect == LifecycleSpec => []SingleFlight
<1>1. LifecycleInv => SingleFlight
  BY DEF LifecycleInv
<1> QED
  BY <1>1, Invariance, PTL

\* A Bridge whose errors are listened to never stops reconnecting (bridge.ts
\* 218-220, 245-250).
THEOREM AlwaysReconnecting == LifecycleSpec => []ReconnectUnderWay
<1>1. LifecycleInv => ReconnectUnderWay
  BY DEF LifecycleInv
<1> QED
  BY <1>1, Invariance, PTL

\* No timer outlives close() (bridge.ts 224, 249, 623-626).
THEOREM TimerCleared == LifecycleSpec => []NoTimerAfterClose
<1>1. LifecycleInv => NoTimerAfterClose
  BY DEF LifecycleInv
<1> QED
  BY <1>1, Invariance, PTL

\* After close() no attempt to connect starts (bridge.ts 218-224, 238, 621-626).
THEOREM NoLateAttempt == LifecycleSpec => NoAttemptAfterClose
<1>1. LifecycleInv /\ [LifecycleNext]_lifecycleVars
      => [closing # "no" => connecting' <= connecting]_lifecycleVars
  <2> SUFFICES ASSUME LifecycleInv, LifecycleNext, closing # "no"
               PROVE  connecting' <= connecting
    BY DEF lifecycleVars
  <2>1. connecting \in Nat /\ timer = 0
    BY DEF LifecycleInv, CountersOK, ClosingIsOurs, NoTimerAfterClose
  <2>2. ~ReconnectTimerFires
    BY <2>1 DEF ReconnectTimerFires
  <2>3. connecting' = connecting \/ connecting' = connecting - 1
    BY <2>2 DEF LifecycleNext, SocketClosed, ConnectSucceeds, ConnectFails,
                Reregistered, ReregisterThrows, Close, ResetSettles
  <2> QED
    BY <2>1, <2>3
<1> QED
  BY <1>1, Invariance, PTL DEF LifecycleSpec, NoAttemptAfterClose

\* A Bridge that is up starts its next outage with the shortest delay.
ShortWhenUp == connected => backoff = FirstDelay

LEMMA ShortWhenUpInvariant == LifecycleSpec => []ShortWhenUp
<1>1. LifecycleInit => ShortWhenUp
  BY DEF LifecycleInit, ShortWhenUp
<1>2. LifecycleInv /\ ShortWhenUp /\ [LifecycleNext]_lifecycleVars => ShortWhenUp'
  <2> SUFFICES ASSUME LifecycleInv, ShortWhenUp, [LifecycleNext]_lifecycleVars
               PROVE  ShortWhenUp'
    OBVIOUS
  <2>0. FirstDelay' = FirstDelay
    BY DEF FirstDelay, Smaller
  <2>1. CASE \E withError, failing \in BOOLEAN : SocketClosed(withError, failing)
    <3>1. ~connected'
      BY <2>1 DEF SocketClosed
    <3> QED
      BY <3>1 DEF ShortWhenUp
  <2>2. CASE ConnectSucceeds
    BY <2>0, <2>2 DEF ConnectSucceeds, ShortWhenUp
  <2>3. CASE ConnectFails
    <3>1. ~connected'
      BY <2>3 DEF ConnectFails, LifecycleInv, CountersOK, SingleFlight, ConnectedIffSocket
    <3> QED
      BY <3>1 DEF ShortWhenUp
  <2>4. CASE UNCHANGED <<connected, backoff>>
    BY <2>0, <2>4 DEF ShortWhenUp
  <2> QED
    BY <2>1, <2>2, <2>3, <2>4 DEF LifecycleNext, ReconnectTimerFires, Reregistered,
       ReregisterThrows, Close, ResetSettles, lifecycleVars
<1> QED
  BY <1>1, <1>2, Invariance, PTL DEF LifecycleSpec

\* One step of the three promises about the delay.
BackoffStep ==
  /\ connected /\ ~connected' /\ timer' # 0 => timer' = FirstDelay
  /\ timer' \notin {0, timer} => backoff' = Smaller(2 * timer', MaxDelay)
  /\ backoff' < backoff => connected' /\ ~connected

\* scheduleReconnect() takes the delay there is and doubles it, and does so while the
\* connection is lost only.
LEMMA ScheduledStep ==
  ASSUME LifecycleInv, ShortWhenUp, NEW called \in BOOLEAN, ScheduleReconnect(called),
         ~connected', timer = 0
  PROVE  BackoffStep
<1>1. timer \in 0..MaxDelay /\ backoff \in 1..MaxDelay
  BY DEF LifecycleInv, CountersOK
<1>2. backoff' \in backoff..MaxDelay
  BY <1>1, ScheduleReconnectEffect
<1>3. ~(backoff' < backoff)
  BY <1>1, <1>2, LifecycleAssumption
<1>4. CASE called /\ timer = 0 /\ ~closedByUs
  <2>1. timer' = backoff /\ backoff' = Smaller(2 * backoff, MaxDelay)
    BY <1>4 DEF ScheduleReconnect
  <2>2. connected => timer' = FirstDelay
    BY <2>1 DEF ShortWhenUp
  <2>3. backoff' = Smaller(2 * timer', MaxDelay)
    BY <2>1
  <2> QED
    BY <1>3, <2>2, <2>3 DEF BackoffStep
<1>5. CASE ~(called /\ timer = 0 /\ ~closedByUs)
  <2>1. timer' = timer
    BY <1>5 DEF ScheduleReconnect
  <2> QED
    BY <1>3, <2>1 DEF BackoffStep
<1> QED
  BY <1>4, <1>5

\* The delay starts anew with every outage, doubles up to the cap in it, and shrinks
\* with its end only (bridge.ts 225-229, 242).
THEOREM BackoffFollows == LifecycleSpec => BackoffFollowsOutage
<1>1. LifecycleInv /\ ShortWhenUp /\ [LifecycleNext]_lifecycleVars
      => [BackoffStep]_lifecycleVars
  <2> SUFFICES ASSUME LifecycleInv, ShortWhenUp, LifecycleNext
               PROVE  BackoffStep
    OBVIOUS
  <2>a. /\ backoff \in Nat /\ connecting \in Nat /\ registering \in Nat /\ timer \in Nat
        /\ SwitchesOK
    BY LifecycleAssumption DEF LifecycleInv, CountersOK
  <2>b. SingleFlight /\ ConnectedIffSocket
    BY DEF LifecycleInv
  <2>1. ASSUME NEW withError \in BOOLEAN, NEW failing \in BOOLEAN,
               SocketClosed(withError, failing)
        PROVE  BackoffStep
    <3>1. /\ ~connected' /\ socket
          /\ ScheduleReconnect(reconnectEnabled /\ ~closedByUs)
      BY <2>1 DEF SocketClosed
    <3>2. timer = 0
      BY <2>b, <3>1 DEF SingleFlight
    <3>3. (reconnectEnabled /\ ~closedByUs) \in BOOLEAN
      OBVIOUS
    <3> QED
      BY <3>1, <3>2, <3>3, ScheduledStep
  <2>2. CASE ConnectFails
    <3>1. connecting > 0 /\ connected' = connected
          /\ ScheduleReconnect(errorListener /\ ~closedByUs)
      BY <2>2 DEF ConnectFails
    <3>2. timer = 0 /\ ~connected
      BY <2>a, <2>b, <3>1 DEF SingleFlight, ConnectedIffSocket
    <3>3. (errorListener /\ ~closedByUs) \in BOOLEAN
      OBVIOUS
    <3> QED
      BY <3>1, <3>2, <3>3, ScheduledStep
  <2>3. CASE ConnectSucceeds
    <3>1. connecting > 0 /\ connected' = TRUE /\ timer' = timer
      BY <2>3 DEF ConnectSucceeds
    <3>2. ~connected
      BY <2>a, <2>b, <3>1 DEF SingleFlight, ConnectedIffSocket
    <3> QED
      BY <3>1, <3>2 DEF BackoffStep
  <2>4. CASE ReconnectTimerFires \/ Close
    <3>1. timer' = 0 /\ backoff' = backoff
      BY <2>4 DEF ReconnectTimerFires, Close
    <3> QED
      BY <2>a, <3>1 DEF BackoffStep
  <2>5. CASE Reregistered \/ ReregisterThrows \/ ResetSettles
    <3>1. timer' = timer /\ backoff' = backoff /\ connected' = connected
      BY <2>5 DEF Reregistered, ReregisterThrows, ResetSettles
    <3> QED
      BY <2>a, <3>1 DEF BackoffStep
  <2> QED
    BY <2>1, <2>2, <2>3, <2>4, <2>5 DEF LifecycleNext
<1> QED
  BY <1>1, Invariance, ShortWhenUpInvariant, PTL
  DEF LifecycleSpec, BackoffFollowsOutage, BackoffStep
=============================================================================
