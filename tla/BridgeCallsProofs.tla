--------------------------- MODULE BridgeCallsProofs ---------------------------
(***************************************************************************)
(* The safety properties of BridgeCalls and its refinement of CallContract,*)
(* for any number of calls and msgids.                                     *)
(***************************************************************************)
EXTENDS BridgeCalls, BridgeLifecycleProofs

\* The types of the calls' own variables.
CallTypes ==
  /\ status \in [Calls -> {"idle", "pending", "waiting", "woken"} \cup Outcomes]
  /\ pending \in [Ids -> Calls \cup {None}]
  /\ msgid \in Ids
  /\ late \subseteq Calls
  /\ listening \subseteq Calls
  /\ requests \subseteq [id : Ids, call : Calls]
  /\ responses \subseteq [id : Ids, call : Calls, kind : {"ok", "err"}]
  /\ runs \in [Calls -> 0..2]
  /\ answer \in [Calls -> Calls \cup {None}]

\* Each attempt that waits is in the map, under one msgid.
PendingMatches ==
  /\ \A id \in Ids : pending[id] # None => status[pending[id]] = "pending"
  /\ \A c \in Calls : status[c] = "pending" => \E id \in Ids : pending[id] = c
  /\ \A id, other \in Ids : pending[id] # None /\ pending[id] = pending[other]
                            => id = other

PendingConnected == \A c \in Calls : status[c] = "pending" => connected

\* A msgid on the connection belongs to the call that is pending under it, if any.
MessagesOwned ==
  \A m \in requests \cup responses : pending[m.id] \in {None, m.call}

\* Only idempotent calls wait, and a listener is that of a call that waits.
WaitersIdempotent ==
  /\ \A c \in Calls : status[c] \in {"waiting", "woken"} => c \in Idempotent
  /\ \A c \in listening : status[c] = "waiting"

\* Nothing is known of a call that has not been made.
IdleUntouched ==
  \A c \in Calls : status[c] = "idle" =>
     /\ runs[c] = 0 /\ c \notin late
     /\ \A m \in requests \cup responses : m.call # c

\* A call that is not idempotent is sent once: while its REQUEST is on the way it
\* has not run.  And who is answered "ok" has run.
SentOnce ==
  /\ \A m \in requests : m.call \notin Idempotent => runs[m.call] = 0
  /\ \A m, n \in requests : m.call = n.call /\ m.call \notin Idempotent => m = n
  /\ \A m \in responses : m.kind = "ok" => runs[m.call] # 0

CallsInv ==
  /\ CallTypes
  /\ PendingMatches
  /\ PendingConnected
  /\ MessagesOwned
  /\ WaitersIdempotent
  /\ NoForgottenWaiter
  /\ IdleUntouched
  /\ SentOnce
  /\ OwnAnswer

USE CallsAssumption

\* It holds on the state that Bridge.connect() resolves with.
LEMMA CallsInit == Init => CallsInv
<1> SUFFICES ASSUME Init PROVE CallsInv
  OBVIOUS
<1> USE DEF Init
<1>1. CallTypes
  BY DEF CallTypes, Ids, Outcomes
<1>2. PendingMatches /\ PendingConnected /\ MessagesOwned
  BY DEF PendingMatches, PendingConnected, MessagesOwned
<1>3. WaitersIdempotent /\ IdleUntouched /\ SentOnce /\ OwnAnswer
  BY DEF WaitersIdempotent, IdleUntouched, SentOnce, OwnAnswer
<1>4. NoForgottenWaiter
  BY DEF NoForgottenWaiter, With
<1> QED
  BY <1>1, <1>2, <1>3, <1>4 DEF CallsInv

\* attempt() takes a msgid that nobody uses, or fails fast.
LEMMA AttemptInv ==
  ASSUME CallsInv, NEW c \in Calls, status[c] \in {"idle", "woken"}, Attempt(c),
         UNCHANGED <<lifecycleVars, late, responses, runs, answer>>
  PROVE  CallsInv'
<1> USE DEF CallsInv, lifecycleVars
<1>1. CASE connected
  <2> DEFINE id == NextMsgId
             m == [id |-> id, call |-> c]
  <2>1. id \in Ids
    BY DEF NextMsgId, Ids, CallTypes
  <2>2. /\ pending[id] = None /\ \A n \in requests \cup responses : n.id # id
        /\ msgid' = id
        /\ pending' = [pending EXCEPT ![id] = c]
        /\ requests' = requests \cup {m}
        /\ status' = [status EXCEPT ![c] = "pending"]
        /\ listening' = listening
    BY <1>1 DEF Attempt, IdNotInUse
  <2>3. c # None /\ c \notin listening
    BY DEF WaitersIdempotent
  <2> HIDE DEF id
  <2>4. CallTypes'
    BY <2>1, <2>2 DEF CallTypes
  <2>5. PendingMatches'
    BY <2>1, <2>2, <2>3 DEF PendingMatches, CallTypes
  <2>6. PendingConnected' /\ WaitersIdempotent' /\ NoForgottenWaiter'
    BY <1>1, <2>2, <2>3 DEF PendingConnected, WaitersIdempotent, NoForgottenWaiter, With, CallTypes
  <2>7. MessagesOwned'
    BY <2>1, <2>2 DEF MessagesOwned, CallTypes
  <2>8. IdleUntouched' /\ OwnAnswer'
    BY <2>2 DEF IdleUntouched, OwnAnswer, CallTypes
  <2>9. SentOnce'
    BY <2>2 DEF SentOnce, CallTypes, IdleUntouched, WaitersIdempotent
  <2> QED
    BY <2>4, <2>5, <2>6, <2>7, <2>8, <2>9
<1>2. CASE ~connected
  <2>1. /\ status' = [status EXCEPT ![c] = AfterConnectionError(c)]
        /\ listening' = IF AfterConnectionError(c) = "waiting"
                        THEN listening \cup {c} ELSE listening
        /\ UNCHANGED <<msgid, pending, requests>>
    BY <1>2 DEF Attempt
  <2>2. /\ AfterConnectionError(c) \in {"conn", "timeout", "waiting"}
        /\ AfterConnectionError(c) = "waiting" => c \in Idempotent
    BY DEF AfterConnectionError
  <2>3. \A i \in Ids : pending[i] # c
    BY DEF PendingMatches
  <2>4. CallTypes'
    BY <2>1, <2>2 DEF CallTypes, Outcomes
  <2>5. PendingMatches' /\ PendingConnected' /\ MessagesOwned'
    BY <2>1, <2>2, <2>3 DEF PendingMatches, PendingConnected, MessagesOwned, CallTypes
  <2>6. WaitersIdempotent'
    BY <2>1, <2>2 DEF WaitersIdempotent, CallTypes
  <2>7. NoForgottenWaiter'
    BY <1>2, <2>1, <2>2 DEF NoForgottenWaiter, With, CallTypes
  <2>8. IdleUntouched' /\ SentOnce' /\ OwnAnswer'
    BY <2>1, <2>2 DEF IdleUntouched, SentOnce, OwnAnswer, CallTypes
  <2> QED
    BY <2>4, <2>5, <2>6, <2>7, <2>8
<1> QED
  BY <1>1, <1>2

\* Time passes, and timers end what is open.
LEMMA TimerInv ==
  ASSUME CallsInv, NEW c \in Calls,
         Expire(c) \/ AttemptTimesOut(c) \/ WaitTimesOut(c)
  PROVE  CallsInv'
<1> USE DEF CallsInv, lifecycleVars
<1>1. CASE Expire(c)
  <2>1. status[c] # "idle"
    BY <1>1 DEF Expire, Open, With
  <2>2. CallTypes' /\ IdleUntouched'
    BY <1>1, <2>1 DEF Expire, CallTypes, IdleUntouched
  <2>3. PendingMatches' /\ PendingConnected' /\ MessagesOwned' /\ WaitersIdempotent'
    BY <1>1 DEF Expire, PendingMatches, PendingConnected, MessagesOwned, WaitersIdempotent
  <2>4. NoForgottenWaiter' /\ SentOnce' /\ OwnAnswer'
    BY <1>1 DEF Expire, NoForgottenWaiter, With, SentOnce, OwnAnswer
  <2> QED
    BY <2>2, <2>3, <2>4
<1>2. CASE AttemptTimesOut(c)
  <2> USE <1>2 DEF AttemptTimesOut, With
  <2>1. CallTypes'
    BY DEF CallTypes, Outcomes
  <2>2. PendingMatches' /\ PendingConnected' /\ MessagesOwned'
    BY DEF PendingMatches, PendingConnected, MessagesOwned, CallTypes
  <2>3. WaitersIdempotent' /\ NoForgottenWaiter'
    BY DEF WaitersIdempotent, NoForgottenWaiter, CallTypes
  <2>4. IdleUntouched' /\ SentOnce' /\ OwnAnswer'
    BY DEF IdleUntouched, SentOnce, OwnAnswer, CallTypes
  <2> QED
    BY <2>1, <2>2, <2>3, <2>4
<1>3. CASE WaitTimesOut(c)
  <2> USE <1>3 DEF WaitTimesOut, With
  <2>1. CallTypes'
    BY DEF CallTypes, Outcomes
  <2>2. PendingMatches' /\ PendingConnected' /\ MessagesOwned'
    BY DEF PendingMatches, PendingConnected, MessagesOwned, CallTypes
  <2>3. WaitersIdempotent' /\ NoForgottenWaiter'
    BY DEF WaitersIdempotent, NoForgottenWaiter, CallTypes
  <2>4. IdleUntouched' /\ SentOnce' /\ OwnAnswer'
    BY DEF IdleUntouched, SentOnce, OwnAnswer, CallTypes
  <2> QED
    BY <2>1, <2>2, <2>3, <2>4
<1> QED
  BY <1>1, <1>2, <1>3

\* A RESPONSE settles the call that is pending under its msgid, and that is its own.
LEMMA ResponseInv ==
  ASSUME CallsInv, NEW m \in responses, ReceiveResponse(m)
  PROVE  CallsInv'
<1> USE DEF CallsInv, lifecycleVars
<1> DEFINE c == pending[m.id]
<1>1. m \in [id : Ids, call : Calls, kind : {"ok", "err"}] /\ c \in {None, m.call}
  BY DEF CallTypes, MessagesOwned
<1>2. /\ responses' = responses \ {m}
      /\ UNCHANGED <<lifecycleVars, msgid, late, listening, requests, runs>>
  BY DEF ReceiveResponse
<1>3. CASE c = None
  <2>1. UNCHANGED <<pending, status, answer>>
    BY <1>3 DEF ReceiveResponse
  <2> USE <1>2, <2>1
  <2>2. CallTypes' /\ PendingMatches' /\ PendingConnected' /\ MessagesOwned'
    BY DEF CallTypes, PendingMatches, PendingConnected, MessagesOwned
  <2>3. WaitersIdempotent' /\ NoForgottenWaiter' /\ IdleUntouched' /\ SentOnce' /\ OwnAnswer'
    BY DEF WaitersIdempotent, NoForgottenWaiter, With, IdleUntouched, SentOnce, OwnAnswer
  <2> QED
    BY <2>2, <2>3
<1>4. CASE c # None
  <2>1. /\ pending' = [pending EXCEPT ![m.id] = None]
        /\ status' = [status EXCEPT ![c] = m.kind]
        /\ answer' = [answer EXCEPT ![c] = m.call]
    BY <1>4 DEF ReceiveResponse
  <2>2. c = m.call /\ c \in Calls /\ status[c] = "pending"
    BY <1>1, <1>4 DEF PendingMatches
  <2> HIDE DEF c
  <2> USE <1>1, <1>2, <2>1, <2>2
  <2>3. CallTypes'
    BY DEF CallTypes, Outcomes
  <2>4. PendingMatches'
    BY DEF CallTypes, PendingMatches, c
  <2>5. PendingConnected' /\ MessagesOwned'
    BY DEF CallTypes, PendingConnected, MessagesOwned
  <2>6. WaitersIdempotent' /\ NoForgottenWaiter'
    BY DEF CallTypes, WaitersIdempotent, NoForgottenWaiter, With
  <2>7. IdleUntouched' /\ SentOnce' /\ OwnAnswer'
    BY DEF CallTypes, IdleUntouched, SentOnce, OwnAnswer
  <2> QED
    BY <2>3, <2>4, <2>5, <2>6, <2>7
<1> QED
  BY <1>3, <1>4

\* The router takes a REQUEST off the connection and puts a RESPONSE on it.
LEMMA RouterInv ==
  ASSUME CallsInv, NEW m \in requests, NEW kind \in {"ok", "err"},
         RouterRuns(m, kind) \/ RouterRefuses(m)
  PROVE  CallsInv'
<1> USE DEF CallsInv, lifecycleVars
<1> DEFINE n == [id |-> m.id, call |-> m.call,
                 kind |-> IF RouterRuns(m, kind) THEN kind ELSE "err"]
<1>1. m \in [id : Ids, call : Calls]
  BY DEF CallTypes
<1>2. /\ requests' = requests \ {m}
      /\ responses' = responses \cup {n}
      /\ UNCHANGED <<lifecycleVars, status, pending, msgid, late, listening, answer>>
  BY DEF RouterRuns, RouterRefuses
<1>3. /\ runs' \in [Calls -> 0..2]
      /\ \A c \in Calls : c # m.call => runs'[c] = runs[c]
      /\ \A c \in Calls : runs[c] # 0 => runs'[c] # 0
      /\ n.kind = "ok" => runs'[m.call] # 0
  BY <1>1 DEF RouterRuns, RouterRefuses, CallTypes, OneMore, Smaller
<1>4. n \in [id : Ids, call : Calls, kind : {"ok", "err"}] /\ n.id = m.id /\ n.call = m.call
  BY <1>1
<1> HIDE DEF n
<1> USE <1>1, <1>2, <1>3, <1>4
<1>5. CallTypes' /\ PendingMatches' /\ PendingConnected'
  BY DEF CallTypes, PendingMatches, PendingConnected
<1>6. MessagesOwned'
  BY DEF CallTypes, MessagesOwned
<1>7. WaitersIdempotent' /\ NoForgottenWaiter' /\ OwnAnswer'
  BY DEF WaitersIdempotent, NoForgottenWaiter, With, OwnAnswer
<1>8. IdleUntouched'
  BY DEF CallTypes, IdleUntouched
<1>9. SentOnce'
  BY DEF CallTypes, SentOnce
<1> QED
  BY <1>5, <1>6, <1>7, <1>8, <1>9

-----------------------------------------------------------------------------
\* Every step of the calls is one of the connection or leaves it alone.
LEMMA LifecycleStep == Next => LifecycleNext \/ UNCHANGED lifecycleVars
BY DEF Next, StartCall, Retry, Expire, AttemptTimesOut, WaitTimesOut, ReceiveResponse,
       RouterRuns, RouterRefuses, Disconnect, Reconnected, CloseBridge,
       OtherLifecycleStep, LifecycleNext

\* So the invariant of the connection is kept.
LEMMA LifecycleKept ==
  ASSUME LifecycleInv, [Next]_vars
  PROVE  LifecycleInv'
<1>1. CASE LifecycleNext
  BY <1>1, SwitchesStep, CountersStep, ConnectionStep, ClosedStep DEF LifecycleInv
<1>2. CASE UNCHANGED lifecycleVars
  BY <1>2 DEF lifecycleVars, LifecycleInv, SwitchesOK, CountersOK, SingleFlight,
              ReconnectUnderWay, NoTimerAfterClose, ConnectedIffSocket, ClosingIsOurs
<1> QED
  BY <1>1, <1>2, LifecycleStep DEF vars

\* A lost connection fails what is pending; the rest of the map is empty.
LEMMA DisconnectInv ==
  ASSUME LifecycleInv, CallsInv, NEW e \in BOOLEAN, NEW f \in BOOLEAN,
         NEW emits \in BOOLEAN, NEW ran \in SUBSET requests, Disconnect(e, f, emits, ran)
  PROVE  CallsInv'
<1> USE DEF CallsInv
<1> DEFINE hearing == listening \cup {c \in With("pending") :
                                       AfterConnectionError(c) = "waiting"}
<1>1. /\ connected' = FALSE
      /\ closing = "done" => closing' = "done"
      /\ UNCHANGED <<msgid, late, answer>>
      /\ pending' = [id \in Ids |-> None]
      /\ requests' = {} /\ responses' = {}
  BY DEF Disconnect, SocketClosed, Return
<1>2. /\ status' = [c \in Calls |->
                     IF emits /\ c \in hearing THEN "woken"
                     ELSE IF status[c] = "pending" THEN AfterConnectionError(c)
                     ELSE status[c]]
      /\ listening' = IF emits \/ (closing' = "done" /\ closing # "done") THEN {} ELSE hearing
  BY DEF Disconnect
<1>3. \A c \in Calls : /\ AfterConnectionError(c) \in {"conn", "timeout", "waiting"}
                       /\ AfterConnectionError(c) = "waiting" => c \in Idempotent
  BY DEF AfterConnectionError
<1>h. /\ hearing \subseteq Calls /\ listening \subseteq hearing
      /\ \A c \in hearing : c \in Idempotent /\ status[c] \in {"pending", "waiting"}
      /\ \A c \in hearing : status[c] = "pending" => AfterConnectionError(c) = "waiting"
      /\ \A c \in Calls : status[c] = "pending" /\ AfterConnectionError(c) = "waiting"
                         => c \in hearing
  BY <1>3 DEF With, CallTypes, WaitersIdempotent
<1>4. /\ runs' \in [Calls -> 0..2]
      /\ \A c \in Calls : runs'[c] # runs[c] => \E m \in requests : m.call = c
  BY DEF Disconnect, OneMore, Smaller, CallTypes
<1> HIDE DEF hearing
<1>5. CallTypes'
  BY <1>1, <1>2, <1>3, <1>4, <1>h DEF CallTypes, Outcomes
<1>6. PendingMatches' /\ PendingConnected' /\ MessagesOwned'
  BY <1>1, <1>2, <1>3 DEF PendingMatches, PendingConnected, MessagesOwned
<1>7. WaitersIdempotent'
  <2>1. \A c \in Calls : status'[c] \in {"waiting", "woken"} => c \in Idempotent
    BY <1>2, <1>3, <1>h DEF WaitersIdempotent
  <2>2. ASSUME NEW c \in listening' PROVE status'[c] = "waiting"
    <3>1. ~emits /\ c \in hearing /\ c \in Calls
      BY <1>2, <1>h, <2>2
    <3> QED
      BY <1>2, <1>h, <3>1
  <2> QED
    BY <2>1, <2>2 DEF WaitersIdempotent
<1>8. NoForgottenWaiter'
  <2>1. ASSUME closing' # "done" PROVE listening' = With("waiting")'
    <3>1. closing # "done" /\ listening = With("waiting")
      BY <1>1, <2>1 DEF NoForgottenWaiter
    <3>2. CASE emits
      <4>1. \A c \in Calls : status'[c] # "waiting"
        BY <1>2, <1>h, <3>1, <3>2 DEF With
      <4> QED
        BY <1>2, <3>2, <4>1 DEF With
    <3>3. CASE ~emits
      <4>1. \A c \in Calls : status'[c] = "waiting" <=> c \in hearing
        BY <1>2, <1>h, <3>1, <3>3 DEF With
      <4> QED
        BY <1>2, <1>h, <2>1, <3>3, <4>1 DEF With
    <3> QED
      BY <3>2, <3>3
  <2> QED
    BY <1>1, <2>1 DEF NoForgottenWaiter
<1>9. IdleUntouched'
  BY <1>1, <1>2, <1>3, <1>4, <1>h DEF IdleUntouched, CallTypes
<1>10. SentOnce' /\ OwnAnswer'
  BY <1>1, <1>2, <1>3 DEF SentOnce, OwnAnswer
<1> QED
  BY <1>5, <1>6, <1>7, <1>8, <1>9, <1>10

\* 'reconnect' wakes everybody who waits.
LEMMA ReconnectedInv ==
  ASSUME LifecycleInv, CallsInv, Reconnected
  PROVE  CallsInv'
<1> USE DEF CallsInv
<1>1. /\ status' = [c \in Calls |-> IF c \in listening THEN "woken" ELSE status[c]]
      /\ listening' = {}
      /\ UNCHANGED <<connected, closing, pending, msgid, late, requests, responses, runs,
                     answer>>
  BY DEF Reconnected, EmitReconnect, Reregistered
<1>2. CallTypes' /\ PendingMatches' /\ PendingConnected' /\ MessagesOwned'
  BY <1>1 DEF CallTypes, PendingMatches, PendingConnected, MessagesOwned, WaitersIdempotent
<1>3. WaitersIdempotent' /\ NoForgottenWaiter'
  BY <1>1 DEF CallTypes, WaitersIdempotent, NoForgottenWaiter, With
<1>4. IdleUntouched' /\ SentOnce' /\ OwnAnswer'
  BY <1>1 DEF CallTypes, IdleUntouched, SentOnce, OwnAnswer
<1> QED
  BY <1>2, <1>3, <1>4

\* The other steps of the connection make nobody a waiter that no 'reconnect' will
\* wake: a new connection has its re-registration before it, and one that throws
\* shows in uncaught.
LEMMA OtherStepInv ==
  ASSUME LifecycleInv, CallsInv, CloseBridge \/ OtherLifecycleStep
  PROVE  CallsInv'
<1> USE DEF CallsInv
<1>1. UNCHANGED <<status, pending, msgid, late, requests, responses, runs, answer>>
  BY DEF CloseBridge, OtherLifecycleStep, callVars
<1>2. /\ listening' \in {{}, listening} /\ (closing' # "done" => listening' = listening)
      /\ connected => connected'
      /\ closing = "done" => closing' = "done"
      /\ connected' /\ registering' = 0 /\ ~uncaught' /\ closing' # "done"
         => connected /\ registering = 0 /\ ~uncaught
  <2>1. CASE CloseBridge
    BY <2>1 DEF CloseBridge, Close, Return
  <2>2. CASE OtherLifecycleStep
    <3>1. UNCHANGED listening
      BY <2>2 DEF OtherLifecycleStep, callVars
    <3>2. CASE ReconnectTimerFires \/ ResetSettles
      BY <3>1, <3>2 DEF ReconnectTimerFires, ResetSettles
    <3>3. CASE ConnectSucceeds
      <4>1. registering' # 0
        BY <3>3 DEF ConnectSucceeds, LifecycleInv, CountersOK
      <4> QED
        BY <3>1, <3>3, <4>1 DEF ConnectSucceeds
    <3>4. CASE ConnectFails
      BY <3>1, <3>4 DEF ConnectFails, EmitError
    <3>5. CASE ReregisterThrows
      BY <3>1, <3>5 DEF ReregisterThrows, EmitError
    <3> QED
      BY <2>2, <3>2, <3>3, <3>4, <3>5 DEF OtherLifecycleStep
  <2> QED
    BY <2>1, <2>2
<1>3. CallTypes' /\ PendingMatches' /\ PendingConnected' /\ MessagesOwned'
  BY <1>1, <1>2 DEF CallTypes, PendingMatches, PendingConnected, MessagesOwned
<1>4. WaitersIdempotent' /\ NoForgottenWaiter'
  BY <1>1, <1>2 DEF WaitersIdempotent, NoForgottenWaiter, With
<1>5. IdleUntouched' /\ SentOnce' /\ OwnAnswer'
  BY <1>1 DEF IdleUntouched, SentOnce, OwnAnswer
<1> QED
  BY <1>3, <1>4, <1>5

\* Every step keeps the invariant.
LEMMA CallsStep ==
  ASSUME LifecycleInv, CallsInv, [Next]_vars
  PROVE  CallsInv'
<1>1. ASSUME NEW c \in Calls, StartCall(c) \/ Retry(c)
      PROVE  CallsInv'
  BY <1>1, AttemptInv DEF StartCall, Retry
<1>2. ASSUME NEW c \in Calls, Expire(c) \/ AttemptTimesOut(c) \/ WaitTimesOut(c)
      PROVE  CallsInv'
  BY <1>2, TimerInv
<1>3. ASSUME NEW m \in responses, ReceiveResponse(m)
      PROVE  CallsInv'
  BY <1>3, ResponseInv
<1>4. ASSUME NEW m \in requests, NEW kind \in {"ok", "err"},
             RouterRefuses(m) \/ RouterRuns(m, kind)
      PROVE  CallsInv'
  BY <1>4, RouterInv
<1>5. ASSUME NEW e \in BOOLEAN, NEW f \in BOOLEAN, NEW emits \in BOOLEAN,
             NEW ran \in SUBSET requests, Disconnect(e, f, emits, ran)
      PROVE  CallsInv'
  BY <1>5, DisconnectInv
<1>6. CASE Reconnected
  BY <1>6, ReconnectedInv
<1>7. CASE CloseBridge \/ OtherLifecycleStep
  BY <1>7, OtherStepInv
<1>8. CASE UNCHANGED vars
  BY <1>8 DEF vars, lifecycleVars, callVars, CallsInv, CallTypes, PendingMatches,
     PendingConnected, MessagesOwned, WaitersIdempotent, NoForgottenWaiter, With,
     IdleUntouched, SentOnce, OwnAnswer
<1> QED
  BY <1>1, <1>2, <1>3, <1>4, <1>5, <1>6, <1>7, <1>8 DEF Next

\* What the theorems below rest on.
THEOREM CallsInvariance == Spec => [](LifecycleInv /\ CallsInv)
<1>1. Init => LifecycleInv /\ CallsInv
  BY InitInv, CallsInit DEF Init
<1>2. LifecycleInv /\ CallsInv /\ [Next]_vars => (LifecycleInv /\ CallsInv)'
  BY LifecycleKept, CallsStep
<1> QED
  BY <1>1, <1>2, PTL DEF Spec

-----------------------------------------------------------------------------
\* The pending map is exact for any number of calls and msgids, as long as a msgid
\* does not come round while it is in use (bridge.ts 206-210, 281-283, 432-447).
THEOREM PendingMapExact == Spec => []PendingExact
<1>1. LifecycleInv /\ CallsInv => PendingExact
  <2> SUFFICES ASSUME LifecycleInv, CallsInv PROVE PendingExact
    OBVIOUS
  <2> USE DEF CallsInv
  <2>1. CallsTypeOK
    BY DEF CallTypes, CallsTypeOK, LifecycleInv, SwitchesOK, CountersOK, LifecycleTypeOK
  <2>2. ~connected => With("pending") = {}
    BY DEF PendingConnected, With
  <2>3. ASSUME NEW c \in With("pending")
        PROVE  \E id \in Ids : pending[id] = c /\ \A other \in Ids \ {id} : pending[other] # c
    BY <2>3 DEF PendingMatches, With
  <2> QED
    BY <2>1, <2>2, <2>3 DEF PendingExact, PendingMatches
<1> QED
  BY <1>1, CallsInvariance, PTL

\* A call is answered for itself (bridge.ts 276-281).
THEOREM AnswersAreOwn == Spec => []OwnAnswer
<1>1. LifecycleInv /\ CallsInv => OwnAnswer
  BY DEF CallsInv
<1> QED
  BY <1>1, CallsInvariance, PTL

\* No call is left waiting on a Bridge that is up (bridge.ts 452-478, 664).
THEOREM WaitersHear == Spec => []NoForgottenWaiter
<1>1. LifecycleInv /\ CallsInv => NoForgottenWaiter
  BY DEF CallsInv
<1> QED
  BY <1>1, CallsInvariance, PTL

-----------------------------------------------------------------------------
\* The refinement of CallContract.

\* What the contract sees of a call.
Outcome(c) == IF status[c] \in {"pending", "waiting", "woken"} THEN "open" ELSE status[c]

\* A step of one call is one that the contract allows it.
StepMeetsContract(c) ==
  /\ \/ Outcome(c)' = Outcome(c)
     \/ Outcome(c) = "idle" /\ (Outcome(c)' = "open" \/ (Outcome(c)' = "conn" /\ c \notin Idempotent))
     \/ /\ Outcome(c) = "open"
        /\ \/ Outcome(c)' = "ok" /\ runs[c] > 0
           \/ Outcome(c)' = "err"
           \/ Outcome(c)' = "timeout" /\ c \in late
           \/ Outcome(c)' = "conn" /\ c \notin Idempotent
  /\ \/ runs'[c] = runs[c]
     \/ Outcome(c) # "idle" /\ (runs[c] > 0 => c \in Idempotent) /\ runs'[c] > runs[c]

\* A call and its retries, up to the next await.
LEMMA AttemptMeetsContract ==
  ASSUME CallsInv, NEW c \in Calls, NEW d \in Calls, StartCall(d) \/ Retry(d)
  PROVE  StepMeetsContract(c)
<1> USE DEF CallsInv
<1>1. UNCHANGED <<late, runs>> /\ Attempt(d) /\ status[d] \in {"idle", "woken"}
  BY DEF StartCall, Retry
<1>2. status[d] = "idle" => d \notin late
  BY DEF IdleUntouched
<1>3. \/ status' = [status EXCEPT ![d] = "pending"]
      \/ status' = [status EXCEPT ![d] = AfterConnectionError(d)]
  BY <1>1 DEF Attempt
<1>4. \/ AfterConnectionError(d) = "conn" /\ d \notin Idempotent
      \/ AfterConnectionError(d) = "timeout" /\ d \in late
      \/ AfterConnectionError(d) = "waiting"
  BY DEF AfterConnectionError
<1> QED
  BY <1>1, <1>2, <1>3, <1>4 DEF StepMeetsContract, Outcome, CallTypes

\* Timers and answers.
LEMMA SettlingMeetsContract ==
  ASSUME CallsInv, NEW c \in Calls,
         \/ \E d \in Calls : Expire(d) \/ AttemptTimesOut(d) \/ WaitTimesOut(d)
         \/ \E m \in responses : ReceiveResponse(m)
  PROVE  StepMeetsContract(c)
<1> USE DEF CallsInv
<1>1. ASSUME NEW d \in Calls, Expire(d) \/ AttemptTimesOut(d) \/ WaitTimesOut(d)
      PROVE  StepMeetsContract(c)
  BY <1>1 DEF Expire, AttemptTimesOut, WaitTimesOut, StepMeetsContract, Outcome, CallTypes
<1>2. ASSUME NEW m \in responses, ReceiveResponse(m)
      PROVE  StepMeetsContract(c)
  <2> DEFINE d == pending[m.id]
  <2>1. UNCHANGED <<late, runs>>
    BY <1>2 DEF ReceiveResponse
  <2>2. CASE d = None
    BY <1>2, <2>1, <2>2 DEF ReceiveResponse, StepMeetsContract, Outcome
  <2>3. CASE d # None
    <3>1. d = m.call /\ d \in Calls /\ status[d] = "pending" /\ m.kind \in {"ok", "err"}
      BY <2>3 DEF MessagesOwned, PendingMatches, CallTypes
    <3>2. m.kind = "ok" => runs[d] > 0
      BY <3>1 DEF SentOnce, CallTypes
    <3>3. status' = [status EXCEPT ![d] = m.kind]
      BY <1>2, <2>3 DEF ReceiveResponse
    <3> HIDE DEF d
    <3> QED
      BY <2>1, <3>1, <3>2, <3>3 DEF StepMeetsContract, Outcome, CallTypes
  <2> QED
    BY <2>2, <2>3
<1> QED
  BY <1>1, <1>2

\* The router runs a request, of a call that has been made, and of one that is not
\* idempotent for the first time.
LEMMA RunningMeetsContract ==
  ASSUME CallsInv, NEW c \in Calls, NEW ran \in SUBSET requests,
         runs' = [d \in Calls |-> IF \E m \in ran : m.call = d THEN OneMore(runs[d])
                                                             ELSE runs[d]],
         Outcome(c)' = Outcome(c)
         \/ (/\ Outcome(c) = "open"
             /\ \/ Outcome(c)' = "timeout" /\ c \in late
                \/ Outcome(c)' = "conn" /\ c \notin Idempotent)
  PROVE  StepMeetsContract(c)
<1> USE DEF CallsInv
<1>1. runs[c] \in 0..2
  BY DEF CallTypes
<1>2. CASE \E m \in ran : m.call = c
  <2>1. status[c] # "idle" /\ (c \notin Idempotent => runs[c] = 0)
    BY <1>2 DEF IdleUntouched, SentOnce
  <2>2. runs'[c] = runs[c] \/ runs'[c] > runs[c]
    BY <1>1, <1>2 DEF OneMore, Smaller
  <2> QED
    BY <1>1, <2>1, <2>2 DEF StepMeetsContract, Outcome
<1>3. CASE ~\E m \in ran : m.call = c
  BY <1>3 DEF StepMeetsContract
<1> QED
  BY <1>2, <1>3

\* Every step of the calls is one that the contract allows.
LEMMA NextMeetsContract ==
  ASSUME CallsInv, Next
  PROVE  C!ContractNext
<1> USE DEF CallsInv
<1>1. ASSUME NEW c \in Calls PROVE StepMeetsContract(c)
  <2>1. ASSUME NEW d \in Calls, StartCall(d) \/ Retry(d)
        PROVE  StepMeetsContract(c)
    BY <2>1, AttemptMeetsContract
  <2>2. CASE \/ \E d \in Calls : Expire(d) \/ AttemptTimesOut(d) \/ WaitTimesOut(d)
             \/ \E m \in responses : ReceiveResponse(m)
    BY <2>2, SettlingMeetsContract
  <2>3. ASSUME NEW m \in requests, NEW kind \in {"ok", "err"}, RouterRuns(m, kind)
        PROVE  StepMeetsContract(c)
    <3>1. runs' = [d \in Calls |-> IF \E n \in {m} : n.call = d THEN OneMore(runs[d])
                                                               ELSE runs[d]]
      BY <2>3 DEF RouterRuns, CallTypes
    <3>2. Outcome(c)' = Outcome(c)
      BY <2>3 DEF RouterRuns, Outcome
    <3>3. {m} \in SUBSET requests
      OBVIOUS
    <3> QED
      BY <3>1, <3>2, <3>3, RunningMeetsContract
  <2>4. ASSUME NEW e \in BOOLEAN, NEW f \in BOOLEAN, NEW emits \in BOOLEAN,
               NEW ran \in SUBSET requests, Disconnect(e, f, emits, ran)
        PROVE  StepMeetsContract(c)
    <3>1. \/ AfterConnectionError(c) = "conn" /\ c \notin Idempotent
          \/ AfterConnectionError(c) = "timeout" /\ c \in late
          \/ AfterConnectionError(c) = "waiting"
      BY DEF AfterConnectionError
    <3>2. \/ status'[c] = IF status[c] = "pending" THEN AfterConnectionError(c) ELSE status[c]
          \/ status'[c] = "woken" /\ status[c] \in {"pending", "waiting"}
      BY <2>4 DEF Disconnect, With, WaitersIdempotent
    <3>3. runs' = [d \in Calls |-> IF \E m \in ran : m.call = d THEN OneMore(runs[d])
                                                             ELSE runs[d]]
      BY <2>4 DEF Disconnect
    <3>4. \/ Outcome(c)' = Outcome(c)
          \/ /\ Outcome(c) = "open"
             /\ \/ Outcome(c)' = "timeout" /\ c \in late
                \/ Outcome(c)' = "conn" /\ c \notin Idempotent
      BY <3>1, <3>2 DEF Outcome
    <3> QED
      BY <3>3, <3>4, RunningMeetsContract
  <2>5. CASE \/ \E m \in requests : RouterRefuses(m)
             \/ CloseBridge \/ OtherLifecycleStep
    BY <2>5 DEF RouterRefuses, CloseBridge, OtherLifecycleStep, callVars,
                StepMeetsContract, Outcome
  <2>6. CASE Reconnected
    BY <2>6 DEF Reconnected, EmitReconnect, StepMeetsContract, Outcome, WaitersIdempotent
  <2> QED
    BY <2>1, <2>2, <2>3, <2>4, <2>5, <2>6 DEF Next
<1>2. late \subseteq late'
  BY DEF Next, StartCall, Retry, Expire, AttemptTimesOut, WaitTimesOut, ReceiveResponse,
         RouterRuns, RouterRefuses, Disconnect, Reconnected, CloseBridge,
         OtherLifecycleStep, callVars
<1>3. ASSUME NEW c \in Calls PROVE C!CallStep(c)
  BY <1>1 DEF StepMeetsContract, Outcome, C!CallStep, C!Begins, C!Settles, C!Runs
<1> QED
  BY <1>2, <1>3 DEF C!ContractNext

\* Calls settle once, in time and with the right to: BridgeCalls implements the
\* contract of callWithOptions() (bridge.ts 402-484).
THEOREM CallsMeetContract == Spec => MeetsContract
<1>1. Init => C!ContractInit
  BY DEF Init, C!ContractInit
<1>2. LifecycleInv /\ CallsInv /\ [Next]_vars => [C!ContractNext]_C!contractVars
  <2>1. CASE UNCHANGED vars
    BY <2>1 DEF vars, callVars, C!contractVars
  <2> QED
    BY <2>1, NextMeetsContract
<1> QED
  BY <1>1, <1>2, CallsInvariance, PTL DEF Spec, MeetsContract, C!Contract
================================================================================
