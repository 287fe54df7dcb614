----------------------------- MODULE BridgeCalls -----------------------------
(***************************************************************************)
(* Outbound calls of one Bridge (packages/bridge/src/bridge.ts,            *)
(* callWithOptions): each call shares its timeout budget between its       *)
(* attempts, an attempt waits in the pending map for the RESPONSE with its *)
(* msgid, a lost connection fails every attempt, and an idempotent call    *)
(* then waits for the 'reconnect' event and tries again.                   *)
(*                                                                         *)
(* The $/register calls of reRegister() and the $/reset of close() are     *)
(* calls like any other here, made by nobody in particular: when they      *)
(* settle is left open, as BridgeLifecycle does.                           *)
(***************************************************************************)
EXTENDS BridgeLifecycle, FiniteSets

CONSTANTS
  Calls,        \* calls of callWithOptions()
  Idempotent,   \* those with opts.idempotent
  IdSpace,      \* how many msgids there are: 2^31 in the code
  None          \* no call

ASSUME CallsAssumption ==
  /\ Idempotent \subseteq Calls
  /\ IdSpace \in Nat \ {0}
  /\ None \notin Calls

VARIABLES
  status,       \* where each call is, its outcome once it has settled
  pending,      \* Bridge.pending: the call an attempt's msgid belongs to
  msgid,        \* Bridge.msgid: the last one allocated
  late,         \* calls whose deadline has passed
  listening,    \* calls with a listener on the Bridge's 'reconnect' event
  requests,     \* REQUESTs on the connection, not yet looked at by the router
  responses,    \* RESPONSEs on the connection, not yet received
  runs,         \* how often the method ran for a call: never, once, more often
  answer        \* the call whose execution produced the result of a call

callVars == <<status, pending, msgid, late, listening, requests,
              responses, runs, answer>>

vars == <<lifecycleVars, callVars>>

Ids == 0..(IdSpace - 1)

Outcomes == {"ok", "err", "timeout", "conn"}

CallsTypeOK ==
  /\ LifecycleTypeOK
  /\ status \in [Calls -> {"idle", "pending", "waiting", "woken"} \cup Outcomes]
  /\ pending \in [Ids -> Calls \cup {None}]
  /\ msgid \in Ids
  /\ late \subseteq Calls
  /\ listening \subseteq Calls
  /\ requests \subseteq [id : Ids, call : Calls]
  /\ responses \subseteq [id : Ids, call : Calls, kind : {"ok", "err"}]
  /\ runs \in [Calls -> 0..2]
  /\ answer \in [Calls -> Calls \cup {None}]

Init ==
  /\ LifecycleInit
  /\ status = [c \in Calls |-> "idle"]
  /\ pending = [id \in Ids |-> None]
  /\ msgid = 0
  /\ late = {}
  /\ listening = {}
  /\ requests = {}
  /\ responses = {}
  /\ runs = [c \in Calls |-> 0]
  /\ answer = [c \in Calls |-> None]

-----------------------------------------------------------------------------
With(st) == {c \in Calls : status[c] = st}

Open == With("pending") \cup With("waiting") \cup With("woken")

\* No promise continuation is due, so the event loop may run a macrotask.
Quiet == With("woken") = {}

NextMsgId == (msgid + 1) % IdSpace

\* Bound: fewer than IdSpace calls are made while one msgid is pending or a message
\* with it is on its way.  nextMsgId() checks neither.
IdNotInUse(id) ==
  /\ pending[id] = None
  /\ \A m \in requests \cup responses : m.id # id

\* Mutant: every call is tried again.
AfterConnectionErrorRetryAll(c) == IF c \in late THEN "timeout" ELSE "waiting"

\* What a ConnectionError does to a call: only an idempotent one with budget
\* left goes on, waiting for 'reconnect'.
AfterConnectionError(c) ==
  CASE c \notin Idempotent -> "conn"
    [] c \in Idempotent /\ c \in late -> "timeout"
    [] OTHER -> "waiting"

\* attempt(): fail fast when disconnected; otherwise allocate a msgid, arm the
\* timer with what is left of the budget, remember the call and write.
Attempt(c) ==
  IF connected
  THEN LET id == NextMsgId IN
       /\ IdNotInUse(id)
       /\ msgid' = id
       /\ pending' = [pending EXCEPT ![id] = c]
       /\ requests' = requests \cup {[id |-> id, call |-> c]}
       /\ status' = [status EXCEPT ![c] = "pending"]
       /\ UNCHANGED listening
  ELSE /\ status' = [status EXCEPT ![c] = AfterConnectionError(c)]
       /\ listening' = IF AfterConnectionError(c) = "waiting"
                       THEN listening \cup {c} ELSE listening
       /\ UNCHANGED <<msgid, pending, requests>>

\* The user calls callWithOptions().
StartCall(c) ==
  /\ Quiet
  /\ status[c] = "idle"
  /\ Attempt(c)
  /\ UNCHANGED <<lifecycleVars, late, responses, runs, answer>>

\* waitForReconnect() resolved TRUE: the loop tries again.
Retry(c) ==
  /\ status[c] = "woken"
  /\ Attempt(c)
  /\ UNCHANGED <<lifecycleVars, late, responses, runs, answer>>

\* Time passes a call's deadline, whatever the event loop is doing.
Expire(c) ==
  /\ c \in Open \ late
  /\ late' = late \cup {c}
  /\ UNCHANGED <<lifecycleVars, status, pending, msgid, listening, requests,
                 responses, runs, answer>>

\* Mutant: the call stays in the pending map.
AttemptTimesOutLeaking(c) ==
  /\ Quiet
  /\ status[c] = "pending" /\ c \in late
  /\ status' = [status EXCEPT ![c] = "timeout"]
  /\ UNCHANGED <<lifecycleVars, pending, msgid, late, listening, requests, responses,
                 runs, answer>>

\* The timer of an attempt fires.
AttemptTimesOut(c) ==
  /\ Quiet
  /\ status[c] = "pending" /\ c \in late
  /\ pending' = [id \in Ids |-> IF pending[id] = c THEN None ELSE pending[id]]
  /\ status' = [status EXCEPT ![c] = "timeout"]
  /\ UNCHANGED <<lifecycleVars, msgid, late, listening, requests, responses,
                 runs, answer>>

\* Mutant: the timer goes with the listeners that close() removes.
WaitTimesOutUnlessClosed(c) ==
  /\ Quiet
  /\ status[c] = "waiting" /\ c \in late /\ c \in listening
  /\ listening' = listening \ {c}
  /\ status' = [status EXCEPT ![c] = "timeout"]
  /\ UNCHANGED <<lifecycleVars, pending, msgid, late, requests, responses,
                 runs, answer>>

\* The timer of waitForReconnect() fires: no reconnect within the budget.
WaitTimesOut(c) ==
  /\ Quiet
  /\ status[c] = "waiting" /\ c \in late
  /\ listening' = listening \ {c}
  /\ status' = [status EXCEPT ![c] = "timeout"]
  /\ UNCHANGED <<lifecycleVars, pending, msgid, late, requests, responses,
                 runs, answer>>

\* Mutant: a RESPONSE settles the first call there is, not the one with its msgid.
ReceiveResponseInOrder(m) ==
  /\ Quiet
  /\ m \in responses
  /\ responses' = responses \ {m}
  /\ IF With("pending") = {}
     THEN UNCHANGED <<pending, status, answer>>
     ELSE LET id == CHOOSE i \in Ids : pending[i] # None IN
          /\ pending' = [pending EXCEPT ![id] = None]
          /\ status' = [status EXCEPT ![pending[id]] = m.kind]
          /\ answer' = [answer EXCEPT ![pending[id]] = m.call]
  /\ UNCHANGED <<lifecycleVars, msgid, late, listening, requests, runs>>

\* handleMessage() on a RESPONSE: the call waiting under its msgid settles, and
\* one nobody waits for any more is ignored.
ReceiveResponse(m) ==
  /\ Quiet
  /\ m \in responses
  /\ responses' = responses \ {m}
  /\ LET c == pending[m.id] IN
     IF c = None
     THEN UNCHANGED <<pending, status, answer>>
     ELSE /\ pending' = [pending EXCEPT ![m.id] = None]
          /\ status' = [status EXCEPT ![c] = m.kind]
          /\ answer' = [answer EXCEPT ![c] = m.call]
  /\ UNCHANGED <<lifecycleVars, msgid, late, listening, requests, runs>>

-----------------------------------------------------------------------------
\* The router and the MCU (not under src/): a request runs once and is answered,
\* or is refused with an error without running ("method not available").
OneMore(n) == Smaller(n + 1, 2)

RouterRuns(m, kind) ==
  /\ m \in requests
  /\ requests' = requests \ {m}
  /\ responses' = responses \cup {[id |-> m.id, call |-> m.call, kind |-> kind]}
  /\ runs' = [runs EXCEPT ![m.call] = OneMore(@)]
  /\ UNCHANGED <<lifecycleVars, status, pending, msgid, late, listening,
                 answer>>

RouterRefuses(m) ==
  /\ m \in requests
  /\ requests' = requests \ {m}
  /\ responses' = responses \cup {[id |-> m.id, call |-> m.call, kind |-> "err"]}
  /\ UNCHANGED <<lifecycleVars, status, pending, msgid, late, listening,
                 runs, answer>>

-----------------------------------------------------------------------------
\* The steps of BridgeLifecycle and what they do to the calls.

\* Mutant: 'reconnect' leaves the calls that are late to their timers.
EmitReconnectToSome ==
  /\ status' = [c \in Calls |-> IF c \in listening \ late THEN "woken" ELSE status[c]]
  /\ listening' = {}

\* emit('reconnect'): each listening call is woken; once() removes its listener.
EmitReconnect ==
  /\ status' = [c \in Calls |-> IF c \in listening THEN "woken" ELSE status[c]]
  /\ listening' = {}

\* onTransportClose() rejects every pending attempt with a ConnectionError.  The
\* router still runs those of the requests it has forwarded already (ran).
\*
\* A doReconnect() whose re-registration this ends goes on, unless that threw, to
\* emit 'reconnect' on the connection that is gone (emits): the calls that wait, and
\* those that just came to, wake in vain.  When close() returns it removes their
\* listeners, before or after that.
Disconnect(withError, failing, emits, ran) ==
  LET goesOn == registering > 0 /\ (failing => errorListener)
      hearing == listening \cup {c \in With("pending") :
                                   AfterConnectionError(c) = "waiting"} IN
  /\ Quiet
  /\ SocketClosed(withError, failing)
  /\ emits => goesOn
  /\ goesOn /\ closing \in {"no", "done"} => emits
  /\ pending' = [id \in Ids |-> None]
  /\ status' = [c \in Calls |->
                  IF emits /\ c \in hearing THEN "woken"
                  ELSE IF status[c] = "pending" THEN AfterConnectionError(c)
                  ELSE status[c]]
  /\ listening' = IF emits \/ (closing' = "done" /\ closing # "done") THEN {} ELSE hearing
  /\ ran \subseteq requests
  /\ runs' = [c \in Calls |-> IF \E m \in ran : m.call = c
                              THEN OneMore(runs[c]) ELSE runs[c]]
  /\ requests' = {}
  /\ responses' = {}
  /\ UNCHANGED <<msgid, late, answer>>

Reconnected ==
  /\ Quiet
  /\ Reregistered
  /\ EmitReconnect
  /\ UNCHANGED <<pending, msgid, late, requests, responses, runs, answer>>

CloseBridge ==
  /\ Quiet
  /\ Close
  /\ listening' = IF closing' = "done" THEN {} ELSE listening
  /\ UNCHANGED <<status, pending, msgid, late, requests, responses, runs,
                 answer>>

OtherLifecycleStep ==
  /\ Quiet
  /\ \/ ReconnectTimerFires
     \/ ConnectSucceeds
     \/ ConnectFails
     \/ ReregisterThrows
     \/ ResetSettles
  /\ UNCHANGED callVars

Next ==
  \/ \E c \in Calls : \/ StartCall(c) \/ Retry(c) \/ Expire(c)
                      \/ AttemptTimesOut(c) \/ WaitTimesOut(c)
  \/ \E m \in responses : ReceiveResponse(m)
  \/ \E m \in requests : RouterRefuses(m)
                         \/ \E kind \in {"ok", "err"} : RouterRuns(m, kind)
  \/ \E e, f, emits \in BOOLEAN, ran \in SUBSET requests : Disconnect(e, f, emits, ran)
  \/ Reconnected
  \/ CloseBridge
  \/ OtherLifecycleStep

Spec == Init /\ [][Next]_vars

\* Timers fire and continuations run.  Nothing is assumed of the router.
Fairness ==
  \A c \in Calls : /\ WF_vars(Retry(c))
                   /\ WF_vars(Expire(c))
                   /\ WF_vars(AttemptTimesOut(c))
                   /\ WF_vars(WaitTimesOut(c))

FairCallSpec == Spec /\ Fairness
-----------------------------------------------------------------------------
\* Types; and the pending map holds exactly the attempts that wait for a RESPONSE,
\* each under its own msgid: a leaked entry would settle a call twice or never be
\* freed, a missing one would leave a call to its timeout (bridge.ts 206-210,
\* 281-283, 442-447).  Nothing is pending without a connection: such a call could
\* only time out, and an idempotent one would not be retried (432-438).
PendingExact ==
  /\ CallsTypeOK
  /\ ~connected => With("pending") = {}
  /\ \A id \in Ids : pending[id] # None => status[pending[id]] = "pending"
  /\ \A c \in With("pending") : \E id \in Ids :
        pending[id] = c /\ \A other \in Ids \ {id} : pending[other] # c

\* A call that is answered is answered for itself, whatever was lost, late or sent
\* again before (bridge.ts 276-281).
OwnAnswer == \A c \in Calls : status[c] \in {"ok", "err"} => answer[c] = c

\* An idempotent call that lost its connection is retried by the next 'reconnect'
\* (bridge.ts 452-478): no call is left waiting on a Bridge that is connected and
\* has re-registered, unless the re-registration threw or the Bridge was closed;
\* and each one hears the next 'reconnect' until close() has removed all listeners
\* (bridge.ts 462, 664).
NoForgottenWaiter ==
  /\ connected /\ registering = 0 /\ ~uncaught /\ closing # "done"
     => With("waiting") = {}
  /\ closing # "done" => listening = With("waiting")

\* What the caller of callWithOptions() sees refines its contract.
C == INSTANCE CallContract WITH
       outcome <- [c \in Calls |-> IF status[c] \in {"pending", "waiting", "woken"}
                                   THEN "open" ELSE status[c]],
       ran <- runs,
       overdue <- late

MeetsContract == C!Contract

\* The budget caps the time of every call, even when the router never answers, the
\* Bridge never reconnects or is closed meanwhile (bridge.ts 419-420): it settles.
EveryCallSettles ==
  \A c \in Calls : status[c] # "idle" ~> status[c] \in Outcomes
=============================================================================
