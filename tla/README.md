# A TLA+ model of n8n-uno-q

n8n-uno-q connects n8n workflows to Arduino UNO Q boards. A board runs
`arduino-router`, a MessagePack-RPC switch between the MCU's sketch and the
processes on the Linux side. The program keeps a connection to the router, calls
methods of the MCU, offers methods to it, and receives its notifications. The
hard part is not what a message says but *when*: sockets drop at any moment,
reconnects run beside calls, registrations and `close()`, and several workflow
nodes share one connection. That is what is modelled here.

Source paths below are relative to `src/packages/`.

## Inventory

| Component | State it keeps | Operations | What is hard | What makes it correct |
|---|---|---|---|---|
| Bridge: connection (`bridge/src/bridge.ts`, `transport/socket-base.ts`) | socket, `connected`, `closedByUs`, reconnect timer and attempt count | connect, onTransportClose, scheduleReconnect, doReconnect, close | `close()` in any phase of a reconnect, errors nobody listens to | one reconnect at a time; always one while it is needed; none after `close()`, which returns |
| Bridge: outbound calls (`bridge.ts` callWithOptions) | `pending`, `msgid`, a timer and a deadline per call | call, RESPONSE, timeout, wait for 'reconnect', retry | late answers, drops between retry and answer, budget shared by retries | a call settles once, in time, with its own answer; one that is not idempotent runs at most once |
| Bridge: registry (provide, onNotify, reRegister) | `providers`, `notifyHandlers`; the router's routes | provide, onNotify, unsubscribe, reRegister | drops during a registration, a router that still holds the old routes, other clients | what is provided or subscribed to is routed, or reported as lost |
| Bridge: inbound requests (handleMessage, waitForActiveHandlers, close) | `inFlightRequests`, `activeHandlers` | REQUEST, handler ends, drain, close | handlers that outlive their connection, `close()` beside handlers | each request is answered once, by its own handler or with an error |
| BridgeManager (`n8n-nodes/src/BridgeManager.ts`) | entries: bridge, `refCount`, `methodRefs`, `pendingClose` | acquire, getBridge, release, addMethodRef, removeMethodRef | awaits between looking an entry up and using it | counts are those of the owners; nobody loses a Bridge in use; everybody who comes gets one |
| Trigger and Respond nodes, `PendingRequests` | pending deferred answers by msgid, a timer each | register, take, resolve, reject, time out | timeout beside answer, msgids shared by devices, a Respond node that fails half-way | each deferred request is answered once, by its own execution, and is settled |
| `SshServer` and the SSH transport (`n8n-nodes/src/SshServer.ts`, `bridge/src/transport/ssh.ts`) | listening server, registry of devices, waiters | listen, device connects, registers and drops, connect with timeout, close | concurrent listen(), a device that comes back before its former connection is gone, waiter beside timeout | a waiter settles once, a dead device is not handed out, a Bridge reaches its own device |
| Tool and Call nodes (`nodes/UnoQTool`, `nodes/UnoQCall`, `n8n-nodes/src/rateLimiter.ts`) | call times per counter key | cap, guard, record, borrow the Bridge, call | window boundary, items of executions that overlap, a budget that misleads guard and model | never more calls than the cap in a window; who is told to retry later may |
| Arduino Cloud triggers (`n8n-nodes-arduino-cloud/src/cloudClientManager.ts`) | MQTT clients with counts, demux sets, marks of what the SDK was asked for | subscribe, unsubscribe, tear-down | shared connects that fail, closures that keep a dropped entry | one client per credential, one value emitted once, the client goes with its last user |
| Arduino Cloud requests (`rateLimiter.ts`, `guard.ts`, `restThrottle.ts`, `auth/tokenCache.ts`, `arduinoCloudApi.ts`) | call times, token bucket and its chain, OAuth token | admit, wait, fetch, send | timers that are early or late, a token that expires on its way | cap and rate hold over every stretch of time, no stale token is sent |
| Codec (`bridge/src/codec.ts`) | bytes of a partial message | feed | chunks of any size, sizes that are measured by encoding again, a rest that survives a reconnect | messages come out once, whole and in order |

The nodes call the BridgeManager, which owns the Bridges; a Bridge owns a
transport, listens to its `data`, `error` and `close` events and reuses it for
every reconnect. Everything runs on one event loop: components interleave at
every `await` and nowhere else.

## Atomicity

One action is one macrotask (a socket event, a timer, a call from outside) with
the promise continuations it settles. Node runs those to the end before it takes
the next macrotask, so nothing can come between. Where a continuation starts
something that itself can be told apart, as a woken call that tries again
(`Retry`) or an `acquire()` that goes on after a close (`Resume`), it is an action
of its own, and the others wait for it (`Quiet`).

## Modules

**BridgeLifecycle** is the connection of one Bridge. `SocketClosed` is
onTransportClose() with the 'error' event that may precede it; the reconnect
timer, the attempt and the re-registration after it are counted (`timer`,
`connecting`, `registering`), so that two at once would show. `backoff` stands for
min(base * 2^attempt, max). `closing` follows close() through its two awaits.
`errorListener` says whether anybody listens to 'error': emit('error') throws when
nobody does, which ends whatever was to come after it (`uncaught`). An ended socket
closes when the router closes its side, as an ordinary `SocketClosed`, or never.
**BridgeLifecycleProofs** proves its safety properties.

**BridgeStream** extends BridgeLifecycle with the bytes of a connection and the
StreamDecoder. A byte is the place in its message, so that a piece of a message can
be told from a whole one; what decodeMulti() yields on bytes that begin inside a
message is any values of any length (`Decodings`). `Reencoded` is how many bytes the
values have when they are encoded again, which feed() takes for what it has
consumed: `Wire` and `Canon` are the sizes on the wire and after that. `decoded` is what
feed() has returned. `Dispatch` is the loop of onData() over it, which a notification
handler that throws ends: `skipped` is what reaches nobody then. `whole` is a
history variable: it ends when a connection is lost inside a message. Its actions and
specification have names of their own (`StreamBreaks`, `StreamNext`, `StreamSpec`), so
that one module can prove about it and about BridgeInbound.

**CallContract** is what callWithOptions() promises of a call, in four lines: it
settles once, a call that is not idempotent runs at most once, only such a call
fails with a ConnectionError, a TimeoutError means that the budget is used up.

**BridgeCalls** extends BridgeLifecycle with the calls. `Attempt` is attempt():
fail fast or take a msgid, remember the call and write. Calls are retried by
'reconnect' (`EmitReconnect`, `Retry`; a connection that drops during reRegister() is
followed by that event all the same, which is part of `Disconnect`), time out while pending or waiting, and are
answered, late or not, by a router that may also refuse or stay silent. It
refines CallContract (`MeetsContract`). The `$/register` and `$/reset` calls of the
Bridge itself are calls like any other; when they settle is left open.

**BridgeRegistry** extends BridgeLifecycle with provide(), onNotify(), the loop of
reRegister() one `$/register` at a time, and the router's table: a route is free,
ours, stale (our old connection's, whose end the router has not noticed) or of
another client.

**BridgeInbound** extends BridgeLifecycle with the requests the router forwards:
the handler, `inFlightRequests`, `activeHandlers`, the drain of
BridgeManager.release() and the error answers of close(). Once the socket has been
ended nothing can be written to it (`Writable`), and a caller whose answer would have
to be written then is `unheard`; one whose connection is lost is `cutOff`. A router
may give the msgids of a connection again on the next one, as one that restarts does.

**BridgeManager** is the manager for one transport descriptor and one method.
Entries and Bridges are objects, named for the user that makes them and, as an
acquire() keeps the entry it found while it awaits, for the call that makes them. The synchronous methods are functions of the manager's state
(`GetEntry`, `AddMethodRef`, `RemoveMethodRef`, `Release`), and the actions compose
them in the order of the code, of UnoQTrigger.trigger() and of its closeFunction.
Each user comes once: an activation of a trigger, or an item of a Call or Tool node,
which borrows the Bridge without counting itself. `strayed` is a history variable:
somebody has gone on with an entry that was dropped from the map, which the code
does and after which no count is right; the run `release_closes_anothers_bridge` shows what
comes of it. **BridgeManagerProofs** proves
its safety properties.

**DeferredAnswers** looks into what BridgeInbound calls a running handler, when the
trigger is set to answer by a Respond node. A request stands for itself and for
the execution it starts; the items of executions reach Respond nodes in any order
(`RespondValue`, `RespondError`, `RespondFails`, `RespondFindsNone`). `entries` is the
map of PendingRequests, keyed by msgid alone; `Shared` says whether a msgid may come
again while an execution that knows it is under way.
**DeferredAnswersProofs** proves its safety properties for the case that it may not.

**SshRelay** is the server that devices dial in to, and the Bridges (`Dialers`) that
reach them through it. `server`, `config` and `port` are `this.server`, `this.config`
and the listener of the operating system, which differ while a listen() or a
close() awaits. A client is one SSH connection; authentication is one step whose
verdict is left open. `Forward` is installEntry(), with the eviction of the client
that forwarded before; one that has been evicted may ask again until it is gone. **SshRelayProofs** proves its safety properties.

**CloudClients** is the client manager of the Arduino Cloud triggers, for one
credential. Entries are numbered, because the closures of a trigger keep the one
they captured. `Leave` is what unsubscribing and a refused SDK call have in common.
The first half of **CloudProofs** proves its safety properties.

**CallGate** is what the Tool node and the Cloud node have before a call: the
sliding-window cap, the guard and the record, with one rate limiter each and the
same code. The guard is the user's; the model's is the one that the README of
n8n-nodes shows, which reads `budget.remaining` and keeps the last calls for what is
urgent. `refusal` is the budget that a refused item was told. The list of timestamps
that the code keeps is a set of calls, each with its time and its number among the
calls of that tick: the clock of this model does not go back, so that the order of
the list is that of the times, and its first element the least (`First`).

**CloudRest** extends CallGate and follows a REST request through the gate, the
throttle's chain and bucket, the token cache and to the wire, in discrete time. One tick is whatever
divides the constants of the code; only their ratios matter. `recorded` and `burst`
are history variables: all the recorded calls, and the most that was granted in
any stretch of time less what that time gives back. Timers may be early by `Slack`
(setTimeout truncates to milliseconds) and late without limit. So may the answer with
a token be, as fetchToken() has no timeout. The second half of
**CloudProofs** proves its safety properties, with those of the gates.

Definitions whose comment begins with "Mutant:" are faulty variants of the
definition that follows them. No specification uses them: they serve to show that
the properties notice the fault.

### How the modules hang together

BridgeCalls, BridgeRegistry, BridgeInbound and BridgeStream each EXTEND BridgeLifecycle and
conjoin their own part of a step to its actions (`Disconnect`, `Connected`, `Reset`),
with `OtherLifecycleStep` for the steps they only watch: each is a composition of
the connection with one of its users. BridgeStream is another, with the bytes
below them: what the other three receive one by one is what it has put together.
CallContract is instantiated by BridgeCalls
with a refinement mapping. Each of BridgeCalls, BridgeRegistry and BridgeInbound has a
module of proofs (**BridgeCallsProofs**, **BridgeRegistryProofs**,
**BridgeInboundProofs**), which rests on that of the connection; BridgeInboundProofs is
about BridgeStream as well, which shares the connection with BridgeInbound and nothing
else. CloudProofs extends both halves of the Cloud
package, which share no variable: it proves two specifications. BridgeManager sees a Bridge as connecting, open, closing
or closed, which is what it can tell. SshRelay sees a Bridge as its transport. A Tool
item is CallGate's before it has passed the gate, BridgeManager's while it borrows
the Bridge, and BridgeCalls' from then on; a Cloud item stays in CloudRest.

## Runs and bounds

| Run | Instance | What it shows |
|---|---|---|
| `bridge` | messages of 2 and 3 bytes, three on a connection; two requests with two msgids, which a new connection may use again; delays 1 to 5000, doubling | messages are decoded once, in order and in the end, whatever the chunks; one reconnect at a time with a delay that follows the outage, always one under way where errors are listened to, none after close(); requests are answered once and only to callers that wait, a handler that ends leaves an answer unless the socket has been ended, a complete drain leaves close() nothing to answer; with fairness the Bridge recovers, close() waits for nothing but the end of a live socket, and what was taken before close() is answered unless the connection is lost |
| `decoder_loses_step` | the bytes alone, without fairness, with a message that encode() makes shorter | a piece of it stays in the buffer (finding) |
| `failed_attempt_ends_reconnecting` | BridgeLifecycle by itself, without fairness | a Bridge whose 'error' has no listener stops at the first failed attempt (finding) |
| `calls` | one idempotent call and one that is not, two msgids | the pending map is exact, answers are one's own, the contract is refined, every call settles |
| `registry` | two provide(), two onNotify(), two names, another client | what is provided or subscribed to is routed, or reported |
| `foreign_handler_answers` | the requests alone, without fairness | a handler of a former connection answers the request that has its msgid now (finding) |
| `manager` | two triggers in Request mode, one in Notification mode, an item | counts are those of the owners and a method has one trigger in Request mode, unless somebody strayed; everybody who comes is served, if attempts to connect and closes end |
| `release_closes_anothers_bridge` | the same, without fairness | a trigger that strayed releases another's entry and closes its Bridge (finding) |
| `deferred` | four requests, three with one msgid, two Respond items each | answers and reports are those of the own request; every request settles unless its Respond node failed |
| `answers_wrong_request` | the same with shared msgids | the Respond node of one request answers another (finding) |
| `ssh_relay` | three Bridges of two devices and two configs, two connections | registry, waiters and channels are exact; every connect() ends |
| `cloud` | three triggers on two keys, five activations; an urgent item, another and a list, cap 2 in 2 ticks, one of them in reserve, bucket of 1, four ticks | counts, marks and emissions are right whatever fails; cap, honest retry of cap and guard, rate; and a token is valid when it is sent, if it came within the margin |

In `bridge` and `cloud` a behaviour follows one of two parts that share nothing but, in
`bridge`, the connection (`follows` in MCBridge and MCCloud): the bytes or the requests,
the triggers or the REST requests. To interleave them would multiply the states and show
nothing new. The properties of the connection are checked with both.

Why these are enough. Two calls, requests or registrations are what a race needs;
the third actor is there where a fault needs a bystander: the other client of the
router, the trigger of another mode, the second key, the device of another
credential. Msgids are as few as can be, so that they are used again at once.
`IdNotInUse` excludes that a msgid comes round (2^31 of them) while a call is pending
under it or a message with it is on its way, of which nextMsgId() looks at neither. The
router's msgids are unique on one connection, and on no two. MaxDelay is no
power-of-two multiple of BaseDelay, so that the cap bites between two doublings; `calls`
and `registry` take one delay, which they do not look at. MaxActivations, MaxResponds and MaxTime end what would go on
for ever; four ticks are two windows and two refills, more than a token's lifetime, and
enough for a record to be dropped. Users of BridgeManager come once each, so that a
Bridge and three entries for each are all that can be made. Clients of SshRelay are used once; two suffice for an eviction, Bridges
dial again without end. Three messages of two sizes are cut into every chunk there
can be, and the router sends none once `whole` has ended: what the decoder makes of
them then is known to be wrong.

Type invariants of BridgeLifecycle, DeferredAnswers and SshRelay are theorems of their
own; the others are checked, and proved, as the first conjunct of the invariant that leans
on them most
(`PendingExact`, `ProviderIsRouted`, `AnsweredOnce`, `OwnersCounted`, `CountsMatchUsers`,
`ThrottleBound`).

CHECK_DEADLOCK is FALSE throughout: a closed Bridge, a workflow that is over and a
used-up bound are legitimate ends.

## Fairness

Weakly fair is what the event loop guarantees: a timer that is armed fires, and a
continuation that is due runs. An attempt to connect may hang (SocketTransport.connect()
has no timeout of its own), an ended socket may never close, a token may never come.
What is assumed beyond that is assumed in the runs named here, and by no theorem:

- `Recovers` (`bridge`) needs a router that is not down for ever: `RouterComesBack` is
  strong fairness of a successful attempt, as attempts come and go.
- `SentIsDecoded` (`bridge`) needs bytes on the wire to arrive while the connection lives.
- `TakenIsAnswered` (`bridge`) needs a connection that delivers what is on it, and
  handlers that end, which UnoQTrigger's timer brings about. A caller whose connection
  is lost is not said to hear anything: the code cannot tell it.
- `EveryComerIsServed` (`manager`) says of itself that it holds if no attempt to connect
  and no close goes on for ever. The code bounds neither: the drain and `$/reset`
  have their timeouts, transport.close() has none.
- `EveryConnectEnds` (`ssh_relay`): a channel that is asked for is opened, refused, or
  lost with its client, whose keepalive runs out. A device that lives and does not
  answer is not covered, as forwardOut() has no timeout.

Nothing is assumed of workflows: DeferredAnswers has fair timers and nothing else, and
triggers are left active as long as one likes. `CloseEndsSocket` and `EveryCallSettles`
need the event loop alone. CloudClients, CloudRest and BridgeRegistry check safety alone.

## Proofs

Checked by tlapm with Z3, Zenon and LS4, for all values of the constants:

- **BridgeLifecycleProofs**, from `LifecycleAssumption` (positive delays):
  `TypeCorrectness`, `OneReconnect`, `AlwaysReconnecting`, `TimerCleared`, and the
  action properties `NoLateAttempt` and `BackoffFollows`. The invariant
  `LifecycleInv` is the conjunction of the properties with `ConnectedIffSocket` and
  `ClosingIsOurs`; neither OneReconnect nor AlwaysReconnecting is inductive without
  them, since an attempt that fails schedules the next one and must know that the
  Bridge is down. Its type invariant is split in a Boolean half and a numeric half
  because the solvers take one each. `TimerCleared` states a part of the invariant that
  no run checks on its own: close() leaves no timer armed.
- **BridgeCallsProofs**, from `CallsAssumption`, extends the former: `PendingMapExact`,
  `AnswersAreOwn`, `WaitersHear`, and the refinement `CallsMeetContract`. `CallsInv`
  adds to the properties who may be on the wire: `MessagesOwned` (the msgid of a
  message is free or that of its call, because `Attempt` takes no msgid that is in
  use), `SentOnce` (while the REQUEST of a call that is not idempotent is on its way
  it has not run), `IdleUntouched` and `WaitersIdempotent`. The refinement is shown
  step by step: each action settles at most the calls it names, and a run is one that
  `SentOnce` allows.
- **BridgeInboundProofs**, from `InboundAssumption`: `OneAnswer`, `DrainIsEnough`, whether
  or not msgids come again on a new connection. What carries it is `IdsDistinct`
  (callers that wait have different msgids, for they are of one connection) with
  `InFlightOwned` (an entry of inFlightRequests is of a caller that waits and has no answer
  on its way) and `NobodyForgotten` (what has arrived is in the map or has its answer on
  the way). A handler that outlives its connection may take the entry of another
  request, which it answers then: one answer all the same, so that OneAnswer holds where
  `AnsweredByOwnHandler` does not.
  Its second half is about the bytes, from `StreamAssumption` and the hypothesis
  `Canon = Wire` (encode() makes as many bytes of a value as the router sent for it;
  the run `decoder_loses_step` shows a value of which that is not so):
  `StreamInvariant`, `MessagesInOrder`, `TailStays`, for any kinds of message of any
  sizes, any number of them and any chunks. `Stream` says of a sequence that it is
  messages one after the other, `Boundaries` where they end. `StreamInv` says that
  buffer and inTransit together are the messages after the last one decoded, up to the
  last one sent, and that the buffer holds none whole: `BufferIsTheTail` alone does not
  say what follows the first message and is not inductive. The step that matters is
  feed(): decodeMulti() yields the messages that end in the chunk and no others
  (`EndsAreBoundaries`), they are the next numbers (`ValuesInOrder`), encoded again they
  are as long as what is to be taken off (`SizesAdd`), and what is left is messages
  again (`Taken`). `ConnectionBelow` gives the theorems about the connection
  (`OneReconnect` and its like) for BridgeStream, under which the run `bridge` checks
  them.
- **BridgeRegistryProofs**, from `RegistryAssumption`: `ProvidersRouted`,
  `SubscriptionsRouted`. A method is `Accounted` for when it is routed, still to be
  registered by the loop, awaited by it, or reported; this holds in the middle of a
  re-registration as well, and `LoopIsRunning` takes the second and third away at its
  end. A subscription may also be `Registering`: its first onNotify() awaits an answer
  or has failed. `GrantsHold` makes an answer worth something when it is received.
- **DeferredAnswersProofs**, from `DeferredAssumption` and the hypothesis `~Shared`:
  `DeferredTypes`, `OwnAnswers`, `HonestReports`, `EntriesExact`. What carries it is
  `OneCurrent` (a msgid belongs to one request that is under way or whose
  execution is) with `EntriesKeyed`: an execution that finds an entry finds its own
  (lemma `OwnEntry`). Without the hypothesis `OwnAnswers` is false, as the
  run `answers_wrong_request` shows.
- **SshRelayProofs**, from `RelayAssumption`: `RelayTypes`, `RegistryExact`,
  `WaitersExact`, `OwnDevice`. The properties are inductive together with `Named` (who
  is past authentication has a nickname), and not alone: the end of a client takes
  its Bridges out of `opening`, never out of `waiting`, because of ChannelToOwnDevice.
- **BridgeManagerProofs**, from `ManagerAssumption`, which has finitely many triggers:
  `OwnersCount`, `OneRequesterServed`. The invariant is `Straight`
  until somebody has `strayed`, and types from then on. `OneEntry` carries it: who owns
  goes on with the entry in the map, and while that one is being closed nobody owns it
  and nobody has yet resumed, so that the release that follows finds the counts it
  left. The effect of each synchronous method is a lemma (`AddMethodRefGives`, `ReleaseGives`
  and so on); the steps that change counts are instances of `Settled`, those that
  count nothing of `Aside`. After straying the counts are wrong, and nothing is
  claimed of them.
- **CloudProofs** for CloudClients, from `KeysAssumption` and `ActivationsAssumption`:
  `CountsHold`, `MarksHold`, `EmitsOnce`, and the action property `ClientsOutlive`.
  `ClientsServe` (the client that lives is that of the entry in the map, and of the
  triggers that lean on it) and `OneCloses` (a disconnect is the last user's) carry them:
  the closures keep entries that have been dropped, and must not find a client there.
- **CloudProofs** for CloudRest and CallGate, from their six assumptions:
  `CapHolds`, `RefusalsAreHonest`, `BudgetKept`, `TokensValid`. The cap holds over every
  window that begins with a call, because a call is counted with the calls that are
  still kept, and no call is dropped within a window (`CallsCounted`). A refusal is
  honest as long as there are calls that vouch for it, which leave the window when it
  says (`RefusalsHonest`). The bucket is balanced: `burst` and what is in the bucket never
  come to more than its capacity, because who sleeps does so until the token
  is there (`BucketBalanced`). Nobody is on the chain twice (`ChainExact`), which bounds
  its length. What the cache serves expires
  by its own count in more than the margin (`Fresh`), and by the server's in less than
  the time on the way before that; a token that has just come is valid because it lives
  longer than the margin (`TokenAssumption`). `LeastNatural` stands for an
  induction, by the well-foundedness of finite subsets.

Model-checked only: all liveness (fairness and ENABLED are out of the prover's reach).
Every safety property that a passing run checks is the property of a theorem, under the
hypotheses named above.

## Where code and documents part

Five are runs that end in a violation, listed as findings:

- `failed_attempt_ends_reconnecting`: the reconnect stops when nobody listens to 'error'
  (`bridge.ts:249`).
- `decoder_loses_step`: the decoder takes the size of a value encoded again for that of
  the message it has read (`codec.ts:99`).
- `foreign_handler_answers`: a handler that outlives its connection deletes, and answers,
  the request that has its msgid now (`bridge.ts:320`).
- `release_closes_anothers_bridge`: acquire() goes on, after a pendingClose, with an entry
  that the close has dropped from the map; the Bridge it opens is nobody's, and the
  release() that follows is another's (`BridgeManager.ts:81-83`).
- `answers_wrong_request`: the Respond node answers the request of another device
  (`UnoQRespond.node.ts:148`).

The others were met on the way, by runs of these modules with other constants or weaker
properties, or by reading; the modules have this behaviour, and no property says
that the code is free of it.

- The decoder keeps the bytes of a message that a lost connection cut off, and
  takes the first bytes of the next connection for the rest of it
  (`bridge.ts:107`, against "Cleans up per-connection state" of 198-199); from then on
  it is out of step until the Bridge is closed.
- close() awaits the router's end of the socket, without a timeout
  (`socket-base.ts:81-84`), against "A bounded timeout means a slow router doesn't block
  close()" (`bridge.ts:618-619`): the timeout is that of `$/reset` alone. So close()
  need not return (BridgeLifecycle), nor does an acquire() that awaits it.
- A notification handler that throws ends the loop over the messages of its
  chunk, which have left the buffer (`bridge.ts:256-264`, against "dispatch each one" of
  254; `skipped` in BridgeStream).
- A request that arrives while close() awaits `$/reset`, after the snapshot of what is
  to be answered with an error, starts a handler that nobody drains; its answer, like any
  that is written after the socket was ended, goes nowhere (`bridge.ts:634-657`, against
  608-612; the callers that are `unheard` in BridgeInbound).
- The lifetime of a token is counted from the answer that brings it, and the request has
  no timeout: one that was longer on its way than the margin is served from the cache when
  the server takes it no more (`tokenCache.ts:113-117, 144`, against "valid" of 149).
- close() while doReconnect() awaits its connection leaves a live socket:
  `closedByUs` is looked at before the await only (`bridge.ts:238-245`).
- A second onNotify() of a method does not register, and relies on a first one
  whose `$/register` may be refused afterwards (`bridge.ts:539-549`).
- Two provide() of one method both send `$/register` (`bridge.ts:502-515`).
- Two acquire() that find no Bridge open two, and the second replaces the first
  (`BridgeManager.ts:90`), against "one socket" of lines 29-36.
- The Respond node takes its request and stops the timer before it computes the
  answer: when that throws, the request is never settled, in spite of the timeout
  the trigger describes (`UnoQRespond.node.ts:148-171`, `UnoQTrigger.node.ts:138-139`).
- Two credentials with one config that boot the SSH server at the same time do
  not share it, as `SshServer.ts:28-32` promises: the second is refused with
  EADDRINUSE, and its config replaces the listener's (116-143). A close() beside a
  listen() leaves a server whose config is null (168-169), and close() leaves
  clients that forward nothing yet as they are (146).
- A Cloud trigger that joins a value while the SDK call of the first one is in
  flight stays without values when that call is refused
  (`cloudClientManager.ts:121-147`, against lines 14-16).
- `ArduinoCloud.node.ts:350-353` says that nodes share the cap of a property; the
  counter key has the node's id in it.
- A call is recorded before `getBridge()` and the throttle are awaited
  (`UnoQTool.node.ts:313`, `ArduinoCloud.node.ts:413`), so that the calls of two windows
  may reach the board in one.
- `budget.used()` counts "prior successful calls" in that README (line 157), but calls
  that fail are recorded as well.
- The guard "keeps the last 3 slots" of `n8n-nodes/README.md` keeps two: it refuses
  when `remaining < 3`, before the call is counted.

## Not modelled

Formats and encodings (MessagePack, certificates, descriptors of transports,
parameters of nodes), which have no state; the user interface of the nodes;
deployment scripts, sketches and the probes under `experiments/`, which are run by
hand. Authentication in SshRelay is a verdict. NOTIFYs are handed to their
subscribers in one go and change nothing, unless one throws (BridgeStream); notify() writes and forgets. A wall clock
that is set back is outside CloudRest, and `restThrottle.ts:60` would then stop
refilling until it has caught up. The credential tests open a Bridge of their own,
without reconnecting (`UnoQCall.node.ts:218-264`), and ask for a token beside throttle
and cache (`ArduinoCloud.node.ts:483`). A cap that the user lowers while items wait
for it makes the retry they were told of too early.

## Plan

Done: the connection, its bytes and its three users, the manager, deferred answers,
the SSH relay, the gate of the tools and both halves of the Cloud package. Next, in
this order:

1. BridgeInbound composed with DeferredAnswers: msgids, drain and close() with the
   handlers spelled out, in place of the handler that just ends.
2. BridgeRegistry composed with BridgeInbound: requests of a method that is being
   registered or lost.
