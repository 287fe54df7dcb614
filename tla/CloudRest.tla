------------------------------ MODULE CloudRest ------------------------------
(***************************************************************************)
(* A REST request of the Arduino Cloud nodes, from its item to the wire:   *)
(* the sliding-window cap and the guard (rateLimiter.ts, guard.ts), the    *)
(* token bucket of the credential (restThrottle.ts), the OAuth token cache *)
(* (auth/tokenCache.ts), then the request (arduinoCloudApi.ts).            *)
(*                                                                         *)
(* One credential and one counter key.  A caller is an item of an          *)
(* execution of ArduinoCloud.node.ts, or a list that the editor asks for   *)
(* and that no cap applies to.  Time is a number of ticks; the bucket is   *)
(* counted in ticks too: a token is Period of them.                        *)
(***************************************************************************)
EXTENDS CallGate, Sequences

CONSTANTS
    Lists,       \* listThings and listProperties calls that may be under way
    Capacity,    \* CAPACITY, in tokens
    Period,      \* ticks until RATE_PER_SEC gives another token
    Slack,       \* how many ticks setTimeout may be early
    Lifetime,    \* expires_in of a token
    Margin,      \* EXPIRY_SAFETY_MARGIN_MS
    MaxTime      \* bound: the time that is looked at

ASSUME BucketAssumption ==
    Capacity \in Nat \ {0} /\ Period \in Nat \ {0} /\ Slack \in 0..(Period - 1)
\* The server's tokens live longer than the margin: some 50 minutes to 30 seconds.
ASSUME TokenAssumption == Margin \in Nat /\ Lifetime \in Nat /\ Margin < Lifetime
ASSUME CallersAssumption ==
    /\ Items \cap Lists = {} /\ IsFiniteSet(Items \cup Lists)
    /\ MaxTime \in Nat

Callers == Items \cup Lists

VARIABLES
    pc,          \* per caller: how far it is
    chain,       \* restThrottle.ts: the callers on the FIFO chain
    credit,      \*   the tokens of the bucket, in ticks
    lastRefill,
    wakeAt,      \*   when the sleep of the first in the chain is over
    token,       \* tokenCache.ts: the cached token
    asked,       \*   when the fetch in flight was sent
    burst        \* history: the most that has been granted in any period of
                 \* time up to now, less what that time gives back, in ticks

bucketVars == <<chain, credit, lastRefill, wakeAt, burst>>
tokenVars == <<token, asked>>
restVars == <<now, pc, gateVars, bucketVars, tokenVars>>

RestInit ==
    /\ GateInit
    /\ pc = [c \in Callers |-> "idle"]
    /\ chain = <<>>
    /\ credit = Capacity * Period
    /\ lastRefill = 0
    /\ wakeAt = None
    /\ token = None
    /\ asked = None
    /\ burst = 0

Min2(a, b) == IF a < b THEN a ELSE b

----------------------------------------------------------------------------
(* An item of an execution, up to the throttle: there is no await before.  *)
(* One that has no thing, whose value does not parse or whose guard throws *)
(* changes nothing here.  "idle" is the place of the next item, of the     *)
(* same execution or, when it does not continue on failure, of another one.*)

\* The cap or the guard refuses the item; its execution goes on with the next one.
Refuse(i) ==
    /\ pc[i] = "idle"
    /\ Refused(i)
    /\ UNCHANGED <<now, pc, bucketVars, tokenVars>>

\* The call is recorded and its request takes its place on the throttle's chain.
Admit(i) ==
    /\ pc[i] = "idle"
    /\ Passed(i)
    /\ pc' = [pc EXCEPT ![i] = "queued"]
    /\ chain' = Append(chain, i)
    /\ UNCHANGED <<now, credit, lastRefill, wakeAt, burst, tokenVars>>

\* The call is recorded, but a date of the history asked for is not valid.
RecordInVain(i) ==
    /\ pc[i] = "idle"
    /\ Passed(i)
    /\ UNCHANGED <<now, pc, bucketVars, tokenVars>>

\* The editor asks for the things or the properties.
List(l) ==
    /\ pc[l] = "idle"
    /\ pc' = [pc EXCEPT ![l] = "queued"]
    /\ chain' = Append(chain, l)
    /\ UNCHANGED <<now, credit, lastRefill, wakeAt, burst, gateVars, tokenVars>>

----------------------------------------------------------------------------
(* The token bucket *)

\* Mutant: the bucket has no brim (Math.min is left out).
RefilledUncapped == IF now > lastRefill THEN credit + now - lastRefill ELSE credit

\* refill
Refilled == IF now > lastRefill THEN Min2(Capacity * Period, credit + now - lastRefill)
                                ELSE credit

\* The link of caller c ends: it takes a token out of what there is.
Take(c) ==
    /\ credit' = Refilled - Period
    /\ chain' = Tail(chain)
    /\ wakeAt' = None
    /\ burst' = burst + Period
    /\ pc' = [pc EXCEPT ![c] = "granted"]

\* The first in the chain starts its link: it takes a token, or sleeps until
\* there should be one.
StartLink(c) ==
    /\ chain # <<>> /\ c = Head(chain) /\ wakeAt = None
    /\ lastRefill' = now
    /\ IF Refilled >= Period
         THEN Take(c)
         ELSE /\ credit' = Refilled
              /\ wakeAt' = now + Max2(1, Period - Refilled)
              /\ UNCHANGED <<chain, burst, pc>>
    /\ UNCHANGED <<now, gateVars, tokenVars>>

\* Its sleep is over, perhaps a little early: it refills and takes its token
\* without looking again.
Wake(c) ==
    /\ chain # <<>> /\ c = Head(chain) /\ wakeAt # None
    /\ now >= wakeAt - Slack
    /\ lastRefill' = now
    /\ Take(c)
    /\ UNCHANGED <<now, gateVars, tokenVars>>

----------------------------------------------------------------------------
(* The token cache *)

\* Mutant: a token is used to its last moment.
FreshWithoutMargin == token # None /\ token.expiresAt > now

Fresh == token # None /\ token.expiresAt - now > Margin

\* getAccessToken finds a token that is good for longer than the margin, and
\* the request is sent with it.
UseCached(c) ==
    /\ pc[c] = "granted"
    /\ Fresh
    /\ pc' = [pc EXCEPT ![c] = "sent"]
    /\ UNCHANGED <<now, gateVars, bucketVars, tokenVars>>

\* It finds none: it joins the fetch in flight or sends one.
AwaitToken(c) ==
    /\ pc[c] = "granted"
    /\ ~Fresh
    /\ pc' = [pc EXCEPT ![c] = "waiting"]
    /\ asked' = IF asked = None THEN now ELSE asked
    /\ UNCHANGED <<now, gateVars, bucketVars, token>>

\* The endpoint's answer, however long it took: the request has no timeout.  The
\* token was minted at some time since it was asked for, and the cache counts its
\* lifetime from the answer.  All who wait send their requests with it.
TokenArrives(minted) ==
    /\ asked # None /\ minted \in asked..now
    /\ token' = [expiresAt |-> now + Lifetime, validUntil |-> minted + Lifetime]
    /\ asked' = None
    /\ pc' = [c \in Callers |-> IF pc[c] = "waiting" THEN "sent" ELSE pc[c]]
    /\ UNCHANGED <<now, gateVars, bucketVars>>

\* The fetch fails, for all who wait; the next caller sends another.
TokenFails ==
    /\ asked # None
    /\ asked' = None
    /\ pc' = [c \in Callers |-> IF pc[c] = "waiting" THEN "idle" ELSE pc[c]]
    /\ UNCHANGED <<now, gateVars, bucketVars, token>>

----------------------------------------------------------------------------

\* The request is answered, well or not.
Answered(c) ==
    /\ pc[c] = "sent"
    /\ pc' = [pc EXCEPT ![c] = "idle"]
    /\ UNCHANGED <<now, gateVars, bucketVars, tokenVars>>

Tick ==
    /\ now < MaxTime
    /\ now' = now + 1
    /\ burst' = Max2(0, burst - 1)
    /\ UNCHANGED <<pc, gateVars, chain, credit, lastRefill, wakeAt, tokenVars>>

RestNext ==
    \/ \E i \in Items : Refuse(i) \/ Admit(i) \/ RecordInVain(i)
    \/ \E l \in Lists : List(l)
    \/ \E c \in Callers : \/ StartLink(c) \/ Wake(c)
                          \/ UseCached(c) \/ AwaitToken(c) \/ Answered(c)
    \/ \E minted \in 0..MaxTime : TokenArrives(minted)
    \/ TokenFails
    \/ Tick

RestSpec == RestInit /\ [][RestNext]_restVars

----------------------------------------------------------------------------
(* Properties *)

\* A call recorded, and its number among those of its tick.
Call == [at : 0..MaxTime, nr : 0..(MaxCalls - 1)]

\* Types: a bucket owes at most what a timer was early.
RestTypeOK ==
    /\ now \in 0..MaxTime
    /\ counters \subseteq Call /\ recorded \subseteq Call
    /\ \A i \in Items : refusal[i] = None
                       \/ refusal[i] \in [left : 0..MaxCalls, until : Nat]
    /\ pc \in [Callers -> {"idle", "queued", "granted", "waiting", "sent"}]
    /\ chain \in Seq(Callers) /\ Len(chain) <= Cardinality(Callers)
    /\ burst \in Nat
    /\ credit \in -Slack..(Capacity * Period)
    /\ lastRefill \in 0..MaxTime
    /\ wakeAt \in 0..(MaxTime + Period + Slack) \cup {None}
    /\ token = None \/ token \in [expiresAt : Nat, validUntil : Nat]
    /\ asked \in 0..MaxTime \cup {None}

\* Types; and the throttle keeps to the budget of the credential: in no period of time
\* does it grant more than the bucket's burst and the tokens of that time,
\* however the callers queue up and whenever their timers wake them.
ThrottleBound == RestTypeOK /\ burst <= Capacity * Period + Slack

Sends(c) == pc[c] # "sent" /\ pc'[c] = "sent"

\* A request goes out with a token that the server still takes, provided the token
\* came within the margin of its minting: it is looked up after the wait for the
\* bucket, whatever time it has spent in the cache (arduinoCloudApi.ts:73-86,
\* tokenCache.ts:158).  One that came later may be sent when it is stale, for its
\* lifetime is counted from the answer (tokenCache.ts:144).
TokenValidAtSend ==
    [][\A c \in Callers : Sends(c) /\ token'.expiresAt - token'.validUntil <= Margin
                             => now < token'.validUntil]_restVars

==============================================================================
