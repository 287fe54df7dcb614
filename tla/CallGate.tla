------------------------------ MODULE CallGate ------------------------------
(***************************************************************************)
(* The two gates before a call of a tool-usable node: the sliding-window   *)
(* cap (rateLimiter.ts, the same in both packages) and the user's guard,   *)
(* which sees what is left of the cap (UnoQTool.node.ts, ArduinoCloud.     *)
(* node.ts).  One counter key; time is a number of ticks.                  *)
(*                                                                         *)
(* The guard is the one that the README of n8n-nodes shows (168-178): it   *)
(* keeps the last calls of a window in reserve for what is urgent.         *)
(***************************************************************************)
EXTENDS Integers, FiniteSets

CONSTANTS
    Items,       \* the items that may be under way
    Urgent,      \* those whose parameters the guard always lets pass
    Reserve,     \* the calls that it keeps for them
    MaxCalls,    \* rateLimit.maxCalls
    Window,      \* its window, and
    Day,         \* the longest one, beyond which records are dropped
    None         \* null

ASSUME WindowAssumption == Window \in Nat \ {0} /\ Day \in Nat /\ Window <= Day
ASSUME CapAssumption == MaxCalls \in Nat \ {0} /\ Reserve \in 0..(MaxCalls - 1)
ASSUME GuardAssumption == Urgent \subseteq Items /\ None \notin Nat

VARIABLES
    now,         \* Date.now()
    counters,    \* the timestamps kept for the counter key: the calls of one tick,
                 \* at, are numbered
    refusal,     \* per item: the budget its refusal spoke of, while no call was
                 \* recorded since
    recorded     \* history: all the calls

gateVars == <<counters, refusal, recorded>>

GateInit ==
    /\ now = 0
    /\ counters = {}
    /\ refusal = [i \in Items |-> None]
    /\ recorded = {}

Max2(a, b) == IF a > b THEN a ELSE b

----------------------------------------------------------------------------
\* activeTimestamps
Active == {c \in counters : c.at > now - Window}

\* Mutant: one call too many.
CapLeavesOneMore == Cardinality(Active) <= MaxCalls

\* checkRateLimit
CapLeaves == Cardinality(Active) < MaxCalls

\* budget.remaining
Remaining == Max2(0, MaxCalls - Cardinality(Active))

\* The time of the first of the calls: the clock does not go back.
First(calls) == CHOOSE t \in {c.at : c \in calls} : \A c \in calls : t <= c.at

\* Mutant: counted from the oldest record kept, in the window or not.
ResetsInOldestKept == Max2(0, First(counters) + Window - now)

\* budget.resetsInMs, and the retryAfterMs of the cap: the time until the oldest
\* call leaves the window.
ResetsIn == Max2(0, First(Active) + Window - now)

\* The verdict of the guard.
GuardAllows(i) == i \in Urgent \/ Remaining > Reserve

\* The cap or the guard refuses the item, and it is told what there is to know.
Refused(i) ==
    /\ ~CapLeaves \/ ~GuardAllows(i)
    /\ refusal' = [refusal EXCEPT ![i] = [left |-> Remaining, until |-> now + ResetsIn]]
    /\ UNCHANGED <<counters, recorded>>

\* recordCall: what is older than a day is dropped.
Kept == {c \in counters : c.at > now - Day}

ThisCall == [at |-> now, nr |-> Cardinality({c \in counters : c.at = now})]

\* Both gates let the item pass, and the call is recorded.
Passed(i) ==
    /\ CapLeaves /\ GuardAllows(i)
    /\ counters' = Kept \cup {ThisCall}
    /\ recorded' = recorded \cup {ThisCall}
    /\ refusal' = [j \in Items |-> None]

----------------------------------------------------------------------------
Within(from) == {c \in recorded : c.at \in from..(from + Window - 1)}

\* The cap holds in every window, wherever it starts and not only in those
\* that a call is checked in: no call slips in at the edge of one, or through a
\* record that was dropped too early (rateLimiter.ts).
WindowCap == \A c \in recorded : Cardinality(Within(c.at)) <= MaxCalls

\* An item that was refused and told when a call becomes free finds that one is
\* then, unless another item was let pass in between: by the cap, and by a guard
\* that reads budget.remaining and budget.resetsInMs (ArduinoCloud.node.ts 363-386,
\* UnoQTool.node.ts 371-387).
RetryIsHonest ==
    \A i \in Items : refusal[i] # None /\ now >= refusal[i].until
                     => Remaining > refusal[i].left
==============================================================================
