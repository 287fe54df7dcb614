---------------------------- MODULE DeferredAnswers ----------------------------
(***************************************************************************)
(* A request that waits for the workflow it started: the deferred handler  *)
(* of UnoQTrigger.node.ts, the process-wide PendingRequests.ts, and the    *)
(* Respond node, UnoQRespond.node.ts.                                      *)
(*                                                                         *)
(* The handler's promise is what BridgeInbound calls a running handler: the*)
(* Bridge answers the caller when it settles.  A request stands for itself *)
(* and for the execution it starts, whose items may reach Respond nodes    *)
(* several times, in any order with those of other executions, or never.   *)
(***************************************************************************)
EXTENDS Integers, FiniteSets

CONSTANTS
    Requests,     \* deferred requests, and the executions they start
    Ids,          \* msgids
    IdOf,         \* the msgid the device's router gives each request
    Shared,       \* TRUE: a msgid may come again while the request that had it,
                  \* or its execution, is still under way; several devices, or
                  \* a router that was restarted, bring that about
    MaxResponds,  \* bound: the items of an execution that reach a Respond node
    None          \* undefined

ASSUME DeferredAssumption ==
    /\ IdOf \in [Requests -> Ids] /\ Shared \in BOOLEAN
    /\ MaxResponds \in Nat /\ None \notin Requests

VARIABLES
    entries,   \* PendingRequests: per msgid the request whose entry it is
    promise,   \* per request: what became of the promise its handler returned
    answerOf,  \* per request: the execution whose value it was resolved with
    timer,     \* per request: its timeout is armed
    responds,  \* per execution: the items that have reached a Respond node
    told,      \* per execution: those that reported "responded: true"
    failed     \* the requests taken by a Respond node that then failed

vars == <<entries, promise, answerOf, timer, responds, told, failed>>

Init ==
    /\ entries = [id \in Ids |-> None]
    /\ promise = [r \in Requests |-> "none"]
    /\ answerOf = [r \in Requests |-> None]
    /\ timer = [r \in Requests |-> FALSE]
    /\ responds = [r \in Requests |-> 0]
    /\ told = [r \in Requests |-> 0]
    /\ failed = {}

Open == {r \in Requests : promise[r] = "open"}

\* A request that is settled and whose execution is past its Respond nodes.
Over(r) == promise[r] \notin {"none", "open"} /\ responds[r] = MaxResponds

----------------------------------------------------------------------------
\* The handler of provide(): it arms the timer, registers its entry under the
\* msgid, whatever is there, and starts the execution.
Receive(r) ==
    /\ promise[r] = "none"
    /\ Shared \/ \A s \in Requests : IdOf[s] = IdOf[r] => promise[s] = "none" \/ Over(s)
    /\ promise' = [promise EXCEPT ![r] = "open"]
    /\ timer' = [timer EXCEPT ![r] = TRUE]
    /\ entries' = [entries EXCEPT ![IdOf[r]] = r]
    /\ UNCHANGED <<answerOf, responds, told, failed>>

\* Mutant: take() of any entry there is.
TakenAny(id) ==
    IF \E i \in Ids : entries[i] # None
      THEN entries[CHOOSE i \in Ids : entries[i] # None] ELSE None

\* take() of a msgid: the entry, and
Taken(id) == entries[id]

\* what is left.
EntriesWithout(id) == [entries EXCEPT ![id] = None]

\* Mutant: the entry is left where it is.
TimerFiresLeaving(r) ==
    /\ timer[r]
    /\ timer' = [timer EXCEPT ![r] = FALSE]
    /\ promise' = [promise EXCEPT ![r] =
                      IF Taken(IdOf[r]) # None /\ @ = "open" THEN "timedOut" ELSE @]
    /\ UNCHANGED <<entries, answerOf, responds, told, failed>>

\* Mutant: the entry is dropped and nothing rejected.
TimerFiresSilently(r) ==
    /\ timer[r]
    /\ timer' = [timer EXCEPT ![r] = FALSE]
    /\ entries' = EntriesWithout(IdOf[r])
    /\ UNCHANGED <<promise, answerOf, responds, told, failed>>

\* The timer of a request: it takes what is under its msgid, and if there is
\* anything it rejects its own promise.
TimerFires(r) ==
    /\ timer[r]
    /\ timer' = [timer EXCEPT ![r] = FALSE]
    /\ entries' = EntriesWithout(IdOf[r])
    /\ promise' = [promise EXCEPT ![r] =
                      IF Taken(IdOf[r]) # None /\ @ = "open" THEN "timedOut" ELSE @]
    /\ UNCHANGED <<answerOf, responds, told, failed>>

\* An item of execution r reaches a Respond node, which takes the entry of its
\* msgid and stops the entry's timer.
Reach(r) ==
    /\ promise[r] # "none" /\ responds[r] < MaxResponds
    /\ responds' = [responds EXCEPT ![r] = @ + 1]

\* Mutant: the timer goes on.
TakeTimerKept(r) ==
    /\ Taken(IdOf[r]) # None
    /\ entries' = EntriesWithout(IdOf[r])
    /\ UNCHANGED timer

Take(r) ==
    LET s == Taken(IdOf[r]) IN
    /\ s # None
    /\ timer' = [timer EXCEPT ![s] = FALSE]
    /\ entries' = EntriesWithout(IdOf[r])

\* It finds none, and fails.
RespondFindsNone(r) ==
    /\ Reach(r)
    /\ Taken(IdOf[r]) = None
    /\ UNCHANGED <<entries, promise, answerOf, timer, told, failed>>

\* It resolves the entry with its value.
RespondValue(r) ==
    LET s == Taken(IdOf[r]) IN
    /\ Reach(r)
    /\ Take(r)
    /\ promise' = [promise EXCEPT ![s] = IF @ = "open" THEN "value" ELSE @]
    /\ answerOf' = [answerOf EXCEPT ![s] = IF promise[s] = "open" THEN r ELSE @]
    /\ told' = [told EXCEPT ![r] = @ + 1]
    /\ UNCHANGED failed

\* It rejects the entry, as it is set up to.
RespondError(r) ==
    LET s == Taken(IdOf[r]) IN
    /\ Reach(r)
    /\ Take(r)
    /\ promise' = [promise EXCEPT ![s] = IF @ = "open" THEN "error" ELSE @]
    /\ answerOf' = [answerOf EXCEPT ![s] = IF promise[s] = "open" THEN r ELSE @]
    /\ UNCHANGED <<told, failed>>

\* resolveValue throws, when the response is not valid JSON: the entry and its
\* timer are gone by then.
RespondFails(r) ==
    /\ Reach(r)
    /\ Take(r)
    /\ failed' = failed \cup {Taken(IdOf[r])}
    /\ UNCHANGED <<promise, answerOf, told>>

Next ==
    \E r \in Requests :
        \/ Receive(r) \/ TimerFires(r)
        \/ RespondFindsNone(r) \/ RespondValue(r) \/ RespondError(r) \/ RespondFails(r)

Spec == Init /\ [][Next]_vars

\* Timers fire; nothing is assumed of the workflow.
FairSpec == Spec /\ \A r \in Requests : WF_vars(TimerFires(r))

----------------------------------------------------------------------------
(* Properties *)

\* Types; and no request is reported as answered twice.
DeferredTypeOK ==
    /\ entries \in [Ids -> Requests \cup {None}]
    /\ promise \in [Requests -> {"none", "open", "value", "error", "timedOut"}]
    /\ answerOf \in [Requests -> Requests \cup {None}]
    /\ timer \in [Requests -> BOOLEAN]
    /\ responds \in [Requests -> 0..MaxResponds]
    /\ told \in [Requests -> 0..1]
    /\ failed \subseteq Requests

\* A request is answered by the execution that it started and by no other: the
\* envelope carries the transport "so a downstream Respond node can distinguish
\* pending requests from different Qs" (UnoQTrigger.node.ts:160-162).
AnsweredByOwnExecution ==
    \A r \in Requests : answerOf[r] \in {None, r}

\* A Respond node that reports "responded: true" has answered the request of its
\* execution; it never says so of one that timed out just before, was rejected,
\* or is another one with the msgid (UnoQRespond.node.ts:148-175).
ReportIsHonest ==
    \A r \in Requests : told[r] > 0 => promise[r] = "value" /\ answerOf[r] = r

\* What is open is exactly what can still be answered: an entry under its msgid
\* and a timer that will give it up, unless a Respond node took it and failed.
EntriesAreOpen ==
    \A r \in Requests :
        /\ r \in Open \ failed <=> entries[IdOf[r]] = r
        /\ r \in Open \ failed <=> timer[r]

\* Every deferred request is settled in the end, so that its caller is answered
\* and a drain of the Bridge ends; one whose Respond node failed is not.
EveryDeferredSettles ==
    \A r \in Requests : promise[r] = "open" ~> promise[r] # "open" \/ r \in failed

=================================================================================
