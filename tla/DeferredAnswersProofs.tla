------------------------- MODULE DeferredAnswersProofs -------------------------
(***************************************************************************)
(* As long as a msgid comes again only when the request that had it, and   *)
(* its execution, are over, deferred requests are answered by their own    *)
(* executions: for any number of requests, msgids and Respond nodes.       *)
(***************************************************************************)
EXTENDS DeferredAnswers, TLAPS

\* A request that is under way, or whose execution may still reach a Respond node.
Current(r) == promise[r] # "none" /\ ~Over(r)

\* A msgid belongs to one such request.
OneCurrent ==
    \A r, s \in Requests : IdOf[r] = IdOf[s] /\ Current(r) /\ Current(s) => r = s

\* An entry is found under the msgid of its request only.
EntriesKeyed ==
    \A id \in Ids : entries[id] # None => IdOf[entries[id]] = id

\* What has not come has left no trace.
Untouched ==
    \A r \in Requests :
        promise[r] = "none" => responds[r] = 0 /\ told[r] = 0 /\ r \notin failed

\* The inductive invariant.  OneCurrent is what makes it so: an execution that
\* finds an entry under its msgid finds its own.
DeferredInv ==
    /\ DeferredTypeOK
    /\ OneCurrent
    /\ Untouched
    /\ EntriesKeyed
    /\ EntriesAreOpen
    /\ AnsweredByOwnExecution
    /\ ReportIsHonest

USE DeferredAssumption

\* What the mutators of PendingRequests see: the entry under the msgid of an
\* execution that reaches a Respond node is that of its own, open request.
LEMMA OwnEntry ==
    ASSUME DeferredInv, NEW r \in Requests, promise[r] # "none",
           responds[r] < MaxResponds, Taken(IdOf[r]) # None
    PROVE  Taken(IdOf[r]) = r /\ promise[r] = "open" /\ r \notin failed /\ timer[r]
<1> DEFINE s == Taken(IdOf[r])
<1>1. s \in Requests
  BY DEF DeferredInv, DeferredTypeOK, Taken
<1>2. promise[s] = "open" /\ IdOf[s] = IdOf[r]
  BY <1>1 DEF EntriesKeyed, DeferredInv, DeferredTypeOK, EntriesAreOpen, Open, Taken
<1>3. Current(s)
  BY <1>2 DEF Current, Over
<1>4. Current(r)
  BY DEF Current, Over, DeferredInv, DeferredTypeOK
<1>5. s = r
  BY <1>1, <1>2, <1>3, <1>4 DEF DeferredInv, OneCurrent
<1> QED BY <1>2, <1>5 DEF DeferredInv, EntriesAreOpen, Open, Taken

LEMMA InitInv == Init => DeferredInv
BY DEF Init, DeferredInv, DeferredTypeOK, OneCurrent, Current, Untouched,
       EntriesKeyed, EntriesAreOpen, Open, AnsweredByOwnExecution, ReportIsHonest

LEMMA NextInv ==
    ASSUME ~Shared, DeferredInv, [Next]_vars
    PROVE  DeferredInv'
<1> USE DEF DeferredInv
<1>1. ASSUME NEW r \in Requests, Receive(r) PROVE DeferredInv'
  <2> USE <1>1 DEF Receive
  <2>1. DeferredTypeOK' BY DEF DeferredTypeOK
  <2>2. OneCurrent' BY DEF DeferredTypeOK, OneCurrent, Current, Over, Untouched
  <2>3. (Untouched /\ EntriesKeyed)'
    BY DEF DeferredTypeOK, Untouched, EntriesKeyed
  <2>4. EntriesAreOpen'
    BY DEF DeferredTypeOK, EntriesAreOpen, Open, Over, Untouched
  <2>5. (AnsweredByOwnExecution /\ ReportIsHonest)'
    BY DEF DeferredTypeOK, AnsweredByOwnExecution, ReportIsHonest
  <2> QED BY <2>1, <2>2, <2>3, <2>4, <2>5
<1>2. ASSUME NEW r \in Requests, TimerFires(r) PROVE DeferredInv'
  <2> USE <1>2 DEF TimerFires, EntriesWithout
  <2>0. Taken(IdOf[r]) = r /\ promise[r] = "open"
    BY DEF EntriesAreOpen, Open, Taken, DeferredTypeOK
  <2> USE <2>0
  <2>1. DeferredTypeOK' BY DEF DeferredTypeOK
  <2>2. OneCurrent' BY DEF DeferredTypeOK, OneCurrent, Current, Over
  <2>3. (Untouched /\ EntriesKeyed)'
    BY DEF DeferredTypeOK, Untouched, EntriesKeyed
  <2>4. EntriesAreOpen' BY DEF DeferredTypeOK, EntriesAreOpen, Open, Taken
  <2>5. (AnsweredByOwnExecution /\ ReportIsHonest)'
    BY DEF DeferredTypeOK, AnsweredByOwnExecution, ReportIsHonest
  <2> QED BY <2>1, <2>2, <2>3, <2>4, <2>5
<1>3. ASSUME NEW r \in Requests, RespondFindsNone(r) PROVE DeferredInv'
  <2> USE <1>3 DEF RespondFindsNone, Reach
  <2>1. DeferredTypeOK' BY DEF DeferredTypeOK
  <2>2. OneCurrent' BY DEF DeferredTypeOK, OneCurrent, Current, Over
  <2>3. (Untouched /\ EntriesKeyed)'
    BY DEF DeferredTypeOK, Untouched, EntriesKeyed
  <2>4. (EntriesAreOpen /\ AnsweredByOwnExecution /\ ReportIsHonest)'
    BY DEF EntriesAreOpen, Open, AnsweredByOwnExecution, ReportIsHonest
  <2> QED BY <2>1, <2>2, <2>3, <2>4
\* What the three outcomes of a Respond node that finds an entry have in common.
<1>4. ASSUME NEW r \in Requests, Reach(r), Take(r),
             \/ /\ promise' = [promise EXCEPT ![r] = "value"]
                /\ answerOf' = [answerOf EXCEPT ![r] = r]
                /\ told' = [told EXCEPT ![r] = @ + 1] /\ failed' = failed
             \/ /\ promise' = [promise EXCEPT ![r] = "error"]
                /\ answerOf' = [answerOf EXCEPT ![r] = r]
                /\ told' = told /\ failed' = failed
             \/ /\ promise' = promise /\ answerOf' = answerOf
                /\ told' = told /\ failed' = failed \cup {r}
      PROVE  DeferredInv'
  <2> USE <1>4 DEF Reach, Take, EntriesWithout
  <2>0. /\ Taken(IdOf[r]) = r
        /\ promise[r] = "open" /\ told[r] = 0 /\ r \notin failed
    BY OwnEntry DEF ReportIsHonest, DeferredTypeOK
  <2> USE <2>0
  <2>1. DeferredTypeOK' BY DEF DeferredTypeOK
  <2>2. OneCurrent' BY DEF DeferredTypeOK, OneCurrent, Current, Over
  <2>3. (Untouched /\ EntriesKeyed)'
    BY DEF DeferredTypeOK, Untouched, EntriesKeyed
  <2>4. EntriesAreOpen' BY DEF DeferredTypeOK, EntriesAreOpen, Open, Taken
  <2>5. AnsweredByOwnExecution' BY DEF DeferredTypeOK, AnsweredByOwnExecution
  <2>6. ReportIsHonest' BY DEF DeferredTypeOK, ReportIsHonest
  <2> QED BY <2>1, <2>2, <2>3, <2>4, <2>5, <2>6
<1>5. ASSUME NEW r \in Requests, RespondValue(r) PROVE DeferredInv'
  <2>1. Reach(r) /\ Take(r) BY <1>5 DEF RespondValue
  <2>2. Taken(IdOf[r]) = r /\ promise[r] = "open"
    BY <2>1, OwnEntry DEF Reach, Take
  <2> QED BY <1>4, <1>5, <2>1, <2>2 DEF RespondValue, DeferredTypeOK
<1>6. ASSUME NEW r \in Requests, RespondError(r) PROVE DeferredInv'
  <2>1. Reach(r) /\ Take(r) BY <1>6 DEF RespondError
  <2>2. Taken(IdOf[r]) = r /\ promise[r] = "open"
    BY <2>1, OwnEntry DEF Reach, Take
  <2> QED BY <1>4, <1>6, <2>1, <2>2 DEF RespondError, DeferredTypeOK
<1>7. ASSUME NEW r \in Requests, RespondFails(r) PROVE DeferredInv'
  BY <1>4, <1>7, OwnEntry DEF RespondFails, Reach, Take
<1>8. CASE UNCHANGED vars
  BY <1>8 DEF vars, DeferredTypeOK, OneCurrent, Current, Over, Untouched,
              EntriesKeyed, EntriesAreOpen, Open, AnsweredByOwnExecution, ReportIsHonest
<1> QED BY <1>1, <1>2, <1>3, <1>5, <1>6, <1>7, <1>8 DEF Next

\* The inductive invariant holds while msgids are not shared.
THEOREM Invariance == ASSUME ~Shared PROVE Spec => []DeferredInv
BY InitInv, NextInv, PTL DEF Spec

\* Types, and no execution reports twice that it has responded
\* (UnoQRespond.node.ts:148-175).
THEOREM DeferredTypes == ASSUME ~Shared PROVE Spec => []DeferredTypeOK
BY Invariance, PTL DEF DeferredInv

\* The answer to a request is that of the execution it started
\* (UnoQTrigger.node.ts:160-162).
THEOREM OwnAnswers == ASSUME ~Shared PROVE Spec => []AnsweredByOwnExecution
BY Invariance, PTL DEF DeferredInv

\* A Respond node that reports "responded: true" has answered
\* (UnoQRespond.node.ts:148-175).
THEOREM HonestReports == ASSUME ~Shared PROVE Spec => []ReportIsHonest
BY Invariance, PTL DEF DeferredInv

\* Whatever is open has its entry and its timer, and nothing else has
\* (UnoQTrigger.node.ts:207-217, PendingRequests.ts:32-40).
THEOREM EntriesExact == ASSUME ~Shared PROVE Spec => []EntriesAreOpen
BY Invariance, PTL DEF DeferredInv
================================================================================
