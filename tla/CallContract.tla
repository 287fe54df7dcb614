----------------------------- MODULE CallContract -----------------------------
(***************************************************************************)
(* What callWithOptions() promises of each call (bridge.ts 402-420 and     *)
(* docs/master-plan/06-package-n8n-nodes.md, section 6.4), without a word  *)
(* of sockets, msgids or reconnects: it settles once, a call that is not   *)
(* idempotent runs at most once, only such a call ends in a                *)
(* ConnectionError, and a TimeoutError means that the budget is used up.   *)
(***************************************************************************)
EXTENDS Naturals

CONSTANTS Calls, Idempotent

VARIABLES
  outcome,    \* "idle", "open" or the outcome of each call
  ran,        \* executions of the method for each call: 0, 1, 2 for more
  overdue     \* the calls whose deadline has passed

contractVars == <<outcome, ran, overdue>>

Final == {"ok", "err", "timeout", "conn"}

ContractInit ==
  /\ outcome = [c \in Calls |-> "idle"]
  /\ ran = [c \in Calls |-> 0]
  /\ overdue = {}

\* A call made while the Bridge is disconnected may fail at once.
Begins(c) ==
  /\ outcome[c] = "idle"
  /\ outcome'[c] = "open" \/ (outcome'[c] = "conn" /\ c \notin Idempotent)

Settles(c) ==
  /\ outcome[c] = "open"
  /\ \/ outcome'[c] = "ok" /\ ran[c] > 0
     \/ outcome'[c] = "err"
     \/ outcome'[c] = "timeout" /\ c \in overdue
     \/ outcome'[c] = "conn" /\ c \notin Idempotent

\* The method may run for a call that has settled: its REQUEST is still out there.
Runs(c) ==
  /\ outcome[c] # "idle"
  /\ ran[c] > 0 => c \in Idempotent
  /\ ran'[c] > ran[c]

CallStep(c) ==
  /\ Begins(c) \/ Settles(c) \/ outcome'[c] = outcome[c]
  /\ Runs(c) \/ ran'[c] = ran[c]

ContractNext ==
  /\ \A c \in Calls : CallStep(c)
  /\ overdue \subseteq overdue'

Contract == ContractInit /\ [][ContractNext]_contractVars
=============================================================================
