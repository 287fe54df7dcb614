--------------------------- MODULE MCDeferredAnswers ---------------------------
(***************************************************************************)
(* Three requests that have one msgid, and a fourth.                       *)
(***************************************************************************)
EXTENDS DeferredAnswers

CONSTANTS r1, r2, r3, r4

MCIdOf == [r \in Requests |-> IF r = r3 THEN 2 ELSE 1]
================================================================================
