---------------------------- MODULE ReliableCall ----------------------------
(***************************************************************************)
(* What a caller of a reliable client may rely on, and what OrderService   *)
(* assumes of it: a call issues its statement a limited number of times,   *)
(* one at a time and never after one that worked, and ends either with     *)
(* that success, with the error of its last attempt, or because its        *)
(* context ended or a breaker is open.                                     *)
(***************************************************************************)
EXTENDS Naturals

CONSTANTS Callers, Attempts

VARIABLES
  outcome,  \* outcome[c]: what c's call returned, if it did
  tries     \* tries[c]: statements c has issued

vars == <<outcome, tries>>

Init ==
  /\ outcome = [c \in Callers |-> "none"]
  /\ tries = [c \in Callers |-> 0]

End(c, r) == outcome' = [outcome EXCEPT ![c] = r]

\* A statement is issued and answered; an error only ends the call if it is
\* the last one allowed, or that of the context.
Issue(c) ==
  /\ outcome[c] = "none" /\ tries[c] < Attempts
  /\ tries' = [tries EXCEPT ![c] = @ + 1]
  /\ \/ End(c, "nil")
     \/ End(c, "context")
     \/ tries'[c] = Attempts /\ End(c, "error")
     \/ tries'[c] < Attempts /\ UNCHANGED outcome

GiveUp(c) ==
  /\ outcome[c] = "none"
  /\ End(c, "context") \/ End(c, "circuitOpen")
  /\ UNCHANGED tries

Next == \E c \in Callers : Issue(c) \/ GiveUp(c)

Spec == Init /\ [][Next]_vars
=============================================================================
