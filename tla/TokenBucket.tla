---------------------------- MODULE TokenBucket ----------------------------
(***************************************************************************)
(* What a rate limiter promises, whatever its implementation does: credit  *)
(* grows by one a tick up to Capacity, and a grant costs Cost.  Over any   *)
(* stretch of W ticks there are at most (Capacity + W) \div Cost grants.   *)
(***************************************************************************)
EXTENDS Naturals

CONSTANTS Cost, Capacity

VARIABLE credit

Init == credit \in 0 .. Capacity

Tick == credit' = IF credit < Capacity THEN credit + 1 ELSE credit

\* A grant may also throw credit away.
Grant == credit >= Cost /\ credit' \in 0 .. credit - Cost

Next == Tick \/ Grant

Spec == Init /\ [][Next]_credit
=============================================================================
