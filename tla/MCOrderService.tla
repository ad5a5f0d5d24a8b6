--------------------------- MODULE MCOrderService ---------------------------
(***************************************************************************)
(* Instances of OrderService, and of its refinement, for TLC.              *)
(***************************************************************************)
EXTENDS OrderRefinement, TLC

\* Every fault at every statement that other state depends on; audit rows
\* are only lost.
AllFaults ==
  [l \in Labels |->
     IF l \in ClientLabels THEN FaultKinds
     ELSE IF l \in LogLabels \cup {"select"} THEN {"fail"}
     ELSE FaultKinds \ {"reject"}]

\* A statement that errs did not run, and bookkeeping and refunds never err.
CleanFaults ==
  [l \in Labels |-> IF l \in {"charge", "assign"} THEN {"fail", "reject"}
                    ELSE IF l \in LogLabels THEN {"fail"} ELSE {}]

NoFaults == [l \in Labels |-> {}]

ChargeAckLost == [NoFaults EXCEPT !["charge"] = {"lostAck"}]

StatusUpdateFails == [NoFaults EXCEPT !["markSucceeded"] = {"fail"}]

\* Safety only: calls are alike, and so are payloads equal to themselves.
Symmetry == Permutations(Calls) \cup Permutations(Payloads \ NaNPayloads)
=============================================================================
