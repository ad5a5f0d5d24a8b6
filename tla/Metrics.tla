------------------------------- MODULE Metrics -------------------------------
(***************************************************************************)
(* Metrics of internal/observability/metrics.go.  Every method takes the   *)
(* mutex, so each operator here is one step; two calls in a row are two.   *)
(* The statistics of the methods appear as their sum, which is what        *)
(* Snapshot reports in total; latencies are left out.                      *)
(***************************************************************************)
EXTENDS Integers

VARIABLES
  inFlight,  \* sum of methodStats.inFlight
  count,     \* sum of methodStats.count
  errors,    \* sum of methodStats.errors
  mark       \* lifecycle.inflight, -1 while shutdownAt is zero

metrics == <<inFlight, count, errors, mark>>

InitMetrics == inFlight = 0 /\ count = 0 /\ errors = 0 /\ mark = -1

Start ==
  /\ inFlight' = inFlight + 1
  /\ UNCHANGED <<count, errors, mark>>

\* CallSpan.End and finish.
End(failed) ==
  /\ inFlight' = inFlight - 1
  /\ count' = count + 1
  /\ errors' = IF failed THEN errors + 1 ELSE errors
  /\ UNCHANGED mark

MarkShutdown(n) ==
  /\ mark' = n
  /\ UNCHANGED <<inFlight, count, errors>>
=============================================================================
