--------------------------- MODULE CircuitBreaker ---------------------------
(***************************************************************************)
(* CircuitBreaker of internal/orders/reliability.go, shared by all the     *)
(* handlers that use a client.  Execute holds the mutex twice, before and  *)
(* after the call it guards, and reads the clock once, before either: that *)
(* reading may be old when it is compared or stored.                       *)
(*                                                                         *)
(* Time is kept as ages in ticks: now - openedAt is age, and now minus the *)
(* reading of call c is lag[c], so c computes now.Sub(openedAt) as         *)
(* age - lag[c].  A call takes at most MaxLag ticks; beyond                *)
(* MaxLag + ResetAfter every age compares alike.                           *)
(***************************************************************************)
EXTENDS Integers, FiniteSets

CONSTANTS
  Callers,       \* goroutines that call Execute again and again
  MaxFailures,   \* CircuitBreakerConfig.MaxFailures
  ResetTimeout,  \* CircuitBreakerConfig.ResetTimeout, in ticks
  DefaultReset,  \* the two seconds NewCircuitBreaker falls back to
  MaxLag,        \* the longest call, in ticks
  NoCall         \* no call

ASSUME BreakerAssumption ==
  /\ MaxFailures \in Int /\ ResetTimeout \in Int
  /\ DefaultReset \in Nat \ {0}
  /\ MaxLag \in Nat
  /\ IsFiniteSet(Callers) /\ NoCall \notin Callers

VARIABLES
  state,     \* circuitClosed, circuitOpen or circuitHalfOpen
  failures,  \* failures
  age,       \* now - openedAt
  flight,    \* halfOpenFlight
  pc,        \* pc[c]: where caller c is in Execute
  lag,       \* lag[c]: now - the clock reading of c's call
  probe,     \* history: the call admitted last in the half-open state
  opened     \* history: ticks since the breaker last opened

breaker == <<state, failures, age, flight>>
vars    == <<breaker, pc, lag, probe, opened>>

States == {"closed", "open", "halfOpen"}

\* NewCircuitBreaker's defaults.
MaxFails   == IF MaxFailures < 1 THEN 1 ELSE MaxFailures
ResetAfter == IF ResetTimeout <= 0 THEN DefaultReset ELSE ResetTimeout

MaxAge == MaxLag + ResetAfter

-----------------------------------------------------------------------------
\* A call reads the clock, before it takes the mutex.
Begin(c) ==
  /\ pc[c] = "idle"
  /\ pc'  = [pc EXCEPT ![c] = "ready"]
  /\ lag' = [lag EXCEPT ![c] = 0]
  /\ UNCHANGED <<breaker, probe, opened>>

OpenTo(c) == age - lag[c] < ResetAfter

\* Mutant: a refused call starts the timeout anew.
RefuseAndExtend(c) ==
  /\ pc[c] = "ready"
  /\ \/ state = "open" /\ OpenTo(c)
     \/ state = "halfOpen" /\ flight
  /\ pc' = [pc EXCEPT ![c] = "idle"]
  /\ age' = lag[c]
  /\ UNCHANGED <<state, failures, flight, lag, probe, opened>>

\* ErrCircuitOpen.
Refuse(c) ==
  /\ pc[c] = "ready"
  /\ \/ state = "open" /\ OpenTo(c)
     \/ state = "halfOpen" /\ flight
  /\ pc' = [pc EXCEPT ![c] = "idle"]
  /\ UNCHANGED <<breaker, lag, probe, opened>>

\* A closed breaker admits every call.
AdmitClosed(c) ==
  /\ pc[c] = "ready" /\ state = "closed"
  /\ pc' = [pc EXCEPT ![c] = "running"]
  /\ UNCHANGED <<breaker, lag, probe, opened>>

\* Mutant: the trial is not marked as in flight.
AdmitTrialUnmarked(c) ==
  /\ pc[c] = "ready"
  /\ \/ state = "open" /\ ~OpenTo(c)
     \/ state = "halfOpen" /\ ~flight
  /\ state' = "halfOpen"
  /\ pc' = [pc EXCEPT ![c] = "running"]
  /\ probe' = c
  /\ UNCHANGED <<failures, age, flight, lag, opened>>

\* After the timeout, or when no trial is in flight, a call is a trial.
AdmitTrial(c) ==
  /\ pc[c] = "ready"
  /\ \/ state = "open" /\ ~OpenTo(c)
     \/ state = "halfOpen" /\ ~flight
  /\ state' = "halfOpen"
  /\ flight' = TRUE
  /\ pc' = [pc EXCEPT ![c] = "running"]
  /\ probe' = c
  /\ UNCHANGED <<failures, age, lag, opened>>

\* Mutant: a success takes one failure back.
SucceedOneBack(c) ==
  /\ pc[c] = "running"
  /\ state' = "closed"
  /\ failures' = failures - 1
  /\ flight' = IF state = "halfOpen" THEN FALSE ELSE flight
  /\ pc' = [pc EXCEPT ![c] = "idle"]
  /\ UNCHANGED <<age, lag, probe, opened>>

\* Any success closes the breaker, whatever its state and the call's age.
Succeed(c) ==
  /\ pc[c] = "running"
  /\ state' = "closed"
  /\ failures' = 0
  /\ flight' = IF state = "halfOpen" THEN FALSE ELSE flight
  /\ pc' = [pc EXCEPT ![c] = "idle"]
  /\ UNCHANGED <<age, lag, probe, opened>>

\* Mutant: a failed trial leaves the breaker half-open for the next one.
FailTrialStaysHalfOpen(c) ==
  /\ pc[c] = "running" /\ state = "halfOpen"
  /\ flight' = FALSE
  /\ failures' = 0
  /\ pc' = [pc EXCEPT ![c] = "idle"]
  /\ UNCHANGED <<state, age, lag, probe, opened>>

\* A failure of any call, the trial or an older one, re-opens a half-open
\* breaker, as of the time that call began.
FailHalfOpen(c) ==
  /\ pc[c] = "running" /\ state = "halfOpen"
  /\ flight' = FALSE
  /\ state' = "open"
  /\ age' = lag[c]
  /\ failures' = 0
  /\ opened' = 0
  /\ pc' = [pc EXCEPT ![c] = "idle"]
  /\ UNCHANGED <<lag, probe>>

\* Mutant: the limit is passed before the breaker opens.
ReachedLate(n) == n > MaxFails

\* Mutant: it opens one failure early.
ReachedEarly(n) == n + 1 >= MaxFails

Reached(n) == n >= MaxFails

\* Otherwise a failure counts, also when the breaker is open already.
Fail(c) ==
  /\ pc[c] = "running" /\ state # "halfOpen"
  /\ failures' = failures + 1
  /\ \/ /\ Reached(failures')
        /\ state' = "open"
        /\ age' = lag[c]
        /\ opened' = IF state = "open" THEN opened ELSE 0
     \/ /\ ~Reached(failures')
        /\ UNCHANGED <<state, age, opened>>
  /\ pc' = [pc EXCEPT ![c] = "idle"]
  /\ UNCHANGED <<flight, lag, probe>>

Execute(c) ==
  \/ Refuse(c) \/ AdmitClosed(c) \/ AdmitTrial(c)
  \/ Succeed(c) \/ FailHalfOpen(c) \/ Fail(c)

CappedInc(n, cap) == IF n < cap THEN n + 1 ELSE n

Tick ==
  /\ \A c \in Callers : pc[c] # "idle" => lag[c] < MaxLag
  /\ age' = CappedInc(age, MaxAge)
  /\ lag' = [c \in Callers |-> IF pc[c] = "idle" THEN 0 ELSE lag[c] + 1]
  /\ opened' = CappedInc(opened, ResetAfter)
  /\ UNCHANGED <<state, failures, flight, pc, probe>>

Init ==
  /\ state = "closed" /\ failures = 0 /\ age = 0 /\ flight = FALSE
  /\ pc = [c \in Callers |-> "idle"]
  /\ lag = [c \in Callers |-> 0]
  /\ probe = NoCall
  /\ opened = 0

Next == Tick \/ \E c \in Callers : Begin(c) \/ Execute(c)

Spec == Init /\ [][Next]_vars

\* Handlers keep calling, calls return, and time passes.
FairSpec ==
  /\ Spec
  /\ WF_vars(Tick)
  /\ \A c \in Callers : WF_vars(Begin(c)) /\ WF_vars(Execute(c))

-----------------------------------------------------------------------------
TypeOK ==
  /\ state \in States
  /\ failures \in Nat
  /\ age \in 0 .. MaxAge
  /\ flight \in BOOLEAN
  /\ pc \in [Callers -> {"idle", "ready", "running"}]
  /\ lag \in [Callers -> 0 .. MaxLag]
  /\ probe \in Callers \cup {NoCall}
  /\ opened \in 0 .. ResetAfter

\* halfOpenFlight is set exactly in the half-open state, whatever results
\* of older calls arrive meanwhile: no state refuses calls with nobody left
\* to clear the flag (reliability.go:145-154, 162-164).
FlightMeansHalfOpen == flight <=> state = "halfOpen"

\* A half-open breaker always has its trial still running, so some result
\* is due that ends the state: it cannot wedge (reliability.go:146-154).
HalfOpenHasTrial ==
  state = "halfOpen" => probe # NoCall /\ pc[probe] = "running"

\* A closed breaker has counted fewer failures than its limit; later, when
\* results of calls it admitted before still count, no more than these are
\* added, however late they arrive (reliability.go:166-168, 179-182).
FailuresBounded ==
  /\ state = "closed" => failures < MaxFails
  /\ failures < MaxFails + Cardinality(Callers)

\* Handlers that keep trying find the breaker out of the open state again,
\* and a trial ends the half-open state (reliability.go:141-154).
NeverStuck ==
  /\ state = "open" ~> state # "open"
  /\ state = "halfOpen" ~> state # "halfOpen"

\* "CircuitBreaker stops calls after repeated failures" (reliability.go:95):
\* a breaker that opened stays shut to every call for the reset timeout.
StopsCalls ==
  [][state = "open" /\ state' # "open" => opened >= ResetAfter]_vars
=============================================================================
