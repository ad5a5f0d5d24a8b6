------------------------ MODULE CircuitBreakerProofs ------------------------
(***************************************************************************)
(* Theorems about CircuitBreaker, for any number of callers, any limit,    *)
(* any timeout and calls of any length.                                    *)
(***************************************************************************)
EXTENDS CircuitBreaker, FiniteSetTheorems, TLAPS

\* NewCircuitBreaker leaves a positive limit and a positive timeout
\* (reliability.go:109-117).
LEMMA Defaults ==
  /\ MaxFails \in Nat /\ MaxFails >= 1
  /\ ResetAfter \in Nat /\ ResetAfter >= 1
  /\ MaxAge \in Nat /\ MaxLag <= MaxAge /\ MaxLag \in Nat
  BY BreakerAssumption DEF MaxFails, ResetAfter, MaxAge

\* The variables keep their types.
THEOREM BreakerTyped == Spec => []TypeOK
<1>1. Init => TypeOK
  <2>1. 0 \in Nat /\ 0 \in 0 .. MaxAge /\ 0 \in 0 .. MaxLag /\ 0 \in 0 .. ResetAfter
    BY Defaults
  <2> QED BY <2>1 DEF Init, TypeOK, States
<1>2. TypeOK /\ [Next]_vars => TypeOK'
  <2> SUFFICES ASSUME TypeOK, [Next]_vars PROVE TypeOK'
    OBVIOUS
  <2> USE DEF TypeOK, States
  <2>1. CASE Tick
    BY <2>1, Defaults DEF Tick, CappedInc
  <2>2. ASSUME NEW c \in Callers, Begin(c) PROVE TypeOK'
    BY <2>2, Defaults DEF Begin, breaker
  <2>3. ASSUME NEW c \in Callers, Refuse(c) PROVE TypeOK'
    BY <2>3 DEF Refuse, breaker
  <2>4. ASSUME NEW c \in Callers, AdmitClosed(c) PROVE TypeOK'
    BY <2>4 DEF AdmitClosed, breaker
  <2>5. ASSUME NEW c \in Callers, AdmitTrial(c) PROVE TypeOK'
    BY <2>5 DEF AdmitTrial
  <2>6. ASSUME NEW c \in Callers, Succeed(c) PROVE TypeOK'
    BY <2>6 DEF Succeed
  <2>0. /\ \A c \in Callers : lag[c] \in 0 .. MaxAge
        /\ 0 \in 0 .. ResetAfter /\ 0 \in Nat /\ failures + 1 \in Nat
    BY Defaults
  <2>7. ASSUME NEW c \in Callers, FailHalfOpen(c) PROVE TypeOK'
    BY <2>7, <2>0 DEF FailHalfOpen
  <2>8. ASSUME NEW c \in Callers, Fail(c) PROVE TypeOK'
    BY <2>8, <2>0 DEF Fail
  <2>9. CASE UNCHANGED vars
    BY <2>9 DEF vars, breaker
  <2> QED
    BY <2>1, <2>2, <2>3, <2>4, <2>5, <2>6, <2>7, <2>8, <2>9 DEF Next, Execute
<1> QED BY <1>1, <1>2, PTL DEF Spec

Running == {c \in Callers : pc[c] = "running"}

\* Failures that count while the breaker is open are those of calls that are
\* still running: the two together do not grow.
FailuresInv ==
  /\ state = "closed" => failures < MaxFails
  /\ state = "open" => failures + Cardinality(Running) < MaxFails + Cardinality(Callers)
  /\ failures < MaxFails + Cardinality(Callers)

\* Results of older calls may close or open the breaker at any moment; what
\* survives them is these facts together: the flag needs the state, the
\* state needs its trial, the trial clears both, and running calls bound the
\* failures.
BreakerInv == FlightMeansHalfOpen /\ HalfOpenHasTrial /\ FailuresInv

\* Callers are finitely many, and so are those that run.
LEMMA RunningFinite ==
  /\ Cardinality(Callers) \in Nat
  /\ Cardinality(Running) \in Nat /\ Cardinality(Running) <= Cardinality(Callers)
<1>1. IsFiniteSet(Callers) /\ Running \subseteq Callers
  BY BreakerAssumption DEF Running
<1> QED BY <1>1, FS_CardinalityType, FS_Subset

\* A call that ends leaves one running call less.
LEMMA RunningEnds ==
  ASSUME TypeOK, NEW c \in Callers, pc[c] = "running",
         pc' = [pc EXCEPT ![c] = "idle"]
  PROVE  /\ Cardinality(Running') = Cardinality(Running) - 1
         /\ Cardinality(Running') \in Nat
         /\ Cardinality(Running') < Cardinality(Callers)
<1>1. Running' = Running \ {c} /\ c \in Running
  BY DEF Running, TypeOK
<1>2. IsFiniteSet(Running)
  BY BreakerAssumption, FS_Subset DEF Running
<1>3. IsFiniteSet(Running')
  BY <1>1, <1>2, FS_Subset
<1>4. Cardinality(Running') = Cardinality(Running) - 1
  BY <1>1, <1>2, FS_RemoveElement
<1>5. Cardinality(Running') \in Nat
  BY <1>3, FS_CardinalityType
<1> QED BY <1>4, <1>5, RunningFinite

\* Every step of a typed breaker keeps these facts.
LEMMA BreakerStep == TypeOK /\ BreakerInv /\ [Next]_vars => BreakerInv'
<1> SUFFICES ASSUME TypeOK, BreakerInv, [Next]_vars PROVE BreakerInv'
  OBVIOUS
<1> USE DEF BreakerInv, FlightMeansHalfOpen, HalfOpenHasTrial, FailuresInv, TypeOK
<1>1. CASE Tick
  BY <1>1 DEF Tick, Running
<1>2. ASSUME NEW c \in Callers, Begin(c) PROVE BreakerInv'
  <2>1. Running' = Running
    BY <1>2 DEF Begin, Running
  <2> QED BY <1>2, <2>1 DEF Begin, breaker
<1>3. ASSUME NEW c \in Callers, Refuse(c) PROVE BreakerInv'
  <2>1. Running' = Running
    BY <1>3 DEF Refuse, Running
  <2> QED BY <1>3, <2>1 DEF Refuse, breaker
<1>4. ASSUME NEW c \in Callers, AdmitClosed(c) PROVE BreakerInv'
  BY <1>4 DEF AdmitClosed, breaker
<1>5. ASSUME NEW c \in Callers, AdmitTrial(c) PROVE BreakerInv'
  BY <1>5, BreakerAssumption DEF AdmitTrial
<1>6. ASSUME NEW c \in Callers, Succeed(c) PROVE BreakerInv'
  BY <1>6, Defaults, RunningFinite DEF Succeed
<1>7. ASSUME NEW c \in Callers, FailHalfOpen(c) PROVE BreakerInv'
  <2>1. Cardinality(Running') \in Nat /\ Cardinality(Running') < Cardinality(Callers)
    BY <1>7, RunningEnds DEF FailHalfOpen
  <2>2. 0 + Cardinality(Running') < MaxFails + Cardinality(Callers)
    BY <2>1, Defaults, RunningFinite
  <2> QED BY <1>7, <2>2, Defaults, RunningFinite DEF FailHalfOpen
<1>8. ASSUME NEW c \in Callers, Fail(c) PROVE BreakerInv'
  <2>1. ~flight /\ ~flight' /\ state' # "halfOpen" /\ state # "halfOpen"
    BY <1>8 DEF Fail
  <2>2. /\ Cardinality(Running') = Cardinality(Running) - 1
        /\ Cardinality(Running') \in Nat
        /\ Cardinality(Running') < Cardinality(Callers)
    BY <1>8, RunningEnds DEF Fail
  <2>3. /\ failures' = failures + 1 /\ failures' \in Nat
        /\ failures' < MaxFails => state' = state
        /\ failures' >= MaxFails => state' = "open"
    BY <1>8, Defaults DEF Fail, Reached
  <2>4. CASE state = "closed"
    <3>1. failures + 1 <= MaxFails
      BY <2>4, Defaults
    <3> QED BY <3>1, <2>2, <2>3, <2>4, Defaults, RunningFinite, <2>1
  <2>5. CASE state = "open"
    <3>1. state' = "open"
      BY <2>3, <2>5, Defaults
    <3>2. failures' + Cardinality(Running') < MaxFails + Cardinality(Callers)
      BY <2>2, <2>3, <2>5, Defaults, RunningFinite
    <3> QED BY <3>1, <3>2, <2>2, <2>3, <2>1, Defaults, RunningFinite
  <2> QED BY <2>1, <2>4, <2>5 DEF States
<1>9. CASE UNCHANGED vars
  BY <1>9 DEF vars, breaker, Running
<1> QED
  BY <1>1, <1>2, <1>3, <1>4, <1>5, <1>6, <1>7, <1>8, <1>9 DEF Next, Execute

\* A new breaker is closed, with no trial and no failure.
LEMMA BreakerStart == Init => BreakerInv
  BY Defaults, RunningFinite
  DEF Init, BreakerInv, FlightMeansHalfOpen, HalfOpenHasTrial, FailuresInv

\* The half-open flag is set exactly in the half-open state: no result,
\* however late, leaves it behind to refuse calls for ever
\* (reliability.go:145-154, 162-164).
THEOREM FlagFollowsState == Spec => []FlightMeansHalfOpen
<1>1. BreakerInv => FlightMeansHalfOpen
  BY DEF BreakerInv
<1> QED BY <1>1, BreakerTyped, BreakerStart, BreakerStep, PTL DEF Spec

\* A half-open breaker has its trial still under way (reliability.go:146-154).
THEOREM TrialIsRunning == Spec => []HalfOpenHasTrial
<1>1. BreakerInv => HalfOpenHasTrial
  BY DEF BreakerInv
<1> QED BY <1>1, BreakerTyped, BreakerStart, BreakerStep, PTL DEF Spec

\* A closed breaker is below its limit, and no results that come late take
\* the failures further than the calls that were under way
\* (reliability.go:166-168, 179-182).
THEOREM FailuresAreBounded == Spec => []FailuresBounded
<1>1. BreakerInv => FailuresBounded
  BY DEF BreakerInv, FailuresInv, FailuresBounded
<1> QED BY <1>1, BreakerTyped, BreakerStart, BreakerStep, PTL DEF Spec

(***************************************************************************)
(* How soon a trial may come.                                              *)
(***************************************************************************)
\* An open breaker counts its timeout from the clock reading of a call that
\* failed, which is no older than the longest call.
CountsFromCall == state = "open" => age <= opened + MaxLag

\* A trial comes earlier than the timeout by no more than the longest call.
TrialWaits ==
  [][state = "open" /\ state' = "halfOpen" => opened + MaxLag >= ResetAfter]_vars

\* Every step of a typed breaker keeps the count within one call of the truth.
LEMMA CountStep == TypeOK /\ CountsFromCall /\ [Next]_vars => CountsFromCall'
<1> SUFFICES ASSUME TypeOK, CountsFromCall, [Next]_vars PROVE CountsFromCall'
  OBVIOUS
<1> USE DEF TypeOK, CountsFromCall
<1>1. CASE Tick
  BY <1>1, Defaults DEF Tick, CappedInc, MaxAge
<1>2. ASSUME NEW c \in Callers, Begin(c) \/ Refuse(c) \/ AdmitClosed(c)
      PROVE  CountsFromCall'
  BY <1>2 DEF Begin, Refuse, AdmitClosed, breaker
<1>3. ASSUME NEW c \in Callers, AdmitTrial(c) \/ Succeed(c) PROVE CountsFromCall'
  BY <1>3 DEF AdmitTrial, Succeed
<1>4. ASSUME NEW c \in Callers, FailHalfOpen(c) PROVE CountsFromCall'
  BY <1>4, Defaults DEF FailHalfOpen
<1>5. ASSUME NEW c \in Callers, Fail(c) PROVE CountsFromCall'
  BY <1>5, Defaults DEF Fail
<1>6. CASE UNCHANGED vars
  BY <1>6 DEF vars, breaker
<1> QED BY <1>1, <1>2, <1>3, <1>4, <1>5, <1>6 DEF Next, Execute

\* StopsCalls does not hold, because the clock is read before the mutex is
\* taken and stored after the call (reliability.go:136, 174, 182); but the
\* readings make a trial early by the length of one call at most: with calls
\* shorter than the timeout, no trial comes right after the breaker opened
\* (reliability.go:141-145).
THEOREM TrialsWait == Spec => TrialWaits
<1>1. Init => CountsFromCall
  BY DEF Init, CountsFromCall
<1>2. TypeOK /\ CountsFromCall /\ [Next]_vars
        => (state = "open" /\ state' = "halfOpen" => opened + MaxLag >= ResetAfter)
  <2> SUFFICES ASSUME TypeOK, CountsFromCall, [Next]_vars,
                      state = "open", state' = "halfOpen"
               PROVE  opened + MaxLag >= ResetAfter
    OBVIOUS
  <2>1. PICK c \in Callers : AdmitTrial(c)
    BY DEF Next, Execute, Tick, Begin, Refuse, AdmitClosed, Succeed, FailHalfOpen, Fail,
       vars, breaker
  <2>2. age - lag[c] >= ResetAfter
    BY <2>1, Defaults DEF AdmitTrial, OpenTo, TypeOK
  <2> QED BY <2>2, Defaults DEF TypeOK, CountsFromCall
<1> QED BY <1>1, <1>2, BreakerTyped, CountStep, PTL DEF Spec, TrialWaits
=============================================================================
