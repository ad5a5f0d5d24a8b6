----------------------- MODULE ReliableClientsProofs -----------------------
(***************************************************************************)
(* Theorems about ReliableClients, for any number of calls and any limits: *)
(* a call keeps the contract of ReliableCall, and the limiter and the      *)
(* breaker are used as RateLimiter and CircuitBreaker take for granted, so *)
(* that the theorems about those carry over; a call that is tried again    *)
(* backs off, for any number of attempts and any width of a duration.      *)
(***************************************************************************)
EXTENDS ReliableClients, WellFoundedInduction, TLAPS

\* Where a call is decides what it has done: the breaker only works for calls
\* that are at it, a call has an answer when it is done, and a call that is
\* not may issue another statement.
CallInv ==
  /\ at \in [Callers -> {"start", "limiter", "token", "breaker", "backoff", "done"}]
  /\ outcome \in [Callers -> {"none", "nil", "context", "circuitOpen", "error"}]
  /\ tries \in [Callers -> Nat]
  /\ executing \in [Callers -> {"idle", "ready", "running"}]
  /\ \A c \in Callers :
       /\ executing[c] # "idle" => at[c] = "breaker"
       /\ at[c] = "done" <=> outcome[c] # "none"
       /\ at[c] # "done" => tries[c] < Attempts

\* A retry policy allows one attempt at least (reliability.go:33-36).
LEMMA AttemptsPositive == Attempts \in Nat /\ Attempts >= 1
  BY ClientsAssumption DEF Attempts

\* No call is under way at first.
LEMMA InitClients == Init => CallInv
  BY AttemptsPositive DEF Init, Breaker!Init, CallInv

\* An attempt that the breaker saw is one of those that are left.
LEMMA AttemptEnds ==
  ASSUME CallInv, NEW c \in Callers, Succeeds(c) \/ Errs(c)
  PROVE  CallInv' /\ Contract!Issue(c)
<1> USE DEF CallInv
<1>1. /\ executing[c] = "running" /\ executing' = [executing EXCEPT ![c] = "idle"]
      /\ tries' = [tries EXCEPT ![c] = @ + 1]
  BY DEF Succeeds, Errs, Tried, Breaker!Succeed, Breaker!FailHalfOpen, Breaker!Fail
<1>2. /\ at[c] = "breaker" /\ outcome[c] = "none" /\ tries[c] \in Nat /\ tries[c] < Attempts
      /\ tries'[c] = tries[c] + 1 /\ tries' \in [Callers -> Nat]
  BY <1>1
<1>3. tries[c] + 1 # Attempts => tries[c] + 1 < Attempts
  BY <1>2, AttemptsPositive
<1>4. \/ \E r \in {"nil", "context"} : Return(c, r)
      \/ tries'[c] = Attempts /\ Return(c, "error")
      \/ tries'[c] < Attempts /\ Goto(c, "backoff") /\ UNCHANGED outcome
  BY <1>2, <1>3 DEF Succeeds, Errs, IsLast
<1>5. Contract!Issue(c)
  BY <1>1, <1>2, <1>4 DEF Contract!Issue, Contract!End, Return
<1>6. CallInv'
  BY <1>1, <1>2, <1>4 DEF Return, Goto
<1> QED BY <1>5, <1>6

\* Every other step keeps the invariant, and ends a call at most.
LEMMA CallStep ==
  ASSUME CallInv, [Next]_vars
  PROVE  CallInv' /\ [Contract!Next]_<<outcome, tries>>
<1> USE DEF CallInv
<1>1. ASSUME NEW c \in Callers, Attempt(c) \/ WaitForToken(c)
      PROVE  CallInv' /\ UNCHANGED <<outcome, tries>>
  BY <1>1 DEF Attempt, WaitForToken, Goto, breaker
<1>2. ASSUME NEW c \in Callers, EnterBreaker(c) \/ Admitted(c)
      PROVE  CallInv' /\ UNCHANGED <<outcome, tries>>
  BY <1>2 DEF EnterBreaker, Admitted, Goto, call, Breaker!Begin, Breaker!AdmitClosed,
     Breaker!AdmitTrial
<1>3. ASSUME NEW c \in Callers, GiveUp(c) \/ Refused(c)
      PROVE  CallInv' /\ Contract!GiveUp(c)
  <2>1. /\ at[c] \notin {"done"} /\ UNCHANGED tries
        /\ at' = [at EXCEPT ![c] = "done"]
        /\ \E r \in {"context", "circuitOpen"} : outcome' = [outcome EXCEPT ![c] = r]
    BY <1>3 DEF GiveUp, Refused, Return, Goto, Breaker!Refuse
  <2>2. executing' = [executing EXCEPT ![c] = "idle"] /\ executing'[c] = "idle"
    <3>1. CASE GiveUp(c)
      <4>1. at[c] \in {"start", "backoff", "limiter"} /\ executing' = executing
        BY <3>1 DEF GiveUp, breaker
      <4> QED BY <4>1
    <3>2. CASE Refused(c)
      BY <3>2 DEF Refused, Breaker!Refuse
    <3> QED BY <1>3, <3>1, <3>2
  <2>3. PICK r \in {"context", "circuitOpen"} : outcome' = [outcome EXCEPT ![c] = r]
    BY <2>1
  <2>4. outcome[c] = "none"
    BY <2>1
  <2>5. CallInv'
    BY <2>1, <2>2, <2>3
  <2> QED BY <2>1, <2>3, <2>4, <2>5 DEF Contract!GiveUp, Contract!End
<1>4. ASSUME NEW c \in Callers, Succeeds(c) \/ Errs(c)
      PROVE  CallInv' /\ Contract!Issue(c)
  BY <1>4, AttemptEnds
<1>5. ASSUME Tick \/ (\E c \in Callers : Cancel(c)) \/ UNCHANGED vars
      PROVE  CallInv' /\ UNCHANGED <<outcome, tries>>
  BY <1>5 DEF Tick, Cancel, vars, call, breaker, Breaker!Tick
<1> QED BY <1>1, <1>2, <1>3, <1>4, <1>5 DEF Next, Do, Contract!Next

\* Limiter, breaker and retries together keep what OrderService relies on:
\* no statement after a success, a refusal or the last attempt, and the
\* right answer (reliability.go:25-78, 309-322, 348-361).
THEOREM ClientsKeepCall == Spec => KeepsCall
<1>1. Spec => []CallInv
  BY InitClients, CallStep, PTL DEF Spec
<1>2. Init => Contract!Init
  BY DEF Init, Contract!Init
<1>3. Spec => [][Contract!Next]_<<outcome, tries>>
  BY <1>1, CallStep, PTL DEF Spec
<1> QED BY <1>2, <1>3, PTL DEF Spec, KeepsCall, Contract!Spec, Contract!vars

-----------------------------------------------------------------------------
(***************************************************************************)
(* What RateLimiter and CircuitBreaker take for granted of their callers:  *)
(* with it, whatever is proved of them alone holds of the clients too.     *)
(***************************************************************************)
\* A client waits for the limiter, and leaves it, as Wait expects: once per
\* attempt, the sleeps of the retry policy in between
\* (reliability.go:38-78, 213-277, 309-315, 348-354).
THEOREM ClientsUseLimiter == Spec => Limiter!Spec
<1>1. Init => Limiter!Init
  BY DEF Init
<1>2. [Next]_vars => [Limiter!Next]_(Limiter!vars)
  <2> SUFFICES ASSUME [Next]_vars PROVE Limiter!Next \/ UNCHANGED limiter
    BY DEF limiter, Limiter!vars, Limiter!bucket
  <2>1. ASSUME NEW c \in Callers, Attempt(c) \/ GiveUp(c) \/ WaitForToken(c)
        PROVE  Limiter!Next \/ UNCHANGED limiter
    BY <2>1 DEF Attempt, GiveUp, WaitForToken, Limiter!Next, Limiter!Wait
  <2>2. ASSUME NEW c \in Callers,
               \/ EnterBreaker(c) \/ Refused(c) \/ Admitted(c) \/ Succeeds(c) \/ Errs(c)
               \/ Cancel(c)
        PROVE  UNCHANGED limiter
    BY <2>2 DEF EnterBreaker, Refused, Admitted, Succeeds, Errs, Cancel
  <2>3. Tick => Limiter!Next
    BY DEF Tick, Limiter!Next
  <2>4. UNCHANGED vars => UNCHANGED limiter
    BY DEF vars
  <2> QED BY <2>1, <2>2, <2>3, <2>4 DEF Next, Do
<1> QED BY <1>1, <1>2, PTL DEF Spec, Limiter!Spec

\* A client executes one statement at a time under the breaker, and reports
\* each (reliability.go:119-183, 316-322, 355-361).
THEOREM ClientsUseBreaker == Spec => Breaker!Spec
<1>1. Init => Breaker!Init
  BY DEF Init
<1>2. [Next]_vars => [Breaker!Next]_(Breaker!vars)
  <2> SUFFICES ASSUME [Next]_vars PROVE Breaker!Next \/ UNCHANGED breaker
    BY DEF breaker, Breaker!vars, Breaker!breaker
  <2>1. ASSUME NEW c \in Callers,
               EnterBreaker(c) \/ Refused(c) \/ Admitted(c) \/ Succeeds(c) \/ Errs(c)
        PROVE  Breaker!Next
    BY <2>1 DEF EnterBreaker, Refused, Admitted, Succeeds, Errs, Breaker!Next,
       Breaker!Execute
  <2>2. ASSUME NEW c \in Callers,
               Attempt(c) \/ GiveUp(c) \/ WaitForToken(c) \/ Cancel(c)
        PROVE  UNCHANGED breaker
    BY <2>2 DEF Attempt, GiveUp, WaitForToken, Cancel
  <2>3. Tick => Breaker!Next
    BY DEF Tick, Breaker!Next
  <2>4. UNCHANGED vars => UNCHANGED breaker
    BY DEF vars
  <2> QED BY <2>1, <2>2, <2>3, <2>4 DEF Next, Do
<1> QED BY <1>1, <1>2, PTL DEF Spec, Breaker!Spec

-----------------------------------------------------------------------------
(***************************************************************************)
(* What is proved of the limiter and of the breaker, of the clients.       *)
(***************************************************************************)
LimiterFacts == INSTANCE RateLimiterProofs WITH pc <- waiting
BreakerFacts == INSTANCE CircuitBreakerProofs WITH pc <- executing

\* The clients' limiter and breaker are instances that the theorems cover.
LEMMA PartsFit == LimiterFacts!LimiterAssumption /\ BreakerFacts!BreakerAssumption
  BY ClientsAssumption
  DEF LimiterFacts!LimiterAssumption, BreakerFacts!BreakerAssumption,
      BreakerFacts!IsFiniteSet, IsFiniteSet

\* The theorems speak of the limiter the clients use.
LEMMA SameLimiter == Limiter!Spec => LimiterFacts!Spec
<1>1. Limiter!Init => LimiterFacts!Init
  BY DEF Limiter!Init, LimiterFacts!Init
<1>2. [Limiter!Next]_(Limiter!vars) => [LimiterFacts!Next]_(LimiterFacts!vars)
  BY DEF Limiter!Next, Limiter!vars, Limiter!bucket, Limiter!Wait,
     Limiter!Tick, Limiter!Arrive, Limiter!Take, Limiter!Sleep, Limiter!Wake,
     Limiter!Cancel, Limiter!Filled, Limiter!Accrued, Limiter!Remainder,
     Limiter!UntilNext, Limiter!MaxSince,
     LimiterFacts!Next, LimiterFacts!vars, LimiterFacts!bucket, LimiterFacts!Wait,
     LimiterFacts!Tick, LimiterFacts!Arrive, LimiterFacts!Take, LimiterFacts!Sleep,
     LimiterFacts!Wake, LimiterFacts!Cancel, LimiterFacts!Filled, LimiterFacts!Accrued,
     LimiterFacts!Remainder, LimiterFacts!UntilNext, LimiterFacts!MaxSince
<1> QED BY <1>1, <1>2, PTL DEF Limiter!Spec, LimiterFacts!Spec

\* The theorems speak of the breaker the clients use.
LEMMA SameBreaker == Breaker!Spec => BreakerFacts!Spec
<1>1. Breaker!Init => BreakerFacts!Init
  BY DEF Breaker!Init, BreakerFacts!Init
<1>2. [Breaker!Next]_(Breaker!vars) => [BreakerFacts!Next]_(BreakerFacts!vars)
  BY DEF Breaker!Next, Breaker!vars, Breaker!breaker, Breaker!Execute,
     Breaker!Tick, Breaker!Begin, Breaker!Refuse, Breaker!AdmitClosed,
     Breaker!AdmitTrial, Breaker!Succeed, Breaker!Fail, Breaker!FailHalfOpen,
     Breaker!OpenTo, Breaker!Reached, Breaker!MaxFails, Breaker!CappedInc,
     Breaker!MaxAge, Breaker!ResetAfter,
     BreakerFacts!Next, BreakerFacts!vars, BreakerFacts!breaker, BreakerFacts!Execute,
     BreakerFacts!Tick, BreakerFacts!Begin, BreakerFacts!Refuse,
     BreakerFacts!AdmitClosed, BreakerFacts!AdmitTrial, BreakerFacts!Succeed,
     BreakerFacts!Fail, BreakerFacts!FailHalfOpen, BreakerFacts!OpenTo,
     BreakerFacts!Reached, BreakerFacts!MaxFails, BreakerFacts!CappedInc,
     BreakerFacts!MaxAge, BreakerFacts!ResetAfter
<1> QED BY <1>1, <1>2, PTL DEF Breaker!Spec, BreakerFacts!Spec

\* The credit of the ideal bucket beside the clients' limiter.
Credit ==
  IF tokens * Rate + since < Burst * Rate + Rate - 1
  THEN tokens * Rate + since ELSE Burst * Rate + Rate - 1

\* The calls of a client, however they fail, pause and leave, get no more
\* tokens than an ideal bucket gives, and none of them sleeps beside one
\* (reliability.go:213-277, 309-315).
THEOREM ClientsAreLimited ==
  Spec => Limiter!NeverExceedsBucket /\ []Limiter!SleepersAreDue
<1>1. Spec => LimiterFacts!Spec
  BY ClientsUseLimiter, SameLimiter
<1>2. LimiterFacts!Spec => LimiterFacts!NeverExceedsBucket
  BY PartsFit, LimiterFacts!LimiterNeverExceedsBucket, PTL
<1>3. LimiterFacts!Spec => []LimiterFacts!SleepersAreDue
  BY PartsFit, LimiterFacts!SleepersWakeInTime, PTL
<1>4. LimiterFacts!Ideal!Init => Limiter!Ideal!Init
  BY DEF LimiterFacts!Ideal!Init, Limiter!Ideal!Init
<1>5. [LimiterFacts!Ideal!Next]_Credit => [Limiter!Ideal!Next]_Credit
  BY DEF LimiterFacts!Ideal!Next, LimiterFacts!Ideal!Tick, LimiterFacts!Ideal!Grant,
     Limiter!Ideal!Next, Limiter!Ideal!Tick, Limiter!Ideal!Grant, Credit
<1>6. LimiterFacts!NeverExceedsBucket => Limiter!NeverExceedsBucket
  BY <1>4, <1>5, PTL
  DEF LimiterFacts!NeverExceedsBucket, Limiter!NeverExceedsBucket,
      LimiterFacts!Ideal!Spec, Limiter!Ideal!Spec, Credit
<1>7. LimiterFacts!SleepersAreDue => Limiter!SleepersAreDue
  BY DEF LimiterFacts!SleepersAreDue, Limiter!SleepersAreDue
<1> QED BY <1>1, <1>2, <1>3, <1>6, <1>7, PTL

\* However the calls of a client are retried, refused and cancelled, its
\* breaker cannot wedge: it is half-open only while a call of a client runs
\* the trial, and a closed one is below its limit (reliability.go:131-184,
\* 316-322).
THEOREM ClientsBreakerWorks ==
  Spec => [](/\ Breaker!FlightMeansHalfOpen /\ Breaker!FailuresBounded
             /\ state = "halfOpen" => probe \in Callers /\ at[probe] = "breaker")
<1>1. Spec => BreakerFacts!Spec
  BY ClientsUseBreaker, SameBreaker
<1>2. BreakerFacts!Spec => []BreakerFacts!FlightMeansHalfOpen
  BY PartsFit, BreakerFacts!FlagFollowsState, PTL
<1>3. BreakerFacts!Spec => []BreakerFacts!FailuresBounded
  BY PartsFit, BreakerFacts!FailuresAreBounded, PTL
<1>4. BreakerFacts!Spec => []BreakerFacts!HalfOpenHasTrial
  BY PartsFit, BreakerFacts!TrialIsRunning, PTL
<1>5. BreakerFacts!Spec => []BreakerFacts!TypeOK
  BY PartsFit, BreakerFacts!BreakerTyped, PTL
<1>6. BreakerFacts!FlightMeansHalfOpen => Breaker!FlightMeansHalfOpen
  BY DEF BreakerFacts!FlightMeansHalfOpen, Breaker!FlightMeansHalfOpen
<1>7. BreakerFacts!FailuresBounded => Breaker!FailuresBounded
  BY DEF BreakerFacts!FailuresBounded, BreakerFacts!MaxFails, BreakerFacts!Cardinality,
     Breaker!FailuresBounded, Breaker!MaxFails, Breaker!Cardinality
<1>8. CallInv /\ BreakerFacts!TypeOK /\ BreakerFacts!HalfOpenHasTrial
        => (state = "halfOpen" => probe \in Callers /\ at[probe] = "breaker")
  BY DEF CallInv, BreakerFacts!TypeOK, BreakerFacts!HalfOpenHasTrial
<1> QED
  BY <1>1, <1>2, <1>3, <1>4, <1>5, <1>6, <1>7, <1>8, InitClients, CallStep, PTL DEF Spec

-----------------------------------------------------------------------------
(***************************************************************************)
(* What a refusal costs.                                                   *)
(***************************************************************************)
\* The breaker has counted no more failures than there were, and left its
\* closed state only for as many as configured.
EarnedInv ==
  /\ erred \in Nat /\ failures \in Nat /\ failures <= erred
  /\ state # "closed" => erred >= Breaker!MaxFails
  /\ RefusalIsEarned

\* A breaker opens at one failure at least, whatever the configuration says
\* (reliability.go:109-117).
LEMMA LimitPositive == Breaker!MaxFails \in Nat /\ Breaker!MaxFails >= 1
  BY ClientsAssumption DEF Breaker!MaxFails

\* Every failure the breaker counts is a failed attempt, and it refuses
\* nobody while it is closed.
LEMMA EarnedStep == CallInv /\ EarnedInv /\ [Next]_vars => EarnedInv'
<1> SUFFICES ASSUME CallInv, EarnedInv, [Next]_vars PROVE EarnedInv'
  OBVIOUS
<1> USE LimitPositive DEF EarnedInv, RefusalIsEarned, CallInv
<1>1. ASSUME NEW c \in Callers, Refused(c) PROVE EarnedInv'
  <2>1. state # "closed" /\ UNCHANGED <<state, failures, erred>>
    BY <1>1 DEF Refused, Breaker!Refuse, Breaker!breaker
  <2> QED BY <2>1
<1>2. ASSUME NEW c \in Callers, Errs(c) PROVE EarnedInv'
  <2>1. /\ erred' = erred + 1
        /\ \A d \in Callers : outcome'[d] = "circuitOpen" => outcome[d] = "circuitOpen"
    BY <1>2 DEF Errs, Return
  <2>2. CASE Breaker!FailHalfOpen(c)
    BY <2>1, <2>2 DEF Breaker!FailHalfOpen
  <2>3. CASE Breaker!Fail(c)
    BY <2>1, <2>3 DEF Breaker!Fail, Breaker!Reached
  <2> QED BY <1>2, <2>2, <2>3 DEF Errs
<1>3. ASSUME NEW c \in Callers, Succeeds(c) PROVE EarnedInv'
  BY <1>3 DEF Succeeds, Return, Breaker!Succeed
<1>4. ASSUME NEW c \in Callers, Admitted(c) PROVE EarnedInv'
  BY <1>4 DEF Admitted, call, Breaker!AdmitClosed, Breaker!AdmitTrial, Breaker!breaker
<1>5. ASSUME NEW c \in Callers,
             Attempt(c) \/ GiveUp(c) \/ WaitForToken(c) \/ EnterBreaker(c) \/ Cancel(c)
      PROVE  EarnedInv'
  <2>1. /\ UNCHANGED <<state, failures, erred>>
        /\ \A d \in Callers : outcome'[d] = "circuitOpen" => outcome[d] = "circuitOpen"
    BY <1>5 DEF Attempt, GiveUp, WaitForToken, EnterBreaker, Cancel, Return, breaker, call,
       Breaker!Begin, Breaker!breaker
  <2> QED BY <2>1
<1>6. CASE Tick \/ UNCHANGED vars
  BY <1>6 DEF Tick, Breaker!Tick, vars, breaker, call
<1> QED BY <1>1, <1>2, <1>3, <1>4, <1>5, <1>6 DEF Next, Do

\* Nobody is refused by a breaker that has not seen as many attempts fail as
\* it takes to open it, however often it opened and closed in between
\* (reliability.go:157-183).
THEOREM RefusalsAreEarned == Spec => []RefusalIsEarned
<1>1. Init => CallInv /\ EarnedInv
  BY InitClients, LimitPositive DEF Init, Breaker!Init, EarnedInv, RefusalIsEarned
<1>2. EarnedInv => RefusalIsEarned
  BY DEF EarnedInv
<1> QED BY <1>1, <1>2, CallStep, EarnedStep, PTL DEF Spec

-----------------------------------------------------------------------------
(***************************************************************************)
(* The doubling of the delay.                                              *)
(***************************************************************************)
\* The delays that are configured fit in a duration.
LEMMA DelayFacts ==
  /\ SignBit \in Int /\ SignBit >= 1
  /\ BaseDelay \in Nat /\ BaseDelay < SignBit
  /\ MaxDelay \in Nat /\ MaxDelay < SignBit
<1>1. SignBit \in Int
  BY ClientsAssumption DEF SignBit
<1> QED BY <1>1, ClientsAssumption DEF SignBit

\* What holds of 0 and of the successor of each of its members holds of Nat.
LEMMA NatInductive ==
  ASSUME NEW S, 0 \in S, \A n \in S \cap Nat : n + 1 \in S
  PROVE  Nat \subseteq S
<1> DEFINE Less == {p \in Nat \X Nat : p[1] < p[2]}
<1>1. IsWellFoundedOn(Less, Nat)
  <2>1. OpToRel(<, Nat) = Less
    BY DEF OpToRel
  <2> QED BY <2>1, NatLessThanWellFounded
<1> SUFFICES ASSUME Nat \ S # {} PROVE FALSE
  OBVIOUS
<1>2. PICK x \in Nat \ S : \A y \in Nat \ S : <<y, x>> \notin Less
  BY <1>1, WFMin
<1>3. x - 1 \in Nat /\ <<x - 1, x>> \in Less
  BY <1>2
<1>4. x - 1 \in S
  BY <1>2, <1>3
<1> QED BY <1>2, <1>3, <1>4

\* The tables of the first n doublings: there is one for each n, and they
\* agree, so the recursion defines a function.
Table(n) ==
  {g \in [0 .. n -> Nat] : g[0] = BaseDelay /\ \A i \in 1 .. n : g[i] = 2 * g[i - 1]}

\* One more doubling extends a table.
LEMMA TablesExist == \A n \in Nat : Table(n) # {}
<1> DEFINE S == {n \in Nat : Table(n) # {}}
<1>1. 0 \in S
  <2>1. [i \in 0 .. 0 |-> BaseDelay] \in Table(0)
    BY DelayFacts DEF Table
  <2> QED BY <2>1
<1>2. ASSUME NEW n \in S \cap Nat PROVE n + 1 \in S
  <2>1. PICK g : g \in Table(n)
    OBVIOUS
  <2> DEFINE h == [i \in 0 .. n + 1 |-> IF i = n + 1 THEN 2 * g[n] ELSE g[i]]
  <2>2. /\ g \in [0 .. n -> Nat] /\ g[0] = BaseDelay /\ 2 * g[n] \in Nat
        /\ \A i \in 1 .. n : g[i] = 2 * g[i - 1]
    BY <2>1 DEF Table
  <2>3. h \in [0 .. n + 1 -> Nat] /\ h[0] = BaseDelay
    BY <2>2
  <2>4. ASSUME NEW i \in 1 .. n + 1 PROVE h[i] = 2 * h[i - 1]
    <3>1. i - 1 \in 0 .. n /\ i - 1 # n + 1 /\ i \in 0 .. n + 1
      OBVIOUS
    <3>2. CASE i = n + 1
      BY <3>1, <3>2
    <3>3. CASE i # n + 1
      <4>1. i \in 1 .. n
        BY <3>3
      <4> QED BY <2>2, <3>1, <3>3, <4>1
    <3> QED BY <3>2, <3>3
  <2>5. h \in Table(n + 1)
    BY <2>3, <2>4 DEF Table
  <2> QED BY <2>5
<1> QED BY <1>1, <1>2, NatInductive

\* Two tables have the same doublings as far as both go.
LEMMA TablesAgree ==
  \A i \in Nat : \A m, n \in Nat : i <= m /\ i <= n =>
    \A g \in Table(m), h \in Table(n) : g[i] = h[i]
<1> DEFINE Agree(i) == \A m, n \in Nat : i <= m /\ i <= n =>
                         \A g \in Table(m), h \in Table(n) : g[i] = h[i]
           S == {i \in Nat : Agree(i)}
<1>1. 0 \in S
  BY DEF Table
<1>2. ASSUME NEW i \in S \cap Nat PROVE i + 1 \in S
  <2> SUFFICES ASSUME NEW m \in Nat, NEW n \in Nat, i + 1 <= m, i + 1 <= n,
                      NEW g \in Table(m), NEW h \in Table(n)
               PROVE  g[i + 1] = h[i + 1]
    OBVIOUS
  <2>1. g[i] = h[i]
    OBVIOUS
  <2>2. i + 1 \in 1 .. m /\ i + 1 \in 1 .. n /\ (i + 1) - 1 = i
    OBVIOUS
  <2>3. g[i + 1] = 2 * g[i] /\ h[i + 1] = 2 * h[i]
    BY <2>2 DEF Table
  <2> QED BY <2>1, <2>3
<1> QED BY <1>1, <1>2, NatInductive

\* Doubled is the function that its definition describes.
LEMMA DoubledDef ==
  Doubled = [n \in Nat |-> IF n = 0 THEN BaseDelay ELSE 2 * Doubled[n - 1]]
<1> DEFINE F == [n \in Nat |-> (CHOOSE g : g \in Table(n))[n]]
<1>1. \A n \in Nat : (CHOOSE g : g \in Table(n)) \in Table(n)
  BY TablesExist
<1>2. F[0] = BaseDelay
  BY <1>1 DEF Table
<1>3. ASSUME NEW n \in Nat, n # 0 PROVE F[n] = 2 * F[n - 1]
  <2> DEFINE g == CHOOSE x : x \in Table(n)
             h == CHOOSE x : x \in Table(n - 1)
  <2>1. n - 1 \in Nat /\ n \in 1 .. n /\ n - 1 <= n
    BY <1>3
  <2>2. g \in Table(n) /\ h \in Table(n - 1)
    BY <1>1, <2>1
  <2>3. g[n] = 2 * g[n - 1]
    BY <2>1, <2>2 DEF Table
  <2>4. g[n - 1] = h[n - 1]
    BY <2>1, <2>2, TablesAgree
  <2>5. F[n] = g[n] /\ F[n - 1] = h[n - 1]
    BY <2>1
  <2> QED BY <2>3, <2>4, <2>5
<1>4. F = [n \in Nat |-> IF n = 0 THEN BaseDelay ELSE 2 * F[n - 1]]
  <2> HIDE DEF F
  <2>1. F = [n \in Nat |-> F[n]]
    BY DEF F
  <2> QED BY <1>2, <1>3, <2>1
<1> HIDE DEF F
<1> QED BY <1>4 DEF Doubled

\* A delay doubled any number of times is a natural number.
LEMMA DoubledType == \A n \in Nat : Doubled[n] \in Nat
<1> DEFINE S == {n \in Nat : Doubled[n] \in Nat}
<1>1. 0 \in S
  BY DoubledDef, DelayFacts
<1>2. ASSUME NEW n \in S \cap Nat PROVE n + 1 \in S
  <2>1. Doubled[n + 1] = 2 * Doubled[n]
    <3>1. n + 1 \in Nat /\ n + 1 # 0 /\ (n + 1) - 1 = n
      OBVIOUS
    <3> QED BY <3>1, DoubledDef
  <2> QED BY <2>1
<1> QED BY <1>1, <1>2, NatInductive

-----------------------------------------------------------------------------
(***************************************************************************)
(* The sleep between two attempts.                                         *)
(***************************************************************************)
\* A duration is kept as it is when it fits, and whatever does not fit
\* becomes one that does.
LEMMA SignedFacts ==
  ASSUME NEW x \in Nat
  PROVE  /\ Signed(x) \in Int /\ Signed(x) < SignBit
         /\ x < SignBit => Signed(x) = x
<1> DEFINE h == SignBit
<1>1. h \in Int /\ h >= 1
  BY DelayFacts
<1>2. \A k \in Int : k >= 1 => /\ (x + k) % (2 * k) \in 0 .. 2 * k - 1
                               /\ x < k => (x + k) % (2 * k) = x + k
  OBVIOUS
<1>3. /\ (x + h) % (2 * h) \in 0 .. 2 * h - 1
      /\ x < h => (x + h) % (2 * h) = x + h
  BY <1>1, <1>2
<1> HIDE DEF h
<1>4. Signed(x) = ((x + h) % (2 * h)) - h /\ h = SignBit
  BY DEF Signed, h
<1> QED BY <1>1, <1>3, <1>4

\* defaultJitter sleeps no more than it is told, and half of it at least.
LEMMA JitterFacts ==
  ASSUME NEW d \in Int, NEW p \in Jittered(d)
  PROVE  /\ p \in Nat
         /\ d <= 0 => p = 0
         /\ d >= 0 => p >= d \div 2 /\ p <= d
<1>1. CASE d <= 0
  BY <1>1 DEF Jittered
<1>2. CASE d > 0
  <2>1. d \div 2 \in Nat /\ (d \div 2) + (d \div 2) <= d
    BY <1>2
  <2>2. p \in d \div 2 .. (d \div 2) + (d \div 2)
    BY <1>2 DEF Jittered
  <2> QED BY <1>2, <2>1, <2>2
<1> QED BY <1>1, <1>2

\* The delay after an attempt is a duration.
LEMMA DelayTyped == \A n \in Nat : Delay(n + 1) \in Int
<1> SUFFICES ASSUME NEW n \in Nat PROVE Delay(n + 1) \in Int
  OBVIOUS
<1>1. (n + 1) - 1 = n /\ Doubled[n] \in Nat
  BY DoubledType
<1>2. Shifted(n + 1) \in Int
  BY <1>1, SignedFacts DEF Shifted
<1> QED BY <1>2, DelayFacts DEF Delay

\* What a call sleeps after its attempt n + 1 has failed.
LEMMA DelayIsIdeal ==
  ASSUME NEW n \in Nat, NEW p \in Jittered(Delay(n + 1))
  PROVE  LET d == IdealDelay(n + 1) IN
         IF Doubled[n] < SignBit THEN p >= d \div 2 /\ p <= d ELSE p <= d
<1>1. (n + 1) - 1 = n /\ Doubled[n] \in Nat
  BY DoubledType
<1>2. /\ Signed(Doubled[n]) \in Int /\ Signed(Doubled[n]) < SignBit
      /\ Doubled[n] < SignBit => Signed(Doubled[n]) = Doubled[n]
  BY <1>1, SignedFacts
<1>3. /\ Delay(n + 1) = IF MaxDelay > 0 /\ Signed(Doubled[n]) > MaxDelay
                        THEN MaxDelay ELSE Signed(Doubled[n])
      /\ IdealDelay(n + 1) = IF MaxDelay > 0 /\ Doubled[n] > MaxDelay
                             THEN MaxDelay ELSE Doubled[n]
  BY <1>1 DEF Delay, Shifted, IdealDelay
<1>4. /\ Delay(n + 1) \in Int /\ IdealDelay(n + 1) \in Nat
      /\ Delay(n + 1) <= IdealDelay(n + 1)
      /\ Doubled[n] < SignBit => Delay(n + 1) = IdealDelay(n + 1)
  BY <1>1, <1>2, <1>3, DelayFacts
<1>5. /\ p \in Nat
      /\ Delay(n + 1) <= 0 => p = 0
      /\ Delay(n + 1) >= 0 => p >= Delay(n + 1) \div 2 /\ p <= Delay(n + 1)
  BY <1>4, JitterFacts
<1>6. p <= IdealDelay(n + 1)
  BY <1>4, <1>5
<1>7. Doubled[n] < SignBit => p >= IdealDelay(n + 1) \div 2
  BY <1>4, <1>5
<1> QED BY <1>6, <1>7

PauseTyped == pause \in [Callers -> Nat]

\* No sleep is shorter than nothing: a delay that overflowed is not slept.
LEMMA PauseStep == CallInv /\ PauseTyped /\ [Next]_vars => PauseTyped'
<1> SUFFICES ASSUME CallInv, PauseTyped, [Next]_vars PROVE PauseTyped'
  OBVIOUS
<1> USE DEF PauseTyped
<1>1. ASSUME NEW c \in Callers, Errs(c) PROVE PauseTyped'
  <2>1. ASSUME NEW d \in Jittered(Delay(tries'[c])), pause' = [pause EXCEPT ![c] = d]
        PROVE  PauseTyped'
    <3>1. tries[c] \in Nat /\ tries'[c] = tries[c] + 1
      BY <1>1 DEF Errs, Tried, CallInv
    <3>2. d \in Nat
      BY <2>1, <3>1, DelayTyped, JitterFacts
    <3> QED BY <2>1, <3>2
  <2> QED BY <1>1, <2>1 DEF Errs
<1>2. ASSUME NEW c \in Callers,
             \/ Attempt(c) \/ GiveUp(c) \/ WaitForToken(c) \/ EnterBreaker(c)
             \/ Refused(c) \/ Admitted(c) \/ Succeeds(c) \/ Cancel(c)
      PROVE  PauseTyped'
  BY <1>2 DEF Attempt, GiveUp, WaitForToken, EnterBreaker, Refused, Admitted, Succeeds,
     Cancel, call
<1>3. CASE Tick
  BY <1>3 DEF Tick
<1>4. CASE UNCHANGED vars
  BY <1>4 DEF vars, call
<1> QED BY <1>1, <1>2, <1>3, <1>4 DEF Next, Do

\* Between two attempts a call sleeps at least half the delay that doubles
\* with each attempt up to MaxDelay, and at most all of it, as long as the
\* doubling fits in a duration, however wide it is; beyond, the sleep is
\* shorter, or none (reliability.go:63-75, 377-383).
THEOREM ClientsBackOff == Spec => BacksOff
<1>1. CallInv /\ PauseTyped /\ [Next]_vars =>
        \A c \in Callers : at[c] = "breaker" /\ at'[c] = "backoff" =>
          LET d == IdealDelay(tries'[c]) IN
          IF Doubled[tries[c]] < SignBit
          THEN pause'[c] >= d \div 2 /\ pause'[c] <= d
          ELSE pause'[c] <= d
  <2> SUFFICES ASSUME CallInv, PauseTyped, [Next]_vars, NEW c \in Callers,
                      at[c] = "breaker", at'[c] = "backoff"
               PROVE  LET d == IdealDelay(tries'[c]) IN
                      IF Doubled[tries[c]] < SignBit
                      THEN pause'[c] >= d \div 2 /\ pause'[c] <= d
                      ELSE pause'[c] <= d
    OBVIOUS
  <2>1. Errs(c)
    BY DEF CallInv, Next, Do, Attempt, GiveUp, WaitForToken, EnterBreaker, Refused,
       Admitted, Succeeds, Errs, Cancel, Tick, Return, Goto, call, vars
  <2>2. /\ tries[c] \in Nat /\ tries'[c] = tries[c] + 1
        /\ \E d \in Jittered(Delay(tries'[c])) : pause' = [pause EXCEPT ![c] = d]
    BY <2>1 DEF Errs, Tried, Return, Goto, CallInv
  <2>3. pause'[c] \in Jittered(Delay(tries[c] + 1))
    BY <2>2 DEF PauseTyped
  <2> QED BY <2>2, <2>3, DelayIsIdeal
<1>2. Init => PauseTyped
  BY DEF Init, PauseTyped
<1> QED BY <1>1, <1>2, InitClients, CallStep, PauseStep, PTL DEF Spec, BacksOff
=============================================================================
