-------------------------- MODULE ReliableClients --------------------------
(***************************************************************************)
(* ReliablePaymentClient and ReliableDriverClient of internal/orders       *)
(* /reliability.go: calls that share one limiter and one breaker, each     *)
(* retried by a RetryPolicy around both.  An attempt waits for a token,    *)
(* asks the breaker, issues its statement and reports to the breaker.      *)
(*                                                                         *)
(* RateLimiter and CircuitBreaker are taken as they are, on one clock.     *)
(* Delays are int64 in the code; here they have Width bits, and count the  *)
(* ticks of that clock.                                                    *)
(***************************************************************************)
EXTENDS Integers, FiniteSets

CONSTANTS
  Callers,      \* calls of Charge and Refund, or of Assign
  MaxAttempts,  \* RetryPolicy.MaxAttempts
  BaseDelay,    \* RetryPolicy.BaseDelay
  MaxDelay,     \* RetryPolicy.MaxDelay
  Width,        \* the bits of a time.Duration
  Rate, Burst,                            \* of the limiter
  MaxFailures, ResetTimeout, DefaultReset, MaxLag,  \* of the breaker
  NoCall

\* parseRequiredInt and parseRequiredDuration refuse negative values; with a
\* rate or a burst of zero Wait limits nothing (reliability.go:221).
ASSUME ClientsAssumption ==
  /\ MaxAttempts \in Nat
  /\ Width \in Nat \ {0}
  /\ BaseDelay \in 0 .. 2^(Width - 1) - 1 /\ MaxDelay \in 0 .. 2^(Width - 1) - 1
  /\ Rate \in Nat \ {0} /\ Burst \in Nat \ {0}
  /\ MaxFailures \in Int /\ ResetTimeout \in Int
  /\ DefaultReset \in Nat \ {0} /\ MaxLag \in Nat
  /\ IsFiniteSet(Callers) /\ NoCall \notin Callers

VARIABLES
  tokens, since, waiting, left,           \* RateLimiter, waiting is its pc
  state, failures, age, flight, executing, lag, probe, opened,
                                          \* CircuitBreaker, executing is its pc
  at,       \* at[c]: where c's call is
  tries,    \* tries[c]: attempts that the breaker admitted and saw ended
  pause,    \* pause[c]: what remains of the sleep between two attempts
  ctxDone,  \* callers whose context has ended
  outcome,  \* outcome[c]: what the call returned
  erred     \* history: how many attempts of all calls have failed

limiter == <<tokens, since, waiting, left>>
breaker == <<state, failures, age, flight, executing, lag, probe, opened>>
call    == <<at, tries, pause, outcome, erred>>
vars    == <<limiter, breaker, call, ctxDone>>

Limiter == INSTANCE RateLimiter WITH pc <- waiting
Breaker == INSTANCE CircuitBreaker WITH pc <- executing

-----------------------------------------------------------------------------
(***************************************************************************)
(* The delay after failed attempt n.                                       *)
(***************************************************************************)
Attempts == IF MaxAttempts < 1 THEN 1 ELSE MaxAttempts

\* BaseDelay shifted to the left n times, with room for every bit.
Doubled[n \in Nat] == IF n = 0 THEN BaseDelay ELSE 2 * Doubled[n - 1]

\* Two's complement.
SignBit   == 2^(Width - 1)
Signed(x) == ((x + SignBit) % (2 * SignBit)) - SignBit

\* Mutant: shifted once too often.
ShiftedByAttempt(n) == Signed(Doubled[n])

Shifted(n) == Signed(Doubled[n - 1])

Delay(n) == IF MaxDelay > 0 /\ Shifted(n) > MaxDelay THEN MaxDelay ELSE Shifted(n)

\* defaultJitter; a delay that is not positive is not slept.
Jittered(d) == IF d <= 0 THEN {0} ELSE LET half == d \div 2 IN half .. half + half

-----------------------------------------------------------------------------
Goto(c, l) == at' = [at EXCEPT ![c] = l]

Return(c, r) ==
  /\ Goto(c, "done")
  /\ outcome' = [outcome EXCEPT ![c] = r]

\* The loop of Do looks at the context and starts an attempt with the
\* limiter, at first or when the sleep is over.
Attempt(c) ==
  /\ at[c] \in {"start", "backoff"} /\ pause[c] = 0
  /\ c \notin ctxDone
  /\ Limiter!Arrive(c)
  /\ Goto(c, "limiter")
  /\ UNCHANGED <<tries, erred, pause, outcome, breaker, ctxDone>>

\* The context ended before an attempt, in the sleep, or in the limiter.
GiveUp(c) ==
  /\ c \in ctxDone
  /\ \/ at[c] \in {"start", "backoff"} /\ UNCHANGED limiter
     \/ at[c] = "limiter" /\ Limiter!Cancel(c)
  /\ Return(c, "context")
  /\ pause' = [pause EXCEPT ![c] = 0]
  /\ UNCHANGED <<tries, erred, breaker, ctxDone>>

WaitForToken(c) ==
  /\ at[c] = "limiter"
  /\ \/ Limiter!Sleep(c) /\ UNCHANGED at
     \/ c \notin ctxDone /\ Limiter!Wake(c) /\ UNCHANGED at
     \/ Limiter!Take(c) /\ Goto(c, "token")
  /\ UNCHANGED <<tries, erred, pause, outcome, breaker, ctxDone>>

EnterBreaker(c) ==
  /\ at[c] = "token"
  /\ Breaker!Begin(c)
  /\ Goto(c, "breaker")
  /\ UNCHANGED <<tries, erred, pause, outcome, limiter, ctxDone>>

\* ErrCircuitOpen is not retried.
Refused(c) ==
  /\ Breaker!Refuse(c)
  /\ Return(c, "circuitOpen")
  /\ UNCHANGED <<tries, erred, pause, limiter, ctxDone>>

Admitted(c) ==
  /\ Breaker!AdmitClosed(c) \/ Breaker!AdmitTrial(c)
  /\ UNCHANGED <<call, limiter, ctxDone>>

Tried(c) == tries' = [tries EXCEPT ![c] = @ + 1]

Succeeds(c) ==
  /\ Breaker!Succeed(c)
  /\ Tried(c) /\ Return(c, "nil")
  /\ UNCHANGED <<erred, pause, limiter, ctxDone>>

\* Mutant: one attempt more than allowed.
IsLastOffByOne(n) == n > Attempts

IsLast(n) == n = Attempts

\* Any error is a failure to the breaker: the database's, that of an ended
\* context, or a refusal like ErrAlreadyCharged.  Do retries it unless it
\* is the context's.
Errs(c) ==
  /\ Breaker!FailHalfOpen(c) \/ Breaker!Fail(c)
  /\ Tried(c) /\ erred' = erred + 1
  /\ \/ c \in ctxDone /\ Return(c, "context") /\ UNCHANGED pause
     \/ IsLast(tries'[c]) /\ Return(c, "error") /\ UNCHANGED pause
     \/ /\ ~IsLast(tries'[c])
        /\ \E d \in Jittered(Delay(tries'[c])) : pause' = [pause EXCEPT ![c] = d]
        /\ Goto(c, "backoff") /\ UNCHANGED outcome
  /\ UNCHANGED <<limiter, ctxDone>>

Do(c) ==
  \/ Attempt(c) \/ GiveUp(c) \/ WaitForToken(c) \/ EnterBreaker(c)
  \/ Refused(c) \/ Admitted(c) \/ Succeeds(c) \/ Errs(c)

\* The caller goes away or its deadline passes.
Cancel(c) ==
  /\ at[c] # "done" /\ c \notin ctxDone
  /\ ctxDone' = ctxDone \cup {c}
  /\ UNCHANGED <<limiter, breaker, call>>

Tick ==
  /\ Limiter!Tick /\ Breaker!Tick
  /\ pause' = [c \in Callers |-> IF pause[c] = 0 THEN 0 ELSE pause[c] - 1]
  /\ UNCHANGED <<at, tries, erred, outcome, ctxDone>>

Init ==
  /\ Limiter!Init /\ Breaker!Init
  /\ at = [c \in Callers |-> "start"]
  /\ tries = [c \in Callers |-> 0]
  /\ pause = [c \in Callers |-> 0]
  /\ ctxDone = {}
  /\ outcome = [c \in Callers |-> "none"]
  /\ erred = 0

Next == Tick \/ \E c \in Callers : Do(c) \/ Cancel(c)

Spec == Init /\ [][Next]_vars

\* Time passes, timers fire, statements return, and goroutines run.
FairSpec == Spec /\ WF_vars(Tick) /\ \A c \in Callers : WF_vars(Do(c))

-----------------------------------------------------------------------------
Contract == INSTANCE ReliableCall

\* Limiter, breaker and retries together keep what OrderService relies on:
\* no statement after a success, a refusal or the last attempt, and the
\* right answer (reliability.go:25-78, 309-322, 348-361).
KeepsCall == Contract!Spec

\* The delay a doubling without a limit on the width would give.
IdealDelay(n) ==
  IF MaxDelay > 0 /\ Doubled[n - 1] > MaxDelay THEN MaxDelay ELSE Doubled[n - 1]

\* Between two attempts a call sleeps at least half the delay that doubles
\* with each attempt up to MaxDelay, and at most all of it, as long as the
\* doubling fits in a duration (reliability.go:63-75, 377-383).
BacksOff ==
  [][\A c \in Callers : at[c] = "breaker" /\ at'[c] = "backoff" =>
       LET d == IdealDelay(tries'[c]) IN
       IF Doubled[tries[c]] < SignBit
       THEN pause'[c] >= d \div 2 /\ pause'[c] <= d
       ELSE pause'[c] <= d]_vars

\* The breaker refuses a call only after as many attempts in all have failed
\* as it takes to open it: whatever counts as a failure, nothing else does
\* (reliability.go:157-183).
RefusalIsEarned ==
  (\E c \in Callers : outcome[c] = "circuitOpen") => erred >= Breaker!MaxFails

\* Every call of a client comes to an end, though others overtake it at the
\* limiter and the breaker opens and closes meanwhile.
EveryCallEnds == \A c \in Callers : <>(at[c] = "done")
=============================================================================
