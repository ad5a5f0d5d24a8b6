---------------------------- MODULE RateLimiter ----------------------------
(***************************************************************************)
(* RateLimiter of internal/orders/reliability.go: a token bucket refilled  *)
(* lazily under a mutex, waited for by sleeping.  The same type limits the *)
(* gRPC ingress and the two outgoing clients.                              *)
(*                                                                         *)
(* One pass of Wait's loop is one step, for it holds the mutex throughout; *)
(* a sleeper may oversleep.  Time counts in ticks: now - last is since.    *)
(***************************************************************************)
EXTENDS Integers

CONSTANTS
  Callers,  \* goroutines that call Wait
  Rate,     \* ticks per token
  Burst     \* the bucket's size

\* With a rate or a burst of zero Wait limits nothing (reliability.go:221).
ASSUME LimiterAssumption == Rate \in Nat \ {0} /\ Burst \in Nat \ {0}

VARIABLES
  tokens,  \* tokens
  since,   \* now - last
  pc,      \* pc[c]: not waiting, about to try, or asleep
  left     \* left[c]: what remains of c's sleep

bucket == <<tokens, since>>
vars   == <<bucket, pc, left>>

-----------------------------------------------------------------------------
(***************************************************************************)
(* refill: the tokens that have accrued, as far as they fit; last advances *)
(* by the time of all that accrued, so the remainder is kept.              *)
(***************************************************************************)
Accrued == since \div Rate

\* Mutant: the bucket's size is forgotten.
FilledUncapped == tokens + Accrued

Filled == IF tokens + Accrued > Burst THEN Burst ELSE tokens + Accrued

\* Mutants: last = now, and last left as it was.
RemainderDropped == 0
RemainderKeptAll == since

Remainder == since - Accrued * Rate

\* A caller enters Wait.
Arrive(c) ==
  /\ pc[c] = "idle"
  /\ pc' = [pc EXCEPT ![c] = "try"]
  /\ UNCHANGED <<bucket, left>>

\* A token is there: Wait returns nil.
Take(c) ==
  /\ pc[c] = "try"
  /\ Filled > 0
  /\ tokens' = Filled - 1
  /\ since' = Remainder
  /\ pc' = [pc EXCEPT ![c] = "idle"]
  /\ UNCHANGED left

\* Mutant: a sleep of a whole interval.
UntilNextFull == Rate

UntilNext == Rate - Remainder

\* None is there: sleep until the next one is due.
Sleep(c) ==
  /\ pc[c] = "try"
  /\ Filled = 0
  /\ tokens' = Filled
  /\ since' = Remainder
  /\ left' = [left EXCEPT ![c] = UntilNext]
  /\ pc' = [pc EXCEPT ![c] = "asleep"]

Wake(c) ==
  /\ pc[c] = "asleep" /\ left[c] = 0
  /\ pc' = [pc EXCEPT ![c] = "try"]
  /\ UNCHANGED <<bucket, left>>

\* The context ends: seen before a try, or while asleep.
Cancel(c) ==
  /\ pc[c] # "idle"
  /\ pc' = [pc EXCEPT ![c] = "idle"]
  /\ left' = [left EXCEPT ![c] = 0]
  /\ UNCHANGED bucket

\* Enough ticks to fill the bucket and more; a whole interval on top of
\* them changes nothing refill computes, so since is wrapped there.
MaxSince == (Burst + 2) * Rate

Tick ==
  /\ since' = IF since + 1 = MaxSince THEN MaxSince - Rate ELSE since + 1
  /\ left' = [c \in Callers |-> IF left[c] = 0 THEN 0 ELSE left[c] - 1]
  /\ UNCHANGED <<tokens, pc>>

Init ==
  /\ tokens = Burst /\ since = 0
  /\ pc = [c \in Callers |-> "idle"]
  /\ left = [c \in Callers |-> 0]

Wait(c) == Take(c) \/ Sleep(c) \/ Wake(c)

Next == Tick \/ \E c \in Callers : Arrive(c) \/ Wait(c) \/ Cancel(c)

Spec == Init /\ [][Next]_vars

\* Time passes, timers fire and a goroutine that may run does.
FairSpec == Spec /\ WF_vars(Tick) /\ \A c \in Callers : WF_vars(Wait(c))

-----------------------------------------------------------------------------
TypeOK ==
  /\ tokens \in 0 .. Burst
  /\ since \in 0 .. MaxSince - 1
  /\ pc \in [Callers -> {"idle", "try", "asleep"}]
  /\ left \in [Callers -> 0 .. Rate]

\* Nobody sleeps beside a token, and every sleeper's timer is set for the
\* very tick the next token is due: no wake-up is lost or late
\* (reliability.go:237-252).
SleepersAreDue ==
  \A c \in Callers : pc[c] = "asleep" /\ left[c] > 0 =>
    tokens = 0 /\ since + left[c] = Rate

\* Capacity: a full bucket, and the part of an interval refill kept beyond.
Ideal == INSTANCE TokenBucket WITH
  Cost <- Rate,
  Capacity <- Burst * Rate + Rate - 1,
  credit <- IF tokens * Rate + since < Burst * Rate + Rate - 1
            THEN tokens * Rate + since ELSE Burst * Rate + Rate - 1

\* Over no stretch of time does Wait let more callers through than the
\* ideal bucket, idle periods and lazy refills included
\* (reliability.go:258-277).
NeverExceedsBucket == Ideal!Spec

\* Callers that wait get through, one after another, unless they leave.
SomeoneGetsThrough ==
  \/ []<>(\A c \in Callers : pc[c] = "idle")
  \/ []<><<\E c \in Callers : Take(c) \/ Cancel(c)>>_vars
=============================================================================
