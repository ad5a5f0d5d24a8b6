------------------------- MODULE RateLimiterProofs -------------------------
(***************************************************************************)
(* Theorems about RateLimiter, for any number of callers, rate and bucket: *)
(* nobody oversleeps a token, and over no stretch of time do more callers  *)
(* get through than through an ideal bucket.                               *)
(***************************************************************************)
EXTENDS RateLimiter, TLAPS

(***************************************************************************)
(* refill.                                                                 *)
(***************************************************************************)
\* Products of naturals.
LEMMA Products ==
  /\ \A a, b \in Nat : a * b \in Nat
  /\ \A a, b, c \in Nat : (a + b) * c = a * c + b * c
  /\ \A a, b, c \in Nat : a <= b => a * c <= b * c
<1>1. \A a, b \in Nat : a * b \in Nat
  OBVIOUS
<1>2. \A a, b, c \in Nat : (a + b) * c = a * c + b * c
  OBVIOUS
<1>3. ASSUME NEW a \in Nat, NEW b \in Nat, NEW c \in Nat, a <= b
      PROVE  a * c <= b * c
  <2>1. b - a \in Nat /\ b = a + (b - a)
    BY <1>3
  <2>2. b * c = a * c + (b - a) * c /\ (b - a) * c \in Nat /\ a * c \in Nat
    BY <1>1, <1>2, <2>1
  <2> QED BY <2>2
<1> QED BY <1>1, <1>2, <1>3

\* refill keeps of the time that passed what makes no whole token.
LEMMA RefillFacts ==
  ASSUME since \in Nat
  PROVE  /\ Accrued \in Nat
         /\ Accrued * Rate \in Nat
         /\ Remainder \in 0 .. Rate - 1
         /\ Accrued * Rate + Remainder = since
         /\ since < Rate => Accrued = 0
  BY LimiterAssumption, Z3 DEF Accrued, Remainder

\* The full bucket, in ticks.
Full == Burst * Rate

\* The bounds of tokens and of the time since the last refill are multiples of
\* the ticks a token takes.
LEMMA BoundFacts ==
  Rate \in Nat \ {0} /\ Full \in Nat /\ Rate <= Full /\ MaxSince = Full + Rate + Rate
<1>1. Burst \in Nat /\ Burst >= 1 /\ Rate \in Nat /\ Rate >= 1
  BY LimiterAssumption
<1>2. (Burst + 2) * Rate = Burst * Rate + 2 * Rate /\ 1 * Rate <= Burst * Rate
  BY <1>1, Products
<1> QED BY <1>1, <1>2, Products DEF Full, MaxSince

\* A try leaves a token less, or none, and the remainder.
LEMMA FilledFacts ==
  ASSUME TypeOK
  PROVE  /\ since \in Nat /\ tokens \in Nat
         /\ Filled \in 0 .. Burst
         /\ Remainder \in 0 .. Rate - 1
         /\ Filled = 0 => tokens = 0 /\ Remainder = since
         /\ tokens = 0 /\ since < Rate => Filled = 0
<1>1. since \in Nat /\ tokens \in 0 .. Burst
  BY BoundFacts DEF TypeOK
<1>2. /\ Accrued \in Nat /\ Accrued * Rate \in Nat
      /\ Remainder \in 0 .. Rate - 1
      /\ Accrued * Rate + Remainder = since
      /\ since < Rate => Accrued = 0
  BY <1>1, RefillFacts
<1>3. Filled \in 0 .. Burst
  BY <1>1, <1>2, LimiterAssumption DEF Filled
<1>4. Filled = 0 => tokens = 0 /\ Accrued = 0
  BY <1>1, <1>2, LimiterAssumption DEF Filled
<1>5. Accrued = 0 => Remainder = since
  BY <1>1, LimiterAssumption DEF Remainder
<1>6. tokens = 0 /\ Accrued = 0 => Filled = 0
  BY LimiterAssumption DEF Filled
<1> QED BY <1>1, <1>2, <1>3, <1>4, <1>5, <1>6

-----------------------------------------------------------------------------
(***************************************************************************)
(* Sleepers.                                                               *)
(***************************************************************************)
\* A token is never put in the bucket before it is due, and a sleeper is due
\* when it is.
LEMMA NextLimiter == TypeOK /\ SleepersAreDue /\ [Next]_vars => TypeOK' /\ SleepersAreDue'
<1> SUFFICES ASSUME TypeOK, SleepersAreDue, [Next]_vars PROVE TypeOK' /\ SleepersAreDue'
  OBVIOUS
<1>0. /\ Rate \in Nat \ {0} /\ Full \in Nat /\ Rate <= Full
      /\ MaxSince = Full + Rate + Rate
      /\ Burst \in Nat \ {0}
  BY BoundFacts, LimiterAssumption
<1>1. /\ since \in Nat /\ tokens \in Nat
      /\ Filled \in 0 .. Burst
      /\ Remainder \in 0 .. Rate - 1
      /\ Filled = 0 => tokens = 0 /\ Remainder = since
      /\ tokens = 0 /\ since < Rate => Filled = 0
  BY FilledFacts
<1>2. CASE Tick
  <2>1. since' \in 0 .. MaxSince - 1
    BY <1>0, <1>2 DEF Tick, TypeOK
  <2>2. \A c \in Callers : left'[c] \in 0 .. Rate
    BY <1>0, <1>2 DEF Tick, TypeOK
  <2>3. TypeOK'
    BY <1>2, <2>1, <2>2 DEF Tick, TypeOK
  <2>4. ASSUME NEW c \in Callers, pc'[c] = "asleep", left'[c] > 0
        PROVE  tokens' = 0 /\ since' + left'[c] = Rate
    <3>1. left'[c] = left[c] - 1 /\ left[c] \in Nat /\ left[c] > 0 /\ pc[c] = "asleep"
      BY <1>2, <2>4 DEF Tick, TypeOK
    <3>2. tokens = 0 /\ since + left[c] = Rate
      BY <3>1 DEF SleepersAreDue
    <3>3. since' = since + 1
      BY <1>0, <1>1, <1>2, <3>1, <3>2 DEF Tick
    <3> QED BY <1>1, <1>2, <3>1, <3>2, <3>3 DEF Tick
  <2> QED BY <2>3, <2>4 DEF SleepersAreDue
<1>3. ASSUME NEW c \in Callers, Arrive(c) PROVE TypeOK' /\ SleepersAreDue'
  BY <1>3 DEF Arrive, bucket, TypeOK, SleepersAreDue
<1>4. ASSUME NEW c \in Callers, Take(c) PROVE TypeOK' /\ SleepersAreDue'
  <2>1. tokens' \in 0 .. Burst /\ since' \in 0 .. MaxSince - 1
    BY <1>0, <1>1, <1>4 DEF Take
  <2>2. TypeOK'
    BY <1>4, <2>1 DEF Take, TypeOK
  <2>3. ASSUME NEW d \in Callers, pc'[d] = "asleep", left'[d] > 0 PROVE FALSE
    <3>1. pc[d] = "asleep" /\ left[d] > 0 /\ left[d] \in Nat
      BY <1>4, <2>3 DEF Take, TypeOK
    <3>2. tokens = 0 /\ since + left[d] = Rate
      BY <3>1 DEF SleepersAreDue
    <3> QED BY <1>0, <1>1, <1>4, <3>1, <3>2 DEF Take
  <2> QED BY <2>2, <2>3 DEF SleepersAreDue
<1>5. ASSUME NEW c \in Callers, Sleep(c) PROVE TypeOK' /\ SleepersAreDue'
  <2>1. /\ tokens' = 0 /\ tokens = 0 /\ since' = since /\ since < Rate
        /\ since + UntilNext = Rate /\ UntilNext \in 0 .. Rate
    BY <1>0, <1>1, <1>5 DEF Sleep, UntilNext
  <2>2. TypeOK'
    BY <1>0, <1>5, <2>1 DEF Sleep, TypeOK
  <2>3. ASSUME NEW d \in Callers, pc'[d] = "asleep", left'[d] > 0
        PROVE  tokens' = 0 /\ since' + left'[d] = Rate
    <3>1. CASE d = c
      BY <1>5, <2>1, <3>1 DEF Sleep, TypeOK
    <3>2. CASE d # c
      BY <1>5, <2>1, <2>3, <3>2 DEF Sleep, TypeOK, SleepersAreDue
    <3> QED BY <3>1, <3>2
  <2> QED BY <2>2, <2>3 DEF SleepersAreDue
<1>6. ASSUME NEW c \in Callers, Wake(c) PROVE TypeOK' /\ SleepersAreDue'
  BY <1>6 DEF Wake, bucket, TypeOK, SleepersAreDue
<1>7. ASSUME NEW c \in Callers, Cancel(c) PROVE TypeOK' /\ SleepersAreDue'
  <2>1. 0 \in 0 .. Rate
    BY <1>0
  <2> QED BY <1>7, <2>1 DEF Cancel, bucket, TypeOK, SleepersAreDue
<1>8. CASE UNCHANGED vars
  BY <1>8 DEF vars, bucket, TypeOK, SleepersAreDue
<1> QED BY <1>2, <1>3, <1>4, <1>5, <1>6, <1>7, <1>8 DEF Next, Wait

\* Both are kept by every step of Wait, and by time (reliability.go:219-277).
LEMMA LimiterCorrect == Spec => [](TypeOK /\ SleepersAreDue)
<1>1. Init => TypeOK /\ SleepersAreDue
  BY BoundFacts, LimiterAssumption DEF Init, TypeOK, SleepersAreDue
<1> QED BY <1>1, NextLimiter, PTL DEF Spec

\* The variables keep their types.
THEOREM LimiterTyped == Spec => []TypeOK
  BY LimiterCorrect, PTL

\* No wake-up is lost or late: while a caller sleeps there is no token, and
\* its timer fires when the next one is due (reliability.go:237-252).
THEOREM SleepersWakeInTime == Spec => []SleepersAreDue
  BY LimiterCorrect, PTL

-----------------------------------------------------------------------------
(***************************************************************************)
(* The ideal bucket.                                                       *)
(***************************************************************************)
\* What the bucket holds, in ticks, as far as refill keeps it.
Level == tokens * Rate + since

Most == Burst * Rate + Rate - 1

Credit == IF Level < Most THEN Level ELSE Most

\* What the bucket owes is a number, and bounded by a full bucket and less than
\* a token.
LEMMA LevelFacts ==
  ASSUME TypeOK
  PROVE  Level \in Nat /\ Most \in Nat /\ Most = Full + Rate - 1 /\ Credit \in 0 .. Most
<1>1. tokens \in Nat /\ since \in Nat /\ tokens * Rate \in Nat
  BY BoundFacts, Products, LimiterAssumption DEF TypeOK
<1>2. Level \in Nat /\ Most \in Nat /\ Most = Full + Rate - 1
  BY <1>1, BoundFacts DEF Level, Most, Full
<1> QED BY <1>2 DEF Credit

\* A take costs the price of a token, and more when the bucket overflowed.
LEMMA TakeCosts ==
  ASSUME TypeOK, TypeOK', NEW c \in Callers, Take(c)
  PROVE  Credit >= Rate /\ Credit' \in 0 .. Credit - Rate
<1>1. /\ since \in Nat /\ tokens \in Nat
      /\ Filled \in 0 .. Burst /\ Filled >= 1
      /\ Remainder \in 0 .. Rate - 1
      /\ Accrued \in Nat /\ Accrued * Rate \in Nat
      /\ Accrued * Rate + Remainder = since
      /\ Burst \in Nat /\ Rate \in Nat /\ Rate >= 1
  BY FilledFacts, RefillFacts, LimiterAssumption DEF Take
<1>2. /\ Level \in Nat /\ Most \in Nat /\ Most = Full + Rate - 1
      /\ Level' \in Nat /\ Full \in Nat /\ Rate <= Full
  <2>1. tokens' \in 0 .. Burst /\ since' \in 0 .. MaxSince - 1
    BY DEF TypeOK, MaxSince
  <2>2. tokens' \in Nat /\ since' \in Nat /\ Rate \in Nat
    BY <2>1, BoundFacts, LimiterAssumption
  <2>3. tokens' * Rate \in Nat
    BY <2>2, Products
  <2>4. tokens' * Rate + since' \in Nat
    <3>1. \A a, b \in Nat : a + b \in Nat
      OBVIOUS
    <3> QED BY <2>2, <2>3, <3>1, Zenon
  <2>5. Level' \in Nat
    BY <2>4 DEF Level
  <2> QED BY <2>5, LevelFacts, BoundFacts
<1>3. Level' = (Filled - 1) * Rate + Remainder
  BY DEF Level, Take
<1>4. /\ Filled * Rate = (Filled - 1) * Rate + Rate
      /\ (Filled - 1) * Rate \in Nat /\ Filled * Rate \in Nat
      /\ Filled * Rate <= Full
  <2>1. Filled - 1 \in Nat /\ Filled = (Filled - 1) + 1 /\ 1 * Rate = Rate
    BY <1>1
  <2> QED BY <1>1, <2>1, Products DEF Full
<1>5. CASE tokens + Accrued <= Burst
  <2>1. Filled * Rate + Remainder = Level
    <3>1. Filled = tokens + Accrued
      BY <1>1, <1>5 DEF Filled
    <3>2. Filled * Rate = tokens * Rate + Accrued * Rate /\ tokens * Rate \in Nat
      BY <1>1, <3>1, Products
    <3> QED BY <1>1, <3>2 DEF Level
  <2>2. Level <= Most /\ Level >= Rate /\ Level' = Level - Rate
    BY <1>1, <1>2, <1>3, <1>4, <2>1
  <2>3. Credit = Level /\ Credit' = Level'
    BY <1>2, <2>2, <1>1 DEF Credit, Most
  <2> QED BY <1>1, <1>2, <2>2, <2>3
<1>6. CASE tokens + Accrued > Burst
  <2>1. Filled = Burst
    BY <1>6 DEF Filled
  <2>2. Level >= Full + Rate
    <3>1. Burst + 1 <= tokens + Accrued
      BY <1>1, <1>6
    <3>2. (Burst + 1) * Rate <= (tokens + Accrued) * Rate
      BY <1>1, <3>1, Products
    <3>3. /\ (Burst + 1) * Rate = Full + Rate
          /\ (tokens + Accrued) * Rate = tokens * Rate + Accrued * Rate
          /\ tokens * Rate \in Nat
      BY <1>1, Products DEF Full
    <3> QED BY <1>1, <1>2, <3>2, <3>3 DEF Level
  <2>3. Level' <= Most - Rate
    BY <1>1, <1>2, <1>3, <1>4, <2>1 DEF Full
  <2>4. Credit = Most /\ Credit' = Level'
    BY <1>1, <1>2, <2>2, <2>3 DEF Credit, Most
  <2> QED BY <1>1, <1>2, <2>3, <2>4
<1> QED BY <1>1, <1>5, <1>6

\* A tick is worth what it is worth, up to the full bucket, wherever since
\* is wrapped.
LEMMA TickPays ==
  ASSUME TypeOK, TypeOK', Tick
  PROVE  Credit' = IF Credit < Most THEN Credit + 1 ELSE Credit
<1>1. /\ Level \in Nat /\ Level' \in Nat /\ Most \in Nat /\ Most = Full + Rate - 1
      /\ Full \in Nat /\ Rate \in Nat /\ Rate >= 1 /\ MaxSince = Full + Rate + Rate
      /\ Most' = Most
  <2>1. tokens' \in 0 .. Burst /\ since' \in 0 .. MaxSince - 1
    BY DEF TypeOK, MaxSince
  <2>2. tokens' \in Nat /\ since' \in Nat /\ Rate \in Nat
    BY <2>1, BoundFacts, LimiterAssumption
  <2>3. tokens' * Rate \in Nat
    BY <2>2, Products
  <2>4. tokens' * Rate + since' \in Nat
    <3>1. \A a, b \in Nat : a + b \in Nat
      OBVIOUS
    <3> QED BY <2>2, <2>3, <3>1, Zenon
  <2>5. Level' \in Nat
    BY <2>4 DEF Level
  <2> QED BY <2>5, LevelFacts, BoundFacts DEF Most
<1>2. tokens' = tokens /\ tokens * Rate \in Nat /\ since \in Nat
  BY BoundFacts, Products, LimiterAssumption DEF TypeOK, Tick
<1>3. CASE since + 1 = MaxSince
  <2>1. Level >= Most /\ Level' >= Most
    BY <1>1, <1>2, <1>3 DEF Level, Tick
  <2> QED BY <1>1, <2>1 DEF Credit
<1>4. CASE since + 1 # MaxSince
  <2>1. Level' = Level + 1
    BY <1>2, <1>4 DEF Level, Tick
  <2> QED BY <1>1, <2>1 DEF Credit
<1> QED BY <1>3, <1>4

\* Looking into the bucket and going to sleep takes nothing.
LEMMA OthersKeepCredit ==
  ASSUME TypeOK, NEW c \in Callers,
         Arrive(c) \/ Sleep(c) \/ Wake(c) \/ Cancel(c)
  PROVE  Credit' = Credit
<1>1. tokens' = tokens /\ since' = since
  BY FilledFacts DEF Arrive, Sleep, Wake, Cancel, bucket
<1> QED BY <1>1 DEF Credit, Level, Most

\* Over no stretch of time does Wait let more callers through than the ideal
\* bucket, idle periods and lazy refills included (reliability.go:258-277).
THEOREM LimiterNeverExceedsBucket == Spec => NeverExceedsBucket
<1>1. Init => Ideal!Init
  <2> SUFFICES ASSUME Init PROVE Credit \in 0 .. Most
    BY DEF Ideal!Init, Credit, Level, Most
  <2>1. TypeOK
    BY BoundFacts, LimiterAssumption DEF Init, TypeOK
  <2> QED BY <2>1, LevelFacts
<1>2. TypeOK /\ TypeOK' /\ [Next]_vars => [Ideal!Next]_Credit
  <2> SUFFICES ASSUME TypeOK, TypeOK', [Next]_vars PROVE Ideal!Next \/ Credit' = Credit
    OBVIOUS
  <2>1. ASSUME Tick PROVE Ideal!Tick
    BY <2>1, TickPays DEF Ideal!Tick, Credit, Level, Most
  <2>2. ASSUME NEW c \in Callers, Take(c) PROVE Ideal!Grant
    BY <2>2, TakeCosts DEF Ideal!Grant, Credit, Level, Most
  <2>3. UNCHANGED vars => Credit' = Credit
    BY DEF vars, bucket, Credit, Level, Most
  <2> QED BY <2>1, <2>2, <2>3, OthersKeepCredit DEF Next, Wait, Ideal!Next
<1>3. Spec => [][Ideal!Next]_Credit
  BY <1>2, LimiterTyped, PTL DEF Spec
<1> QED BY <1>1, <1>3, PTL DEF Spec, NeverExceedsBucket, Ideal!Spec, Credit, Level, Most

-----------------------------------------------------------------------------
(***************************************************************************)
(* Any stretch of time.                                                    *)
(***************************************************************************)
\* A step of the limiter, with the ticks and the tokens of the stretch counted.
Counted(ticks, grants, ticksNext, grantsNext) ==
  \/ Tick /\ ticksNext = ticks + 1 /\ grantsNext = grants
  \/ (\E c \in Callers : Take(c)) /\ ticksNext = ticks /\ grantsNext = grants + 1
  \/ /\ \E c \in Callers : Arrive(c) \/ Sleep(c) \/ Wake(c) \/ Cancel(c)
     /\ ticksNext = ticks /\ grantsNext = grants

\* What was granted, and what may still be, was there at first or came with
\* the ticks.
Balanced(ticks, grants) ==
  ticks \in Nat /\ grants \in Nat /\ grants * Rate + Credit <= Most + ticks

\* Every step keeps the balance.
LEMMA CountedStep ==
  ASSUME TypeOK, TypeOK', NEW t, NEW g, NEW u, NEW h, Balanced(t, g),
         Counted(t, g, u, h)
  PROVE  u \in Nat /\ h \in Nat /\ h * Rate + Credit' <= Most + u
<1> DEFINE paid == g * Rate
<1>1. /\ t \in Nat /\ g \in Nat /\ paid + Credit <= Most + t
      /\ Credit \in Nat /\ Most \in Nat /\ Rate \in Nat
  BY LevelFacts, LimiterAssumption DEF Balanced
<1>2. paid \in Nat
  BY <1>1, Products
<1>3. CASE Tick /\ u = t + 1 /\ h = g
  <2>1. Credit' \in Nat /\ Credit' <= Credit + 1
    BY <1>1, <1>3, TickPays
  <2>2. h * Rate = paid
    BY <1>3
  <2> HIDE DEF paid
  <2>3. paid + Credit' <= Most + (t + 1)
    <3>1. \A x, a, p, q, m \in Nat : p + a <= m + x /\ q <= a + 1 => p + q <= m + (x + 1)
      OBVIOUS
    <3> QED BY <1>1, <1>2, <2>1, <3>1, Zenon
  <2> QED BY <1>1, <1>3, <2>2, <2>3
<1>4. ASSUME NEW c \in Callers, Take(c), u = t, h = g + 1
      PROVE  u \in Nat /\ h \in Nat /\ h * Rate + Credit' <= Most + u
  <2>1. Credit >= Rate /\ Credit' \in 0 .. Credit - Rate
    BY <1>4, TakeCosts
  <2>2. h * Rate = paid + Rate
    <3>1. 1 \in Nat /\ 1 * Rate = Rate
      BY <1>1
    <3> QED BY <1>1, <1>4, <3>1, Products
  <2> HIDE DEF paid
  <2>3. paid + Rate + Credit' <= Most + t
    <3>1. \A x, a, p, q, m, r \in Nat :
            p + a <= m + x /\ a >= r /\ q \in 0 .. a - r => p + r + q <= m + x
      OBVIOUS
    <3>2. \A a, r \in Nat : \A q \in 0 .. a - r : q \in Nat
      OBVIOUS
    <3> QED BY <1>1, <1>2, <2>1, <3>1, <3>2, Zenon
  <2> QED BY <1>1, <1>4, <2>2, <2>3
<1>5. ASSUME NEW c \in Callers, Arrive(c) \/ Sleep(c) \/ Wake(c) \/ Cancel(c),
             u = t, h = g
      PROVE  u \in Nat /\ h \in Nat /\ h * Rate + Credit' <= Most + u
  <2>1. Credit' = Credit
    BY <1>5, OthersKeepCredit
  <2> QED BY <1>1, <1>2, <1>5, <2>1
<1> QED BY <1>3, <1>4, <1>5 DEF Counted

\* From any moment of the limiter's life on, however long it idled before and
\* however many callers wait, no more tokens are granted than a full bucket
\* holds and the ticks since then make, and less than one more: bursts do not
\* add up (reliability.go:258-277).
THEOREM AnyStretchIsBounded ==
  ASSUME NEW VARIABLE ticks, NEW VARIABLE grants
  PROVE  /\ TypeOK /\ SleepersAreDue /\ ticks = 0 /\ grants = 0
         /\ [][Counted(ticks, grants, ticks', grants')]_<<vars, ticks, grants>>
         => [](grants * Rate <= Burst * Rate + Rate - 1 + ticks)
<1> DEFINE Inv == TypeOK /\ SleepersAreDue /\ Balanced(ticks, grants)
<1>1. TypeOK /\ SleepersAreDue /\ ticks = 0 /\ grants = 0 => Inv
  <2> SUFFICES ASSUME TypeOK, ticks = 0, grants = 0 PROVE Balanced(ticks, grants)
    OBVIOUS
  <2>1. 0 * Rate = 0 /\ Credit \in 0 .. Most /\ Most \in Nat
    BY LevelFacts, LimiterAssumption
  <2> QED BY <2>1 DEF Balanced
<1>2. Inv /\ [Counted(ticks, grants, ticks', grants')]_<<vars, ticks, grants>> => Inv'
  <2> SUFFICES ASSUME Inv, [Counted(ticks, grants, ticks', grants')]_<<vars, ticks, grants>>
               PROVE  Inv'
    OBVIOUS
  <2>1. [Next]_vars
    BY DEF Counted, Next, Wait
  <2>2. TypeOK' /\ SleepersAreDue'
    BY <2>1, NextLimiter
  <2>3. CASE Counted(ticks, grants, ticks', grants')
    <3>1. /\ ticks' \in Nat /\ grants' \in Nat
          /\ grants' * Rate + Credit' <= Most + ticks'
      BY <2>2, <2>3, CountedStep
    <3> QED BY <2>2, <3>1 DEF Balanced, Most
  <2>4. CASE UNCHANGED <<vars, ticks, grants>>
    BY <2>2, <2>4 DEF vars, bucket, Balanced, Credit, Level, Most
  <2> QED BY <2>3, <2>4
<1>3. Inv => grants * Rate <= Burst * Rate + Rate - 1 + ticks
  <2> SUFFICES ASSUME Inv PROVE grants * Rate <= Burst * Rate + Rate - 1 + ticks
    OBVIOUS
  <2>1. grants * Rate \in Nat /\ Credit \in 0 .. Most /\ Most \in Nat
    BY LevelFacts, Products, LimiterAssumption DEF Balanced
  <2> QED BY <2>1 DEF Balanced, Most
<1> QED BY <1>1, <1>2, <1>3, PTL
=============================================================================
