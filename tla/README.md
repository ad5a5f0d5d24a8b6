# Orders-Go in TLA+

A verification development for the Orders-Go service: an order API that charges a
payment, assigns a driver and compensates, and a location API that stores streams of
driver positions. The modules are written from the Go source; TLC checks them on small
instances and TLAPS proves their safety properties for every instance.
Paths below are relative to the repository root.

## The system

| Component | State | Operations | Talks to |
|---|---|---|---|
| Order saga, `internal/orders/order.go` | none of its own | `CreateOrder` | saga store, payment and driver client |
| Saga store, `internal/db/orders/saga_store.go` | tables `order_sagas`, `order_saga_steps` | `Start`, `AddStep`, `UpdateStatus` | Postgres |
| Payment and driver stores, `postgres_payment.go`, `driver_store.go` | tables `payments`, `order_assignments` | `Charge`, `Refund`, `Assign` | Postgres |
| Retry policy, `internal/orders/reliability.go` | attempt counter | `Do` | whatever it wraps |
| Circuit breaker, same file | state, failures, openedAt, half-open flag | `Execute` | one for payments (charge and refund), one for drivers |
| Rate limiter, same file | tokens, last | `Wait` | one per client, one for gRPC ingress |
| gRPC adapters, `internal/adapters/grpc` | none | `CreateOrder`, `UpdateLocation` | saga, ingest |
| Location ingest, `internal/ingest`, `internal/db/ingest` | table `driver_locations`, Redis hashes, Redis stream | `Ingest`, `Update` | Postgres, Redis |
| Metrics, `internal/observability` | counters, shutdown record | `Start`, `End`, `Snapshot`, `MarkShutdown` | interceptors, `run` |
| Server process, `cmd/server` | what is open, gRPC server, health | `run`, interceptors | all of them |
| Configuration, `cmd/server/config`, `reliability_config.go` | none | loaders | environment, read by the steps of `run` |

What makes it hard:

* Handlers run concurrently and share tables, breakers, limiters and counters.
* A client call goes through limiter, breaker and retries in turn, and each of them is
  changed meanwhile by the others' calls; charges and refunds share one of each.
* No transaction spans two statements. A saga may stop between any two of them: its
  caller leaves, its deadline passes, the process dies. Nothing resumes it.
* An error of `database/sql` does not say whether the statement ran; the retry policy
  tries it again. A statement whose caller gave up may still run.
* Results of guarded calls reach a breaker that has changed state meanwhile.
* Postgres and Redis are written one after the other, and a Redis batch is no transaction.
* Start-up reads the environment piece by piece, the last of it after stores and listener
  are open, and a signal may come in its middle.
* Shutdown runs against handlers that start, work and end.

Correctness, per component: a key is charged at most once, "ok" is never a lie, and who is
told that the request is at fault has lost nothing (saga);
a client call issues no statement after a success or its last attempt, backs off between
attempts, and ends (reliable clients);
a breaker cannot get stuck in the half-open state and counts up to its limit (breaker); over no period
more calls pass than the bucket allows, and nobody oversleeps a token (limiter); an
acknowledged stream is in both stores and no location follows one that was not stored
(ingest); counters agree with the handlers, and stores are closed after the last handler
and on every failing path (process). `PROJECT.json` lists the hazards line by line with
the properties that watch them.

## Modules

| Module | Models | Notes |
|---|---|---|
| `OrderService` | `CreateOrder` with the four tables and the retrying clients; the gRPC statuses of its replies | core |
| `OrderPromise` | abstract: what is promised about an idempotency key | |
| `OrderRefinement` | `OrderService` implements `OrderPromise` | composes the two |
| `CircuitBreaker` | `CircuitBreaker.Execute` | |
| `TokenBucket` | abstract: an ideal token bucket | |
| `RateLimiter` | `RateLimiter.Wait`, `refill`; implements `TokenBucket` | |
| `ReliableCall` | abstract: what a caller of a reliable client may rely on | what `OrderService` takes for granted |
| `ReliableClients` | `RetryPolicy.Do`, its delays, the two reliable clients; implements `ReliableCall` | composes `RateLimiter` and `CircuitBreaker` |
| `LocationIngest` | `UpdateLocation`, validation, both location stores | |
| `Metrics` | counters of `metrics.go` | used by `ServerLifecycle` |
| `Config` | parsers and loaders of environment variables | used by `ServerLifecycle` |
| `ServerLifecycle` | `run`, builders, interceptors, graceful stop | composes `Metrics` and `Config` with the process |
| `MC*` | instances for TLC | symmetry, fault tables, environments |
| `OrderServiceProofs` | theorems: types, keys, one charge per key | |
| `OrderOutcomeProofs` | theorems: replies, statuses, audit rows, settled sagas | on `OrderServiceProofs` |
| `OrderPromiseProofs` | theorems: refusals, the refinement of `OrderPromise`, compensation, money kept | on `OrderOutcomeProofs`, `OrderRefinement` |
| `CircuitBreakerProofs` | theorems: breaker, how early a trial may come | |
| `RateLimiterProofs` | theorems: limiter, the refinement of `TokenBucket`, any stretch of time | |
| `ReliableClientsProofs` | theorems: the refinement of `ReliableCall`, use of limiter and breaker, refusals, delays | on `RateLimiterProofs`, `CircuitBreakerProofs` |
| `LocationIngestProofs` | theorems: streams, stores, Redis hashes | |
| `ServerLifecycleProofs` | theorems: counters, stores, stop, configuration | |

Definitions whose comment begins with "Mutant" are not part of a model: each is the form
a definition would take with a plausible bug, and the property named for it in
`PROJECT.json` must then fail.

### OrderService and the code

A call `c` is one execution of `CreateOrder`; its order id and driver id are fresh UUIDs,
so `c` names them too. `pc[c]` is the SQL statement the call issues next, with the names
of the audit rows for the calls of `AddStep`: `insert`, `select`, `chargeStarted`,
`charge`, `chargeSucceeded`, `assignStarted`, `assign`, ..., `markSucceeded`. The tables
`StepRow`, `FinalStatus`, `AfterLog`, `OnSuccess` and `OnError` are the script of
order.go:85-110. Between the SELECT of `Start` and what `CreateOrder` makes of the row lies a
step boundary: `StartSelect` keeps what it read in `record[c]`, and `Answer` (order.go:71-83) compares the payload,
goes on or replies from it, whatever the row says by then. `Accepts` says when a base client returns nil; `AttemptErrs` and `GiveUp`
are the loop of `RetryPolicy.Do` around it.

`Faults[l]` says what may happen to statement `l`: `fail` (an error, nothing ran),
`lostAck` (an error, it did run), `late` (an error, it runs later or never) and `reject`
(an open circuit). A call whose context is done runs nothing more, for `database/sql`
checks the context first; an error it then gets is not retried.

`StatusCodes` is `mapOrderError`: each kind of reply with the gRPC statuses it may have. Only
`InvalidArgument` and `FailedPrecondition` blame the request. The adapter's branch for errors that
contain "payment failed" is dead for this service: `CreateOrder` returns client errors as
they are, and none has that text, so a declined charge is `Internal`.

### CircuitBreaker and the code

`Execute` reads the clock without the lock (`Begin`), takes the lock to admit or refuse
(`Refuse`, `AdmitClosed`, `AdmitTrial`), runs the call without it, and takes it again for
the result (`Succeed`, `FailHalfOpen`, `Fail`). Times are kept as ages, so that the state
space is finite: `lag[c]` is the age of the reading that call `c` uses twice. `probe` and
`opened` are history variables of the properties.

### RateLimiter and the code

One pass of `Wait`'s loop is a step, for it holds the mutex. `since` is `now - last`, and
wraps by whole intervals where that changes nothing that `refill` computes.

### ReliableClients and the code

A call `c` is one `Charge`, `Refund` or `Assign`. `at[c]` is where `RetryPolicy.Do` and the
closure of `ReliablePaymentClient.do` (or of `Assign`) have got to: before an attempt, in
`RateLimiter.Wait`, with a token, in `CircuitBreaker.Execute`, in the sleep, done. The steps
inside limiter and breaker are those of their modules, instantiated with `pc <- waiting` and
`pc <- executing`; `Tick` moves the clocks of both, and the sleeps. `Delay` shifts the base delay
as an integer of `Width` bits in two's complement, as Go shifts an int64: `Doubled` is the shift with room
for every bit, `Signed` what is left of it in `Width` bits. `Jittered` is `defaultJitter`. Any error is a failure to the breaker, that of a caller that left included.

`KeepsCall` maps `tries` and `outcome` to `ReliableCall`: at most `MaxAttempts` statements, none
after one that worked, and an outcome that says which of the four ways of ending it was.
`OrderService` is written against that contract: `AttemptErrs`, `GiveUp` and the fault
`reject` are its `Issue` and `GiveUp`. `erred` is a history variable of `RefusalIsEarned`.

### LocationIngest and the code

`sent[l]` is the `l`-th location any stream received. `StoreHistory` is the row in
Postgres, whose error `MultiLocationStore` keeps in `errs` while it goes on; `StartBatch`,
`RunCommand`, `RefuseCommand`, `BatchDone`, `BatchRefused` and `BatchErrs` are the Redis pipeline, with go-redis sending it
again up to `MaxRetries` times. `Finish` joins the errors, and is where the fanout publisher encodes the
location. Redis may also refuse a command and run the next ones (`RefuseCommand`): `refused` remembers it until
`BatchRefused`, where `Exec` returns the error or go-redis tries the batch again. `events` is the set of locations
with an event in the Redis stream; a batch that is sent again may add a second one, and no property looks
at their number or order. `Recv` may end with an error of its own. A context ends with its handler, so `gone` grows when
a stream returns and when the process dies. `lateRows` and `lateCmds` hold what was given up on and may still run; nobody hears of what Redis refuses of it. `refusedTTL`, the drivers whose late EXPIRE was refused,
is a history variable of `StaleHashesExpire`.

### ServerLifecycle and the code

`phase` is the step `run` takes next, `open` what it has opened; `Undo` and `AfterFailure`
are its error paths and those of the two builders. `env` is the environment, classified by how
a value parses (`Config`): `Loads` says what each step wants of it, and a step that finds it
wanting fails. Steps in `UsesContext` fail after a signal; the others go on, so that a process
signalled during its start-up may still open its listener before it stops. Once all is read, `env` is
forgotten, which no later step can tell. Handlers go from `arrived` through
`limited` (unary calls only) and `working` to `done`, with the spans of the interceptors
around them. `StopAccepting` and `Drained` are what grpc's `GracefulStop` does.

## Runs

| Run | Instance | Shows |
|---|---|---|
| `OrderService_faults` | 2 calls, 1 key, 3 payloads (one with a NaN amount), 2 attempts, every fault, cancel, crash | type invariant, both inductive invariants (`OrderInv`), no double charge, truthful replies, statuses and audit rows, settled rows stay, conflicts mean reuse (or a NaN), refusals cost nothing; implements `OrderPromise` |
| `OrderService_clean` | 3 calls, 1 key, 2 payloads, errors mean "did not run", bookkeeping and refunds work | full compensation, settled sagas, a replay received after a success is not refused as processed, blame is final; every call returns |
| `ReliableClients` | 2 calls, 4 attempts, delays 2 up to 3 in 4 bits, bucket of 1, breaker limit 2 | implements `ReliableCall`; delays; refusals are earned by failures; every call ends |
| `CircuitBreaker` | 3 callers, limit 2, default timeout of 2, calls up to 3 ticks | types, flag and trial invariants, bounded failures; never stuck open or half-open |
| `RateLimiter` | 3 waiters, bucket of 2, 3 ticks per token | sleeps end with the next token; implements `TokenBucket`; waiters get on as a group |
| `LocationIngest` | 2 streams of a driver, 2 locations, NaN or not, 1 retry, time to live, every fault | acknowledged means stored twice, no gaps, only lingering batches go back within a stream, hashes expire unless a failure or a refusal is in the way |
| `ServerLifecycle` | 2 unary calls, 2 streams (1 untracked), start-up and Serve may fail; environments with one variable set in any way beside a plain one or one with a client certificate | counters, released stores, no call left, stores open unless Serve failed, served only when configured, a signal ends the process unless a stream stays open |

Why the bounds are enough. The races of the saga for its row are between two calls of one key, and
between a statement of a call and a late one of its own. The clean run has a third call, which may
create the row that the two it compares conflict with or replay. Calls with different
keys meet only in the UNIQUE constraint and in limiter and breaker, which `OrderService` sees as a rejection at
any time; what is said of keys is proved for any number of them. Two attempts give a first and a
last one. A breaker with limit 2 and 3 callers has a trial, an older call and a newcomer at once,
and calls longer than the timeout. A bucket of 2 with 3 waiters can be full, partly full and
overdrawn. Four attempts with a base of 2 in 4 bits have a delay as it is, one that is capped, and one that
overflows (2, then 4 cut to 3, then 8, which is -8); two calls with 4 attempts can open a breaker of limit 2 for each
other and come to its trial. A location race needs two streams, or two locations of one: the two
locations of the run can be either, and a stream that is cut between them is one of the cases.
Loaders look at variables one by one except for certificate and key, so that one variable off
a plain or a TLS environment reaches every error of theirs. Audit rows may be lost in the runs, but
not come late: no other state depends on them, and `AuditIsTruthful` is proved for late ones too.

Runs that must fail, each on a property a document, comment or test of the repository states:

| Run | What happens |
|---|---|
| `OrderService_uncompensated` | a caller that leaves after the charge is told "error" and not refunded |
| `OrderService_lost_ack` | a charge without acknowledgement is retried, answered `ErrAlreadyCharged`, kept |
| `OrderService_status_lost` | a lost last status makes a replay, received after the "ok", fail; under weak fairness of the calls |
| `CircuitBreaker_stale` | a late success closes an open breaker before its timeout |
| `LocationIngest_latest` | two streams leave the older location as the latest, without any fault |

`ErrorMeansNoCharge` has no passing run: where it holds, in the clean run, it follows from
`SettledConsistently` and `ReturnedMeansSettled`.

The models also contain the following behaviours, which no document of the repository denies
and no run is spent on: a caller that leaves keeps its saga in "started"; a duplicate that read "started" is told
"already processed" after the first call was told "ok"; a lost acknowledgement of an assignment leaves a refunded order
with its driver; an HSET that Redis refuses before it accepts the XADD of the same batch leaves the hash behind its
events; a NaN amount is a key
conflict on its first use; a NaN coordinate is stored before the publisher refuses it; one waiter
of a limiter may be overtaken for ever; a failing Serve closes the stores under working handlers;
an open stream keeps `GracefulStop` waiting for ever; once the shift overflows the retry policy does not back
off at all; the calls of other users, or callers that leave, open a breaker that then refuses a
refund. The properties name these exceptions where they bear on them (`ConflictMeansReuse`,
`ReplayOfSuccessSucceeds`, `WorkHasStores`, `ShutdownCompletes`, `BacksOff`, `SettledConsistently` in the clean run), and so does
`LatestIsKept` in its conditions.

Read in the code beside the models: `REDIS_MAX_RETRIES=0` gives go-redis its default of 3;
`/readyz` connects without the TLS configuration, and goes on answering "ok" while the server drains; the
observability server may fail to listen, which is only logged; a second signal is swallowed
while `GracefulStop` waits.

## Fairness

* `OrderService`: weak fairness of each call's steps. A handler goroutine runs, statements
  return (pgx ends them with the context or the connection). None for clients, late
  statements or crashes.
* `CircuitBreaker`: callers keep calling, calls return, time passes. Without callers an
  open breaker stays open: it only changes inside `Execute`.
* `RateLimiter`: time passes, timers fire, a goroutine that may run does. No strong
  fairness for the mutex or the token, so one waiter may starve.
* `ReliableClients`: time passes, timers fire, statements return, and goroutines that may run do.
  No fairness for the mutexes or for cancellation; every call ends because others end after
  finitely many attempts and tokens keep coming.
* `LocationIngest`: none, its properties are safety.
* `ServerLifecycle`: `run` and the handlers proceed, stores answer, unary calls return; a stream ends
  when its client likes, and no signal need come.

## Proofs

`OrderServiceProofs` proves `TypeOK`, `KeyInv` and `AtMostOneChargePerKey` for every set
of calls, keys, payloads and faults and any number of attempts. `TypeOK` is not inductive
alone: a late INSERT needs a request to store, so type correctness and `KeyInv` are proved
together. `KeyInv` says that the row of a key is unique and holds what its own call asked for, that
a call with work done or under way has a row, that so has every late statement but an INSERT, and that a row which a
call has read and not yet answered from (`RecordsAreRows`) is still the row of its key. Two
charged orders of one key would be two rows of one key. The lemmas `LandRows` and `StatementKey` say what any SQL
statement can do to rows, now or late; each action of `Next` then has a step.

`OrderOutcomeProofs` proves `OutcomeInv` and from it `OkMeansFulfilled` and
`StatusTruthful`. The invariant is about everything that *says* an order succeeded or was
refunded: a call about to say so, a row that was read, a status, a late update, a reply. It must be kept: paid,
assigned, and with no refund issued or late (`Kept`), which needs `NoRefundYet`, for a refund
that was given up on must not reach an order that later succeeds. A step is described by its
effects on the tables (`Effects`), its moves of the counters (`Moves`), the replies (`Replies`) and the rows that were read
(`Reads`); `NextEffects`, `NextMoves`, `NextReplies` and `NextReads` prove the descriptions action by action, and
`StepOutcome` needs nothing else.

`OrderCorrect` puts the two together: `OrderInv` is the inductive invariant that TLC checks in
`OrderService_faults`.

The same module proves `AuditTruthful` and `SettledStays`. For the audit rows, `AuditInv` adds to
the property what it says of a row that is late or about to be written: the row is issued only
when it is true, and what it records is never undone (`Grows`). For settled rows, `MarkedOnce`
says that a call issues one kind of final update, at its end, so that no second, different
update can be late, and that none is late once one has landed.

`OrderPromiseProofs` proves `RefusalCostsNothing`, `ConflictMeansReuse` and `BlameIsFinal`. Its invariant is a
conjunction of facts about one call each: what a call that has not charged has left behind
(`Fresh`), that its payload was compared before it goes on (`Compared`), that a refused call has
nothing under way (`RefusedAtRest`), and that a conflict has a row to conflict with.
`BlameIsFinal` relates two calls; it follows because the row of a key never changes hands.

It also proves the refinement of `OrderPromise`, `PromiseIsKept`. The mapping chooses the row of a key and
counts payments; `ViewFacts` resolves both from `KeyInv`, for a key has one row and at most one
charged order, so that no step needs to count. Then each statement that reaches the
tables is one step of the promise, now or late: an INSERT binds the key (`InsertBinds`), a charge charges it
(`ChargeCharges`), a refund refunds it once (`RefundRefunds`), an assignment drives
(`AssignDrives`); audit rows and statuses stutter, a request asks (`ReceiveAsks`), and only a reply of "ok" counts as one
(`ReplyKeepsPromise`). Two facts had to be found. A driver is sent, also late, only for an order with a
payment (`DrivenIsPaid`), which no other invariant says. And `None`, by which the promise says that a
key is free, must not be a payload: it is now an assumption on the constants.

What holds under the clean run's faults is proved under conditions on `Faults`, each as weak as its
argument allows; `OrderService_clean` is an instance of all of them, so none is empty. Crashes, any other
fault and any number of calls, keys and attempts are allowed.

| Theorem | Property | Condition |
|---|---|---|
| `ReplaysSucceed` | `ReplayOfSuccessSucceeds` | `StatusesLand`: nobody cancels, the last `UpdateStatus` neither fails nor is late |
| `CreatorsSettle` | `ReturnedMeansSettled` | `StartWorks`: `StatusesLand`, the SELECT of `Start` does not fail, no amount is a NaN |
| `FailuresCompensated` | `SettledConsistently` | `ErrorsMeanNothingRan`: nobody cancels, a client statement that errs did not run, and refunds work |
| `ErrorsKeepNoMoney` | `ErrorMeansNoCharge` | `ErrorsMeanNothingRan` |

`ReplaysSucceed` is about calls that are received after the "ok". Then the row says "succeeded" for good, and so does what
such a call reads of it (`ProcessedRead`, `Protected`); a duplicate that read the row before may be refused under
these conditions too, and without any fault.

The code does not guarantee the conditions. `OrderService_status_lost` breaks the first, and
`OrderService_uncompensated` and `OrderService_lost_ack` break the last: the theorems say that no
further condition is needed. `ErrorsKeepNoMoney` is the counterpart of those two runs. It is about the money alone, so that statuses
may be lost, the SELECT may fail and amounts may be NaNs: `ErrorEnds` names the four statements at which a
call can end with an error, and at each of them it has not charged or has been paid back
(`CompensationInv`), which nothing can change once it has returned (`ErrorsPaidBack`).

`CircuitBreakerProofs` proves `TypeOK`, `FlightMeansHalfOpen`, `HalfOpenHasTrial` and `FailuresBounded`
for any finite set of callers, any limit and timeout and any length of calls. `FailuresBounded` needs more
than a count: while the breaker is open, failures and the calls still running together cannot grow
(`FailuresInv`), for nobody is admitted; that sum is bounded when it opens. `CircuitBreaker_stale` shows two ways in which a
breaker does not stay shut for its timeout: a late success closes it, and old clock readings date the timeout
back. `TrialsWait` bounds the second: a trial comes early by the length of one call at most, for an open breaker
counts from the clock reading of a call that failed (`CountsFromCall`).

`RateLimiterProofs` proves `TypeOK`, `SleepersAreDue` and the refinement `NeverExceedsBucket` for any number of
callers, any rate and any bucket. The code refills only when somebody calls, and forgets what
overflows; the ideal bucket fills with every tick. What it may still give is `Credit`: tokens and the
time since the last refill, but never more than a full bucket and less than a token beside it, which is all that
`refill` can make of it. A take costs at least the price of a token (`TakeCosts`), a tick adds at most one, and every other
step leaves it. The same three facts prove `AnyStretchIsBounded`, which says it of any stretch of time and not only from
the start: counters of ticks and grants that begin at any state of the limiter's life obey the bound.

`ReliableClientsProofs` proves `KeepsCall` from `CallInv`: where a call is says whether the breaker may work for it,
whether it has an answer and whether an attempt is left. `ClientsUseLimiter` and
`ClientsUseBreaker` show that the composition uses both as their own modules take for granted, so
that what is proved of `RateLimiter` and `CircuitBreaker` is true of the ones the clients share.
That last step is taken too: the two proof modules are instantiated with the composition's
variables (`LimiterFacts`, `BreakerFacts`), their assumptions follow from `ClientsAssumption` (`PartsFit`), and
`ClientsAreLimited` and `ClientsBreakerWorks` are their theorems about the composition, with no step proved twice.
`RefusalIsEarned` holds because the failures the breaker counts are some of the attempts that
erred, and it leaves its closed state only for as many as configured (`EarnedInv`).

`ClientsBackOff` proves `BacksOff` for every delay, number of attempts and width. `Doubled` is a recursive
function, and that it is defined at all (`DoubledDef`) needs an induction over its exponent. The induction
theorems of the library take an operator, so the induction is made with sets: of the numbers that have no table of the
first doublings, well-foundedness gives a least one, and the table before it can be extended (`TablesExist`); two tables
agree (`TablesAgree`). What follows is arithmetic: as long as the doubling is below the
sign bit, `Signed` leaves it, and a negative delay is not slept (`SignedFacts`, `JitterFacts`).

`LocationIngestProofs` proves every property of the passing run. `IngestInv` says of each stream where in its two
stores it has got to (`BatchProgress`), and that what it sent before is in both
(`PastIsStored`), but for the last location while it is being stored or when the stream failed.
`AckMeansStored` and `NoGaps` follow. `StaleHashesExpire` needs to name who
will set a time to live, or failed to (`HashInv`): a batch at work, one that was given up on, a stream that failed, or a late
EXPIRE that Redis refused.

`LatestIsKept` is the counterpart of `LocationIngest_latest`. Its conditions are that no batch runs later than its error and
Redis refuses no command (neither `"linger"` nor `"refuse"` in `Faults`), and that no two streams store locations of one
driver at the same moment (`OneAtATime`). It concludes `EventsBehind`: no event is newer than the hash of its driver,
if that has one, at every moment, also while streams store and after a crash; `LatestIsNewest`, which speaks only of moments
when nothing is being stored, follows. Streams of one driver may follow each other, batches be sent again, given up on or cut by a crash, the
history fail, and hashes expire. Each of the three excluded cases can put an event ahead of the hash: a stream overtaken by
another, a late HSET, an HSET refused before its XADD. The invariant says that what a stream stores is the newest location of its
driver (`NewestHeld`) and that behind the first command the hash holds it (`HashIsCurrent`). The condition
is not empty: with a single stream `OneAtATime` always holds.

`ServerLifecycleProofs` proves every safety property of its run, for any number of calls and any set of
environments. `StoresByPhase` says what each step of the start-up and of the stop finds open, `CallsByPhase` when there may
be calls; with `MetricsAgree`, which bounds the counters, they are inductive
(`LifecycleInv`). `ServesOnlyConfigured` rests on `ConfigByPhase`: what a step has read is still what
the process was given.

Assumptions are those of the `ASSUME`s of the modules, and the conditions of the four theorems in the table
and of `LatestIsKept`.

Model-checked only:

* all liveness, and anything about ENABLED: `EveryCallReturns`, `NeverStuck`, `SomeoneGetsThrough`, `EveryCallEnds`,
  `ShutdownCompletes`;
* what the code violates (the five runs that must fail).

## Not modelled

* The HTTP endpoint's encoding, generated protobuf code, scripts: no state or no order of events.
* What a loaded number means to go-redis or database/sql: pool sizes and timeouts of theirs.
* A limiter with rate or burst zero, and a nil breaker, limiter or metrics: they do nothing.
  Sleeps, jitters and clocks other than the defaults, which only tests configure.
* Latencies, uptime and rate-limit waits in the metrics; number, order and trimming of events in the
  Redis stream; timestamps of
  locations, which no code compares; panics in handlers; the readiness check, which opens and
  closes connections of its own.
* The broadcaster of the fanout publisher: the server passes nil (main.go:59).

## Plan

Done: the saga with its refinement, replies and theorems; the breaker, the limiter, the
reliable clients and their contract, the ingest, configuration, metrics and the process. Every safety property that a passing
run checks is proved for every instance; of the five that must fail, those of
`OrderService_uncompensated`, `OrderService_lost_ack`, `OrderService_status_lost` and `LocationIngest_latest` are
proved under the condition whose absence the run shows. Of `CircuitBreaker_stale`, only how early a trial may
come is proved.

Open:

1. `OrderService` against `ReliableCall`: `KeepsCall` shows that the clients keep the contract, and `OrderService` is written
   so that it allows all that the contract allows; that last is read off the two modules, and no
   theorem states it.
2. An abstract specification of location storage, and `LocationIngest` shown to implement it.
3. Latencies in `Metrics`.
