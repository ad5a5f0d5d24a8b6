---------------------------- MODULE OrderService ----------------------------
(***************************************************************************)
(* OrderService.CreateOrder (internal/orders/order.go) run by concurrent   *)
(* gRPC handlers over the four Postgres tables of internal/db/orders.      *)
(*                                                                         *)
(* A call is one execution of CreateOrder.  The order id and the driver id *)
(* it draws are fresh UUIDs (order.go:68-69), so the call itself names     *)
(* both: order c is the order of call c, driver c the driver it picked.    *)
(* A client that retries is another call with the same key and payload.    *)
(*                                                                         *)
(* Every SQL statement is one atomic step, labelled by the program counter *)
(* of the call that issues it.  The clients of charge, assign and refund   *)
(* are the reliable ones of reliability.go: up to MaxAttempts tries, each  *)
(* of which the circuit breaker may reject (any rejection is allowed here) *)
(***************************************************************************)
EXTENDS Naturals, FiniteSets

CONSTANTS
  Calls,        \* executions of CreateOrder
  Keys,         \* non-empty idempotency keys
  Payloads,     \* <<user, amount>> pairs
  NaNPayloads,  \* the payloads whose amount is a NaN
  MaxAttempts,  \* RetryPolicy.MaxAttempts
  Faults,       \* Faults[l]: what may go wrong at statement l
  MayCancel,    \* may a caller cancel, or a deadline pass
  MayCrash,     \* may the server process die
  None          \* no row, no driver, no request, no order

(***************************************************************************)
(* Statement labels, in the order of order.go:71-110.                      *)
(***************************************************************************)
ClientLabels == {"charge", "assign", "refund"}

\* The audit rows CreateOrder adds, and the statuses it ends a saga with.
StepRow ==
  [ chargeStarted   |-> <<"charge", "started">>,
    chargeSucceeded |-> <<"charge", "succeeded">>,
    chargeFailed    |-> <<"charge", "failed">>,
    assignStarted   |-> <<"assign", "started">>,
    assignSucceeded |-> <<"assign", "succeeded">>,
    assignFailed    |-> <<"assign", "failed">>,
    refundStarted   |-> <<"refund", "started">>,
    refundSucceeded |-> <<"refund", "succeeded">>,
    refundFailed    |-> <<"refund", "failed">> ]

\* Mutant: the calls of UpdateStatus are missing.
FinalStatusMissing ==
  [ markFailed    |-> "started",
    markRefunded  |-> "started",
    markSucceeded |-> "started" ]

FinalStatus ==
  [ markFailed    |-> "failed",
    markRefunded  |-> "refunded",
    markSucceeded |-> "succeeded" ]

LogLabels  == DOMAIN StepRow
MarkLabels == DOMAIN FinalStatus

\* The label that follows an AddStep.
AfterLog ==
  [ chargeStarted   |-> "charge",
    chargeSucceeded |-> "assignStarted",
    chargeFailed    |-> "markFailed",
    assignStarted   |-> "assign",
    assignSucceeded |-> "markSucceeded",
    assignFailed    |-> "refundStarted",
    refundStarted   |-> "refund",
    refundSucceeded |-> "markRefunded",
    refundFailed    |-> "markFailed" ]

\* The labels that follow a client call that returned nil, or an error.
OnSuccess ==
  [ charge |-> "chargeSucceeded",
    assign |-> "assignSucceeded",
    refund |-> "refundSucceeded" ]

\* Mutants: an assignment that failed is not compensated, or is tried again
\* and again; a failed refund or charge is taken for a success.
OnErrorNoRefund ==
  [charge |-> "chargeFailed", assign |-> "chargeFailed", refund |-> "refundFailed"]
OnErrorReassign ==
  [charge |-> "chargeFailed", assign |-> "assignStarted", refund |-> "refundFailed"]
OnErrorRefunded ==
  [charge |-> "chargeFailed", assign |-> "assignFailed", refund |-> "refundSucceeded"]
OnErrorCharged ==
  [charge |-> "chargeSucceeded", assign |-> "assignFailed", refund |-> "refundFailed"]

OnError ==
  [ charge |-> "chargeFailed",
    assign |-> "assignFailed",
    refund |-> "refundFailed" ]

WriteLabels  == {"insert"} \cup ClientLabels \cup LogLabels \cup MarkLabels
Labels       == WriteLabels \cup {"select"}
Running      == Labels \cup {"answer"}
PCs          == Running \cup {"idle", "returned", "crashed"}

(***************************************************************************)
(* "fail": an error, the statement did not run.  "lostAck": it ran, the    *)
(* caller sees an error.  "late": the caller sees an error, the statement  *)
(* reaches the table later, or never.  "reject": ErrCircuitOpen.           *)
(***************************************************************************)
FaultKinds == {"fail", "lostAck", "late", "reject"}

Request  == [key : Keys, payload : Payloads]
Statuses == {"started", "succeeded", "failed", "refunded"}
SagaRow  == [key : Keys, payload : Payloads, status : Statuses]
Record   == [order : Calls, payload : Payloads, status : Statuses]
Codes    == {"none", "ok", "keyRequired", "conflict", "processed", "error"}

\* Mutant: an order in progress is a failed precondition.
StatusCodesProcessedBlamed ==
  [ none        |-> {},
    ok          |-> {"OK"},
    keyRequired |-> {"InvalidArgument"},
    conflict    |-> {"FailedPrecondition"},
    processed   |-> {"FailedPrecondition"},
    error       |-> {"Canceled", "DeadlineExceeded", "Internal"} ]

\* mapOrderError: the gRPC statuses a reply may have.  An error is the
\* context's, or any other; none that CreateOrder makes says "payment failed".
StatusCodes ==
  [ none        |-> {},
    ok          |-> {"OK"},
    keyRequired |-> {"InvalidArgument"},
    conflict    |-> {"FailedPrecondition"},
    processed   |-> {"Internal"},
    error       |-> {"Canceled", "DeadlineExceeded", "Internal"} ]

ASSUME ConstantsAssumption ==
  /\ NaNPayloads \subseteq Payloads
  /\ MaxAttempts \in Nat
  /\ Faults \in [Labels -> SUBSET FaultKinds]
  /\ MayCancel \in BOOLEAN /\ MayCrash \in BOOLEAN
  /\ None \notin Calls \cup Payloads \cup Request \cup SagaRow

VARIABLES
  pc,           \* pc[c]: the statement call c issues next
  req,          \* req[c]: the request call c received
  ctxDone,      \* calls whose context is cancelled or past its deadline
  tries,        \* tries[c]: failed attempts of the current client call
  inserted,     \* calls whose INSERT affected one row
  record,       \* record[c]: the row that c's SELECT read
  reply,        \* reply[c]: what CreateOrder returned
  sagas,        \* table order_sagas, by order_id
  steps,        \* table order_saga_steps: the rows of each order
  payments,     \* table payments: state of each order's row
  assignments,  \* table order_assignments: driver of each order
  late          \* statements given up on that may still reach the tables

callVars == <<pc, req, ctxDone, tries, inserted, record, reply>>
tables   == <<sagas, steps, payments, assignments>>
vars     == <<callVars, tables, late>>

-----------------------------------------------------------------------------
(***************************************************************************)
(* The SQL statements.                                                     *)
(***************************************************************************)
KeyTaken(k) == \E o \in Calls : sagas[o] # None /\ sagas[o].key = k

\* Mutant: ON CONFLICT (idempotency_key) DO UPDATE SET status = 'started'.
InsertSagaUpsert(c) ==
  /\ sagas' = [o \in Calls |->
       IF sagas[o] # None /\ sagas[o].key = req[c].key
         THEN [sagas[o] EXCEPT !.status = "started"]
       ELSE IF o = c /\ ~KeyTaken(req[c].key)
         THEN [key |-> req[c].key, payload |-> req[c].payload, status |-> "started"]
       ELSE sagas[o]]
  /\ UNCHANGED <<steps, payments, assignments>>

\* Mutant: idempotency_key is not UNIQUE.
InsertSagaNoUnique(c) ==
  /\ sagas' = [sagas EXCEPT ![c] = [key     |-> req[c].key,
                                    payload |-> req[c].payload,
                                    status  |-> "started"]]
  /\ UNCHANGED <<steps, payments, assignments>>

\* INSERT INTO order_sagas ... ON CONFLICT (idempotency_key) DO NOTHING
InsertSaga(c) ==
  /\ sagas' = IF KeyTaken(req[c].key) THEN sagas
              ELSE [sagas EXCEPT ![c] = [key     |-> req[c].key,
                                         payload |-> req[c].payload,
                                         status  |-> "started"]]
  /\ UNCHANGED <<steps, payments, assignments>>

\* UPDATE order_sagas SET status = s WHERE order_id = c
UpdateStatus(c, s) ==
  /\ sagas' = IF sagas[c] = None THEN sagas
              ELSE [sagas EXCEPT ![c].status = s]
  /\ UNCHANGED <<steps, payments, assignments>>

\* INSERT INTO order_saga_steps; the foreign key wants the saga's row.
AddStep(c, row) ==
  /\ steps' = IF sagas[c] = None THEN steps
              ELSE [steps EXCEPT ![c] = @ \cup {row}]
  /\ UNCHANGED <<sagas, payments, assignments>>

\* INSERT INTO payments ... ON CONFLICT (order_id) DO NOTHING
InsertPayment(c) ==
  /\ payments' = [payments EXCEPT ![c] = IF @ = "none" THEN "charged" ELSE @]
  /\ UNCHANGED <<sagas, steps, assignments>>

\* UPDATE payments SET refunded_at = NOW() ... WHERE refunded_at IS NULL
UpdatePayment(c) ==
  /\ payments' = [payments EXCEPT ![c] = IF @ = "charged" THEN "refunded" ELSE @]
  /\ UNCHANGED <<sagas, steps, assignments>>

\* INSERT INTO order_assignments ... ON CONFLICT (order_id) DO NOTHING
InsertAssignment(c) ==
  /\ assignments' = [assignments EXCEPT
                      ![c] = IF @ = None /\ sagas[c] # None THEN c ELSE @]
  /\ UNCHANGED <<sagas, steps, payments>>

\* Statement l of call c reaches the database.
Land(l, c) ==
  \/ l = "insert" /\ InsertSaga(c)
  \/ l = "charge" /\ InsertPayment(c)
  \/ l = "assign" /\ InsertAssignment(c)
  \/ l = "refund" /\ UpdatePayment(c)
  \/ l \in LogLabels /\ AddStep(c, StepRow[l])
  \/ l \in MarkLabels /\ UpdateStatus(c, FinalStatus[l])

\* Statement l runs and its caller sees the result.
Succeeds(l, c) ==
  /\ c \notin ctxDone
  /\ Land(l, c)
  /\ UNCHANGED late

\* Statement l returns an error.  database/sql runs nothing on a done
\* context; otherwise the error says nothing of whether the statement ran.
Errs(l, c) ==
  \/ /\ c \in ctxDone \/ "fail" \in Faults[l]
     /\ UNCHANGED <<tables, late>>
  \/ /\ c \notin ctxDone /\ "lostAck" \in Faults[l]
     /\ Land(l, c)
     /\ UNCHANGED late
  \/ /\ c \notin ctxDone /\ "late" \in Faults[l]
     /\ late' = late \cup {<<l, c>>}
     /\ UNCHANGED tables

-----------------------------------------------------------------------------
(***************************************************************************)
(* CreateOrder.                                                            *)
(***************************************************************************)
Goto(c, l) == pc' = [pc EXCEPT ![c] = l]

Return(c, code, order) ==
  /\ Goto(c, "returned")
  /\ reply' = [reply EXCEPT ![c] = [code |-> code, order |-> order]]

\* A handler receives a request (order.go:63).
Receive(c) ==
  /\ pc[c] = "idle"
  /\ \E r \in Request : req' = [req EXCEPT ![c] = r]
  /\ Goto(c, "insert")
  /\ UNCHANGED <<ctxDone, tries, inserted, record, reply, tables, late>>

\* An empty key is refused before anything is stored (order.go:64-66).
RefuseEmptyKey(c) ==
  /\ pc[c] = "idle"
  /\ Return(c, "keyRequired", None)
  /\ UNCHANGED <<req, ctxDone, tries, inserted, record, tables, late>>

\* SagaStore.Start, the INSERT: remembers whether it affected a row.
StartInsert(c) ==
  /\ pc[c] = "insert"
  /\ \/ /\ Succeeds("insert", c)
        /\ inserted' = IF KeyTaken(req[c].key) THEN inserted
                       ELSE inserted \cup {c}
        /\ Goto(c, "select")
        /\ UNCHANGED reply
     \/ /\ Errs("insert", c)
        /\ Return(c, "error", None)
        /\ UNCHANGED inserted
  /\ UNCHANGED <<req, ctxDone, tries, record>>

\* Mutants: no comparison; an inverted comparison.
PayloadNeverDiffers(p, q) == FALSE
PayloadMatches(p, q)      == p = q

\* Go's != on the two columns: a NaN amount differs from itself.
PayloadDiffers(p, q) == p # q \/ p \in NaNPayloads

\* Mutants: any INSERT that did not err counts as a new saga; the test of
\* the rows affected is inverted.
CreatedUnlessError(c) == TRUE
CreatedInverted(c)    == c \notin inserted

\* Start's second result: the INSERT affected one row.
Created(c) == c \in inserted

\* SagaStore.Start, the SELECT by key: the row as it is now.
StartSelect(c) ==
  /\ pc[c] = "select"
  /\ \/ /\ c \in ctxDone \/ "fail" \in Faults["select"] \/ ~KeyTaken(req[c].key)
        /\ Return(c, "error", None)
        /\ UNCHANGED record
     \/ /\ c \notin ctxDone
        /\ \E o \in Calls :
             /\ sagas[o] # None /\ sagas[o].key = req[c].key
             /\ record' = [record EXCEPT ![c] = [order   |-> o,
                                               payload |-> sagas[o].payload,
                                               status  |-> sagas[o].status]]
        /\ Goto(c, "answer")
        /\ UNCHANGED reply
  /\ UNCHANGED <<req, ctxDone, tries, inserted, tables, late>>

\* What Start and CreateOrder make of the row, which may have changed since.
Answer(c) ==
  /\ pc[c] = "answer"
  /\ \/ /\ PayloadDiffers(record[c].payload, req[c].payload)
        /\ Return(c, "conflict", None)
     \/ /\ ~PayloadDiffers(record[c].payload, req[c].payload)
        /\ \/ Created(c) /\ Goto(c, "chargeStarted") /\ UNCHANGED reply
           \/ /\ ~Created(c) /\ record[c].status = "succeeded"
              /\ Return(c, "ok", record[c].order)
           \/ /\ ~Created(c) /\ record[c].status # "succeeded"
              /\ Return(c, "processed", None)
  /\ record' = [record EXCEPT ![c] = None]
  /\ UNCHANGED <<req, ctxDone, tries, inserted, tables, late>>

\* AddStep: its error is ignored.
Log(c) ==
  /\ pc[c] \in LogLabels
  /\ Succeeds(pc[c], c) \/ Errs(pc[c], c)
  /\ Goto(c, AfterLog[pc[c]])
  /\ UNCHANGED <<req, ctxDone, tries, inserted, record, reply>>

(***************************************************************************)
(* One attempt of RetryPolicy.Do around limiter, breaker and statement.    *)
(***************************************************************************)
Attempts == IF MaxAttempts < 1 THEN 1 ELSE MaxAttempts

\* Mutant: one attempt too many.
LastAttemptOffByOne(c) == tries[c] = Attempts

LastAttempt(c) == tries[c] + 1 = Attempts

\* The statement affects a row, or finds the one this call wrote before:
\* the base client returns nil.
Accepts(l, c) ==
  \/ l = "charge" /\ payments[c] = "none"
  \/ l = "assign" /\ sagas[c] # None /\ assignments[c] \in {None, c}
  \/ l = "refund" /\ payments[c] = "charged"

\* A done context or an open circuit ends the call at once.
GiveUp(c) ==
  /\ pc[c] \in ClientLabels
  /\ c \in ctxDone \/ "reject" \in Faults[pc[c]]
  /\ Goto(c, OnError[pc[c]])
  /\ tries' = [tries EXCEPT ![c] = 0]
  /\ UNCHANGED <<req, ctxDone, inserted, record, reply, tables, late>>

AttemptSucceeds(c) ==
  /\ pc[c] \in ClientLabels
  /\ Accepts(pc[c], c)
  /\ Succeeds(pc[c], c)
  /\ Goto(c, OnSuccess[pc[c]])
  /\ tries' = [tries EXCEPT ![c] = 0]
  /\ UNCHANGED <<req, ctxDone, inserted, record, reply>>

\* ErrAlreadyCharged, ErrAlreadyRefunded and ErrNotCharged are retried like
\* any error of the database (reliability.go:38-45).
AttemptErrs(c) ==
  /\ pc[c] \in ClientLabels
  /\ c \notin ctxDone
  /\ \/ ~Accepts(pc[c], c) /\ UNCHANGED <<tables, late>>
     \/ Errs(pc[c], c)
  /\ \/ /\ ~LastAttempt(c)
        /\ tries' = [tries EXCEPT ![c] = @ + 1]
        /\ UNCHANGED pc
     \/ /\ LastAttempt(c)
        /\ tries' = [tries EXCEPT ![c] = 0]
        /\ Goto(c, OnError[pc[c]])
  /\ UNCHANGED <<req, ctxDone, inserted, record, reply>>

\* UpdateStatus ends the saga; its error is ignored and the call returns.
Mark(c) ==
  /\ pc[c] \in MarkLabels
  /\ Succeeds(pc[c], c) \/ Errs(pc[c], c)
  /\ IF pc[c] = "markSucceeded" THEN Return(c, "ok", c)
                                ELSE Return(c, "error", None)
  /\ UNCHANGED <<req, ctxDone, tries, inserted, record>>

Step(c) ==
  \/ StartInsert(c) \/ StartSelect(c) \/ Answer(c) \/ Log(c)
  \/ GiveUp(c) \/ AttemptSucceeds(c) \/ AttemptErrs(c) \/ Mark(c)

-----------------------------------------------------------------------------
Active(c) == pc[c] \in Running

\* The client goes away or its deadline passes: the handler's context ends.
Cancel(c) ==
  /\ MayCancel
  /\ Active(c) /\ c \notin ctxDone
  /\ ctxDone' = ctxDone \cup {c}
  /\ UNCHANGED <<pc, req, tries, inserted, record, reply, tables, late>>

\* The process dies; nothing resumes its sagas when it is started again.
Crash ==
  /\ MayCrash
  /\ \E c \in Calls : Active(c)
  /\ pc' = [c \in Calls |-> IF Active(c) THEN "crashed" ELSE pc[c]]
  /\ UNCHANGED <<req, ctxDone, tries, inserted, record, reply, tables, late>>

\* Postgres runs a statement whose caller has gone.
LandLate(l, c) ==
  /\ <<l, c>> \in late
  /\ Land(l, c)
  /\ late' = late \ {<<l, c>>}
  /\ UNCHANGED callVars

\* Every call is over: the only states in which nothing has to happen.
Finished ==
  /\ \A c \in Calls : pc[c] \in {"returned", "crashed"}
  /\ UNCHANGED vars

Init ==
  /\ pc = [c \in Calls |-> "idle"]
  /\ req = [c \in Calls |-> None]
  /\ ctxDone = {}
  /\ tries = [c \in Calls |-> 0]
  /\ inserted = {}
  /\ record = [c \in Calls |-> None]
  /\ reply = [c \in Calls |-> [code |-> "none", order |-> None]]
  /\ sagas = [c \in Calls |-> None]
  /\ steps = [c \in Calls |-> {}]
  /\ payments = [c \in Calls |-> "none"]
  /\ assignments = [c \in Calls |-> None]
  /\ late = {}

Next ==
  \/ \E c \in Calls : \/ Receive(c) \/ RefuseEmptyKey(c)
                      \/ Step(c) \/ Cancel(c)
                      \/ \E l \in WriteLabels : LandLate(l, c)
  \/ Crash
  \/ Finished

Spec == Init /\ [][Next]_vars

\* A handler goroutine keeps running; clients, the database's leftovers and
\* the process's death owe nothing.
Fairness == \A c \in Calls : WF_vars(Step(c))

FairSpec == Spec /\ Fairness

-----------------------------------------------------------------------------
(***************************************************************************)
(* Properties.                                                             *)
(***************************************************************************)
TypeOK ==
  /\ pc \in [Calls -> PCs]
  /\ req \in [Calls -> Request \cup {None}]
  /\ ctxDone \subseteq Calls
  /\ tries \in [Calls -> 0 .. Attempts - 1]
  /\ inserted \subseteq Calls
  /\ record \in [Calls -> Record \cup {None}]
  /\ reply \in [Calls -> [code : Codes, order : Calls \cup {None}]]
  /\ sagas \in [Calls -> SagaRow \cup {None}]
  /\ steps \in [Calls -> SUBSET {StepRow[l] : l \in LogLabels}]
  /\ payments \in [Calls -> {"none", "charged", "refunded"}]
  /\ assignments \in [Calls -> Calls \cup {None}]
  /\ late \subseteq WriteLabels \X Calls

HasRow(o)  == sagas[o] # None
Settled(o) == HasRow(o) /\ sagas[o].status # "started"

\* However many calls, retries, crashes and late statements share a key, at
\* most one of their orders ever has a row in payments (order.go:71-86).
AtMostOneChargePerKey ==
  \A c, d \in Calls :
    /\ payments[c] # "none" /\ payments[d] # "none"
    /\ req[c].key = req[d].key
    => c = d

\* A call that returned an order id returned an order stored under its own
\* key and payload, charged, not refunded (then or at any later time) and
\* assigned to a driver: also when it is a replay (order.go:78-80).
OkMeansFulfilled ==
  \A c \in Calls : reply[c].code = "ok" =>
    LET o == reply[c].order IN
      /\ HasRow(o)
      /\ sagas[o].key = req[c].key /\ sagas[o].payload = req[c].payload
      /\ payments[o] = "charged"
      /\ assignments[o] # None

\* A terminal status never claims an effect the tables do not hold: charges
\* and refunds whose acknowledgement was lost may be missing from the
\* status, but nothing it states is missing from the tables.
StatusTruthful ==
  \A o \in Calls : HasRow(o) =>
    /\ sagas[o].status = "succeeded" => /\ payments[o] = "charged"
                                        /\ assignments[o] # None
    /\ sagas[o].status = "refunded"  => payments[o] = "refunded"

\* The audit history never records a success that did not happen, and a
\* refund is only attempted on an order that was charged.
AuditTruthful ==
  \A o \in Calls :
    /\ <<"charge", "succeeded">> \in steps[o] => payments[o] # "none"
    /\ <<"assign", "succeeded">> \in steps[o] => assignments[o] # None
    /\ <<"refund", "succeeded">> \in steps[o] => payments[o] = "refunded"
    /\ <<"refund", "started">> \in steps[o]   => payments[o] # "none"

\* Once a saga has a terminal status no later or late statement changes it,
\* and the row of a key is never replaced (saga_store.go:65-70, 105-113).
SettledStays ==
  [][\A o \in Calls :
       /\ HasRow(o)  => /\ sagas'[o].key = sagas[o].key
                        /\ sagas'[o].payload = sagas[o].payload
       /\ Settled(o) => sagas'[o] = sagas[o]]_vars

\* ErrIdempotencyConflict: "idempotency key reused with different payload"
\* (saga/types.go:33); but a NaN amount conflicts with itself, so that its
\* call can never succeed.
ConflictMeansReuse ==
  \A c \in Calls : reply[c].code = "conflict" =>
    \/ req[c].payload \in NaNPayloads
    \/ \E d \in Calls : /\ req[d] # None
                        /\ req[d].key = req[c].key
                        /\ req[d].payload # req[c].payload

\* The status tells the client that its request is at fault.
BlamesRequest(c) ==
  StatusCodes[reply[c].code] \cap {"InvalidArgument", "FailedPrecondition"} # {}

\* A request that is blamed stays wrong: no replay of it, before or after,
\* is told "ok" (order_server.go:45-62, saga_store.go:97-99).
BlameIsFinal ==
  \A c, d \in Calls :
    BlamesRequest(c) /\ req[d] = req[c] => reply[d].code # "ok"

\* A call that is blamed, or told that its order is processed already, has
\* done nothing that its client could be charged for, and will not: it has
\* no row of its own but for a NaN, no payment and none under way
\* (order.go:71-83).
RefusalCostsNothing ==
  \A c \in Calls : BlamesRequest(c) \/ reply[c].code = "processed" =>
    /\ HasRow(c) => req[c].payload \in NaNPayloads
    /\ payments[c] = "none" /\ <<"charge", c>> \notin late

\* A settled saga and the other tables tell one story: a failed order cost
\* nothing, a refunded one was paid back, and neither keeps a driver.
SettledConsistently ==
  \A o \in Calls : Settled(o) =>
    /\ sagas[o].status = "failed"    => payments[o] = "none"
    /\ sagas[o].status = "refunded"  => payments[o] = "refunded"
    /\ sagas[o].status # "succeeded" => assignments[o] = None

\* The call that created a saga leaves it in a terminal status when it
\* returns (order_test.go:147, 180, 215, 269).
ReturnedMeansSettled ==
  \A c \in Calls : c \in inserted /\ pc[c] = "returned" => Settled(c)

\* A call that returned an error keeps no money: what it charged it paid
\* back (order.go:96, README.md:10).
ErrorMeansNoCharge ==
  \A c \in Calls : reply[c].code = "error" => payments[c] # "charged"

\* Once a call was told that its order succeeded, a replay of the request
\* that is received from then on is not refused as processed; one that is on
\* its way already may have read the row before (order_test.go:291-297,
\* README.md:11).
ReplayOfSuccessSucceeds ==
  \A c, d \in Calls :
    [](reply[c].code = "ok" /\ pc[d] = "idle"
         => [](req[d] = req[c] => reply[d].code # "processed"))

\* Every call returns, or dies with the process.
EveryCallReturns ==
  \A c \in Calls : Active(c) ~> pc[c] \in {"returned", "crashed"}

-----------------------------------------------------------------------------
(***************************************************************************)
(* The inductive invariants behind the safety properties.                  *)
(***************************************************************************)
\* Labels a call only reaches when its own INSERT created the saga.
ScriptLabels == ClientLabels \cup LogLabels \cup MarkLabels

\* The row of a key is unique, and holds what its own call asked for.
UniqueKeys ==
  \A o, p \in Calls :
    HasRow(o) /\ HasRow(p) /\ sagas[o].key = sagas[p].key => o = p

RowsAsAsked ==
  \A o \in Calls : HasRow(o) =>
    /\ pc[o] # "idle" /\ req[o] # None
    /\ sagas[o].key = req[o].key /\ sagas[o].payload = req[o].payload

RunsHaveRequests == \A c \in Calls : pc[c] \in Running => req[c] # None

\* Nothing is charged, issued or still under way for an order without a row.
WorkHasRow ==
  \A c \in Calls :
    c \in inserted \/ pc[c] \in ScriptLabels \/ payments[c] # "none" => HasRow(c)

LateHasRow ==
  \A l \in WriteLabels, c \in Calls : <<l, c>> \in late =>
    /\ pc[c] # "idle" /\ req[c] # None
    /\ l # "insert" => HasRow(c)

\* A call that read a row read one of its key, of which only the status may
\* have changed since.
ReadsRow(c) ==
  LET o == record[c].order IN
  /\ record[c] \in Record
  /\ HasRow(o)
  /\ sagas[o].key = req[c].key /\ sagas[o].payload = record[c].payload

RecordsAreRows == \A c \in Calls : pc[c] = "answer" => ReadsRow(c)

\* A key has one row, the row holds what its call asked for, all work is done
\* for orders with a row, and the row that a call read is that of its key
\* (saga_store.go:65-70, 80-101; order.go:78).
KeyInv ==
  /\ UniqueKeys /\ RowsAsAsked /\ RunsHaveRequests
  /\ WorkHasRow /\ LateHasRow /\ RecordsAreRows

\* The order is paid and has a driver, and no refund can reach it any more.
Kept(o) ==
  /\ HasRow(o)
  /\ payments[o] = "charged"
  /\ assignments[o] # None
  /\ <<"refund", o>> \notin late
  /\ pc[o] \in {"assignSucceeded", "markSucceeded", "returned", "crashed"}

PaidBeforeAssign ==
  \A o \in Calls :
    pc[o] \in {"chargeSucceeded", "assignStarted", "assign"}
      => payments[o] = "charged"

NoRefundYet ==
  \A o \in Calls :
    pc[o] \in {"idle", "insert", "select", "answer", "chargeStarted", "charge",
              "chargeSucceeded", "assignStarted", "assign"}
      => <<"refund", o>> \notin late

SaysSucceeded(o) ==
  \/ pc[o] \in {"assignSucceeded", "markSucceeded"}
  \/ <<"markSucceeded", o>> \in late
  \/ HasRow(o) /\ sagas[o].status = "succeeded"
  \/ \E c \in Calls : /\ pc[c] = "answer"
                      /\ record[c].order = o /\ record[c].status = "succeeded"

SaysRefunded(o) ==
  \/ pc[o] \in {"refundSucceeded", "markRefunded"}
  \/ <<"markRefunded", o>> \in late
  \/ HasRow(o) /\ sagas[o].status = "refunded"

OkIsKept ==
  \A c \in Calls : reply[c].code = "ok" =>
    /\ pc[c] = "returned"
    /\ \E o \in Calls : /\ reply[c].order = o
                        /\ Kept(o)
                        /\ sagas[o].key = req[c].key
                        /\ sagas[o].payload = req[c].payload

\* Whatever says that an order succeeded - a call about to say so, a status,
\* a late update of it, a row that was read, a reply - speaks of an order
\* that is kept; whatever says that it was refunded, of one that was
\* (order.go:91-110).
OutcomeInv ==
  /\ PaidBeforeAssign /\ NoRefundYet
  /\ \A o \in Calls : SaysSucceeded(o) => Kept(o)
  /\ \A o \in Calls : SaysRefunded(o) => payments[o] = "refunded"
  /\ OkIsKept

\* What the safety of an order rests on (order.go:63-111).
OrderInv == KeyInv /\ OutcomeInv
=============================================================================
