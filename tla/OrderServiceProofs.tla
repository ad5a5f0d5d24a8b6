------------------------- MODULE OrderServiceProofs -------------------------
(***************************************************************************)
(* What holds of OrderService for every set of calls, keys and payloads,   *)
(* every fault, any number of attempts, with cancellation and crashes.     *)
(***************************************************************************)
EXTENDS OrderService, TLAPS

(***************************************************************************)
(* Types.                                                                  *)
(***************************************************************************)

\* The script of order.go only names labels that exist (order.go:85-110).
LEMMA LabelFacts ==
  /\ \A l \in LogLabels : AfterLog[l] \in Labels /\ l \in WriteLabels
  /\ \A l \in ClientLabels : /\ OnError[l] \in Labels /\ OnSuccess[l] \in Labels
                             /\ l \in WriteLabels
  /\ \A l \in MarkLabels : FinalStatus[l] \in Statuses /\ l \in WriteLabels
  /\ Labels \subseteq Running /\ Running \subseteq PCs
  /\ WriteLabels \subseteq Labels /\ "answer" \in PCs
  /\ "returned" \in PCs /\ "crashed" \in PCs /\ "idle" \in PCs
  /\ "select" \in PCs /\ "insert" \in PCs /\ "chargeStarted" \in PCs
  /\ "insert" \in WriteLabels
  /\ "insert" \notin LogLabels \cup ClientLabels \cup MarkLabels
  BY DEF LogLabels, ClientLabels, MarkLabels, WriteLabels, Labels, Running, PCs,
         StepRow, FinalStatus, AfterLog, OnSuccess, OnError, Statuses

\* At least one attempt is made, whatever the configuration says
\* (reliability.go:30-33).
LEMMA AttemptsPositive == Attempts \in Nat /\ Attempts >= 1
  BY ConstantsAssumption DEF Attempts

\* A saga inserted or updated keeps the table well-typed.
LEMMA LandType ==
  ASSUME TypeOK, NEW c \in Calls, NEW l \in WriteLabels, Land(l, c),
         l = "insert" => req[c] \in Request
  PROVE  /\ sagas' \in [Calls -> SagaRow \cup {None}]
         /\ steps' \in [Calls -> SUBSET {StepRow[x] : x \in LogLabels}]
         /\ payments' \in [Calls -> {"none", "charged", "refunded"}]
         /\ assignments' \in [Calls -> Calls \cup {None}]
<1> USE DEF TypeOK
<1>1. CASE l = "insert" /\ InsertSaga(c)
  <2>1. [key |-> req[c].key, payload |-> req[c].payload, status |-> "started"]
           \in SagaRow
    BY <1>1 DEF Request, SagaRow, Statuses
  <2> QED BY <1>1, <2>1 DEF InsertSaga
<1>2. CASE l = "charge" /\ InsertPayment(c)
  BY <1>2 DEF InsertPayment
<1>3. CASE l = "assign" /\ InsertAssignment(c)
  BY <1>3 DEF InsertAssignment
<1>4. CASE l = "refund" /\ UpdatePayment(c)
  BY <1>4 DEF UpdatePayment
<1>5. CASE l \in LogLabels /\ AddStep(c, StepRow[l])
  BY <1>5 DEF AddStep
<1>6. CASE l \in MarkLabels /\ UpdateStatus(c, FinalStatus[l])
  <2>1. FinalStatus[l] \in Statuses
    BY <1>6, LabelFacts
  <2>2. sagas[c] # None => [sagas[c] EXCEPT !.status = FinalStatus[l]] \in SagaRow
    BY <2>1 DEF SagaRow
  <2> QED BY <1>6, <2>2 DEF UpdateStatus
<1> QED BY <1>1, <1>2, <1>3, <1>4, <1>5, <1>6 DEF Land

\* A statement that succeeds or errs keeps the tables and late well-typed.
LEMMA StatementType ==
  ASSUME TypeOK, NEW c \in Calls, NEW l \in WriteLabels,
         Succeeds(l, c) \/ Errs(l, c),
         l = "insert" => req[c] \in Request
  PROVE  /\ sagas' \in [Calls -> SagaRow \cup {None}]
         /\ steps' \in [Calls -> SUBSET {StepRow[x] : x \in LogLabels}]
         /\ payments' \in [Calls -> {"none", "charged", "refunded"}]
         /\ assignments' \in [Calls -> Calls \cup {None}]
         /\ late' \subseteq WriteLabels \X Calls
<1>1. CASE Land(l, c) /\ UNCHANGED late
  BY <1>1, LandType DEF TypeOK
<1>2. CASE late' \in {late, late \cup {<<l, c>>}} /\ UNCHANGED tables
  BY <1>2 DEF TypeOK, tables
<1> QED BY <1>1, <1>2 DEF Succeeds, Errs

\* The empty tables and the idle calls are well-typed.
LEMMA InitType == Init => TypeOK
  BY AttemptsPositive, LabelFacts
  DEF Init, TypeOK, Codes

\* No step of the script, of its clients, of the database or of a crash
\* leaves the types (order.go:63-111, reliability.go:25-78).
LEMMA NextType == TypeOK /\ KeyInv /\ [Next]_vars => TypeOK'
<1> SUFFICES ASSUME TypeOK, KeyInv, [Next]_vars PROVE TypeOK'
  OBVIOUS
<1> USE DEF TypeOK
<1>1. ASSUME NEW c \in Calls, Receive(c) PROVE TypeOK'
  BY <1>1, LabelFacts DEF Receive, Goto, tables
<1>2. ASSUME NEW c \in Calls, RefuseEmptyKey(c) PROVE TypeOK'
  BY <1>2, LabelFacts DEF RefuseEmptyKey, Return, Goto, tables, Codes
<1>3. ASSUME NEW c \in Calls, StartInsert(c) PROVE TypeOK'
  <2>1. req[c] \in Request
    BY <1>3, LabelFacts DEF KeyInv, RunsHaveRequests, StartInsert, Labels
  <2>2. /\ sagas' \in [Calls -> SagaRow \cup {None}]
        /\ steps' \in [Calls -> SUBSET {StepRow[x] : x \in LogLabels}]
        /\ payments' \in [Calls -> {"none", "charged", "refunded"}]
        /\ assignments' \in [Calls -> Calls \cup {None}]
        /\ late' \subseteq WriteLabels \X Calls
    BY <1>3, <2>1, LabelFacts, StatementType DEF StartInsert
  <2>3. /\ pc' \in [Calls -> PCs]
        /\ reply' \in [Calls -> [code : Codes, order : Calls \cup {None}]]
    BY <1>3, LabelFacts DEF StartInsert, Return, Goto, Codes
  <2>4. inserted' \subseteq Calls /\ UNCHANGED <<req, ctxDone, tries, record>>
    BY <1>3 DEF StartInsert
  <2> QED BY <2>2, <2>3, <2>4
<1>4. ASSUME NEW c \in Calls, StartSelect(c) PROVE TypeOK'
  <2>1. ASSUME NEW o \in Calls, sagas[o] # None
        PROVE  [order |-> o, payload |-> sagas[o].payload, status |-> sagas[o].status]
                 \in Record
    BY <2>1 DEF SagaRow, Record
  <2>2. record' \in [Calls -> Record \cup {None}]
    BY <1>4, <2>1 DEF StartSelect
  <2>3. /\ pc' \in [Calls -> PCs]
        /\ reply' \in [Calls -> [code : Codes, order : Calls \cup {None}]]
    BY <1>4, LabelFacts DEF StartSelect, Return, Goto, Codes
  <2> QED BY <1>4, <2>2, <2>3 DEF StartSelect, tables
<1>7. ASSUME NEW c \in Calls, Answer(c) PROVE TypeOK'
  <2>1. record[c] \in Record
    BY <1>7 DEF Answer, KeyInv, RecordsAreRows, ReadsRow
  <2>2. /\ pc' \in [Calls -> PCs]
        /\ reply' \in [Calls -> [code : Codes, order : Calls \cup {None}]]
    BY <1>7, <2>1, LabelFacts DEF Answer, Return, Goto, Codes, Record
  <2> QED BY <1>7, <2>2 DEF Answer, tables
<1>5. ASSUME NEW c \in Calls, Log(c) \/ AttemptSucceeds(c) \/ AttemptErrs(c) \/ Mark(c)
      PROVE  TypeOK'
  <2>1. pc[c] \in WriteLabels /\ pc[c] # "insert"
    BY <1>5, LabelFacts DEF Log, AttemptSucceeds, AttemptErrs, Mark
  <2>2. \/ Succeeds(pc[c], c) \/ Errs(pc[c], c)
        \/ UNCHANGED <<tables, late>>
    BY <1>5 DEF Log, AttemptSucceeds, AttemptErrs, Mark
  <2>3. /\ sagas' \in [Calls -> SagaRow \cup {None}]
        /\ steps' \in [Calls -> SUBSET {StepRow[x] : x \in LogLabels}]
        /\ payments' \in [Calls -> {"none", "charged", "refunded"}]
        /\ assignments' \in [Calls -> Calls \cup {None}]
        /\ late' \subseteq WriteLabels \X Calls
    <3>1. CASE Succeeds(pc[c], c) \/ Errs(pc[c], c)
      BY <3>1, <2>1, StatementType
    <3>2. CASE UNCHANGED <<tables, late>>
      BY <3>2 DEF tables
    <3> QED BY <2>2, <3>1, <3>2
  <2>4. /\ req' = req /\ ctxDone' = ctxDone /\ inserted' = inserted
        /\ record' = record
        /\ pc' \in [Calls -> PCs]
        /\ tries' \in [Calls -> 0 .. Attempts - 1]
        /\ reply' \in [Calls -> [code : Codes, order : Calls \cup {None}]]
    <3>1. CASE Log(c)
      BY <3>1, LabelFacts DEF Log, Goto
    <3>2. CASE AttemptSucceeds(c)
      BY <3>2, LabelFacts, AttemptsPositive DEF AttemptSucceeds, Goto
    <3>3. CASE AttemptErrs(c)
      <4>1. pc' \in [Calls -> PCs] /\ tries' \in [Calls -> 0 .. Attempts - 1]
        <5>1. CASE LastAttempt(c) /\ Goto(c, OnError[pc[c]])
          BY <3>3, <5>1, LabelFacts, AttemptsPositive DEF AttemptErrs, Goto, LastAttempt
        <5>2. CASE ~LastAttempt(c) /\ UNCHANGED pc
          BY <3>3, <5>2, AttemptsPositive DEF AttemptErrs, LastAttempt
        <5> QED BY <3>3, <5>1, <5>2 DEF AttemptErrs
      <4> QED BY <3>3, <4>1 DEF AttemptErrs
    <3>4. CASE Mark(c)
      <4>1. pc' \in [Calls -> PCs]
        BY <3>4, LabelFacts DEF Mark, Return, Goto
      <4>2. reply' \in [Calls -> [code : Codes, order : Calls \cup {None}]]
        BY <3>4 DEF Mark, Return, Codes
      <4> QED BY <3>4, <4>1, <4>2 DEF Mark
    <3> QED BY <1>5, <3>1, <3>2, <3>3, <3>4
  <2> QED BY <2>3, <2>4
<1>6. ASSUME NEW c \in Calls, GiveUp(c) PROVE TypeOK'
  BY <1>6, LabelFacts, AttemptsPositive DEF GiveUp, Goto, tables
<1>10. ASSUME NEW c \in Calls, Cancel(c) PROVE TypeOK'
  BY <1>10 DEF Cancel, tables
<1>11. ASSUME NEW c \in Calls, NEW l \in WriteLabels, LandLate(l, c) PROVE TypeOK'
  <2>1. req[c] \in Request
    BY <1>11 DEF KeyInv, LateHasRow, LandLate
  <2>2. /\ sagas' \in [Calls -> SagaRow \cup {None}]
        /\ steps' \in [Calls -> SUBSET {StepRow[x] : x \in LogLabels}]
        /\ payments' \in [Calls -> {"none", "charged", "refunded"}]
        /\ assignments' \in [Calls -> Calls \cup {None}]
    BY <1>11, <2>1, LandType DEF LandLate
  <2> QED BY <1>11, <2>2 DEF LandLate, callVars
<1>12. CASE Crash
  BY <1>12, LabelFacts DEF Crash, tables
<1>13. CASE UNCHANGED vars
  BY <1>13 DEF vars, callVars, tables
<1> QED
  BY <1>1, <1>2, <1>3, <1>4, <1>5, <1>6, <1>7, <1>10, <1>11, <1>12, <1>13
  DEF Next, Step, Finished

(***************************************************************************)
(* One charge per key.                                                     *)
(***************************************************************************)

\* What a statement that reaches the tables may do to rows and payments.
LEMMA LandRows ==
  ASSUME TypeOK, RowsAsAsked, NEW c \in Calls, NEW l \in WriteLabels, Land(l, c),
         l = "insert" => req[c] \in Request
  PROVE  /\ \A o \in Calls : HasRow(o) =>
              /\ HasRow(o)'
              /\ sagas'[o].key = sagas[o].key
              /\ sagas'[o].payload = sagas[o].payload
         /\ \A o \in Calls : HasRow(o)' /\ ~HasRow(o) =>
              /\ o = c /\ l = "insert" /\ ~KeyTaken(req[c].key)
              /\ sagas'[o].key = req[c].key
              /\ sagas'[o].payload = req[c].payload
         /\ l = "insert" /\ ~KeyTaken(req[c].key) => HasRow(c)'
         /\ \A o \in Calls :
              payments[o] = "none" /\ payments'[o] # "none" => o = c /\ l = "charge"
<1> USE DEF HasRow
<1>1. CASE l = "insert" /\ InsertSaga(c)
  <2> DEFINE row == [key |-> req[c].key, payload |-> req[c].payload, status |-> "started"]
  <2>1. row \in SagaRow /\ row # None
    BY <1>1, ConstantsAssumption DEF Request, SagaRow, Statuses
  <2>2. row.key = req[c].key /\ row.payload = req[c].payload
    OBVIOUS
  <2> HIDE DEF row
  <2>3. sagas' = IF KeyTaken(req[c].key) THEN sagas ELSE [sagas EXCEPT ![c] = row]
    BY <1>1 DEF InsertSaga, row
  <2>4. payments' = payments
    BY <1>1 DEF InsertSaga
  <2>5. CASE KeyTaken(req[c].key)
    BY <2>3, <2>4, <2>5
  <2>6. CASE ~KeyTaken(req[c].key)
    <3>1. ~HasRow(c)
      BY <2>6 DEF KeyTaken, RowsAsAsked
    <3>2. sagas'[c] = row /\ \A o \in Calls : o # c => sagas'[o] = sagas[o]
      BY <2>3, <2>6 DEF TypeOK
    <3> QED BY <1>1, <2>1, <2>2, <2>4, <2>6, <3>1, <3>2
  <2> QED BY <2>5, <2>6
<1>2. CASE l # "insert" /\ l # "charge" /\ UNCHANGED <<sagas, payments>>
  BY <1>2
<1>3. CASE l = "charge" /\ InsertPayment(c)
  BY <1>3 DEF InsertPayment, TypeOK
<1>4. CASE l = "refund" /\ UpdatePayment(c)
  BY <1>4 DEF UpdatePayment, TypeOK
<1>5. CASE l \in MarkLabels /\ UpdateStatus(c, FinalStatus[l])
  <2>1. l # "insert" /\ l # "charge"
    BY <1>5 DEF MarkLabels, FinalStatus
  <2>2. payments' = payments
    BY <1>5 DEF UpdateStatus
  <2>3. CASE sagas[c] = None
    BY <1>5, <2>1, <2>2, <2>3 DEF UpdateStatus
  <2>4. CASE sagas[c] # None
    <3> DEFINE row == [sagas[c] EXCEPT !.status = FinalStatus[l]]
    <3>1. sagas[c] \in SagaRow /\ FinalStatus[l] \in Statuses
      BY <1>5, <2>4, LabelFacts DEF TypeOK
    <3>2. row \in SagaRow /\ row.key = sagas[c].key /\ row.payload = sagas[c].payload
      BY <3>1 DEF SagaRow
    <3>3. row # None
      BY <3>2, ConstantsAssumption
    <3>4. sagas' = [sagas EXCEPT ![c] = row]
      BY <1>5, <2>4 DEF UpdateStatus
    <3> HIDE DEF row
    <3> QED BY <2>1, <2>2, <2>4, <3>2, <3>3, <3>4 DEF TypeOK
  <2> QED BY <2>3, <2>4
<1>6. l \in LogLabels => l # "insert" /\ l # "charge"
  BY DEF LogLabels, StepRow
<1> QED
  BY <1>1, <1>2, <1>3, <1>4, <1>5, <1>6 DEF Land, AddStep, InsertAssignment

\* Such a statement, or one that is only on its way, keeps a key's row
\* unique and gives no payment to an order without a row.
LEMMA StatementKey ==
  ASSUME TypeOK, KeyInv, NEW c \in Calls, NEW l \in WriteLabels,
         \/ Land(l, c) /\ late' \subseteq late
         \/ UNCHANGED tables /\ late' \subseteq late \cup {<<l, c>>},
         req' = req, req[c] \in Request, pc[c] # "idle",
         l # "insert" => HasRow(c),
         \A o \in Calls : pc[o] # "idle" => pc'[o] # "idle",
         record' = record, \A o \in Calls : pc'[o] = "answer" => pc[o] = "answer"
  PROVE  /\ UniqueKeys' /\ RowsAsAsked' /\ LateHasRow' /\ RecordsAreRows'
         /\ \A o \in Calls : HasRow(o) => HasRow(o)'
         /\ \A o \in Calls : payments'[o] # "none" => HasRow(o)'
         /\ Land(l, c) /\ l = "insert" /\ ~KeyTaken(req[c].key) => HasRow(c)'
<1>1. /\ \A o \in Calls : HasRow(o) =>
           /\ HasRow(o)'
           /\ sagas'[o].key = sagas[o].key
           /\ sagas'[o].payload = sagas[o].payload
      /\ \A o \in Calls : HasRow(o)' /\ ~HasRow(o) =>
           /\ o = c /\ l = "insert" /\ ~KeyTaken(req[c].key)
           /\ sagas'[o].key = req[c].key
           /\ sagas'[o].payload = req[c].payload
      /\ Land(l, c) /\ l = "insert" /\ ~KeyTaken(req[c].key) => HasRow(c)'
      /\ \A o \in Calls :
           payments[o] = "none" /\ payments'[o] # "none" => o = c /\ l = "charge"
  <2>1. CASE Land(l, c)
    BY <2>1, LandRows DEF KeyInv
  <2>2. CASE ~Land(l, c) /\ UNCHANGED tables
    BY <2>2 DEF tables, HasRow
  <2> QED BY <2>1, <2>2
<1>2. UniqueKeys'
  <2> SUFFICES ASSUME NEW o \in Calls, NEW p \in Calls,
                      HasRow(o)', HasRow(p)', sagas'[o].key = sagas'[p].key
               PROVE  o = p
    BY DEF UniqueKeys
  <2>1. CASE HasRow(o) /\ HasRow(p)
    BY <1>1, <2>1 DEF KeyInv, UniqueKeys
  <2>2. CASE ~HasRow(o) /\ HasRow(p)
    BY <1>1, <2>2 DEF KeyTaken, HasRow
  <2>3. CASE HasRow(o) /\ ~HasRow(p)
    BY <1>1, <2>3 DEF KeyTaken, HasRow
  <2>4. CASE ~HasRow(o) /\ ~HasRow(p)
    BY <1>1, <2>4
  <2> QED BY <2>1, <2>2, <2>3, <2>4
<1>3. RowsAsAsked'
  BY <1>1, ConstantsAssumption DEF KeyInv, RowsAsAsked
<1>4. LateHasRow'
  <2>1. late' \subseteq late \cup {<<l, c>>}
    OBVIOUS
  <2>2. ASSUME NEW x \in WriteLabels, NEW o \in Calls, <<x, o>> \in late'
        PROVE  pc'[o] # "idle" /\ req[o] # None /\ (x # "insert" => HasRow(o)')
    <3>1. CASE <<x, o>> \in late
      BY <1>1, <3>1 DEF KeyInv, LateHasRow
    <3>2. CASE x = l /\ o = c
      BY <1>1, <3>2, ConstantsAssumption
    <3> QED BY <2>1, <2>2, <3>1, <3>2
  <2> QED BY <2>2 DEF LateHasRow
<1>5. \A o \in Calls : payments'[o] # "none" => HasRow(o)'
  BY <1>1 DEF KeyInv, WorkHasRow
<1>6. RecordsAreRows'
  <2> SUFFICES ASSUME NEW o \in Calls, pc[o] = "answer" PROVE ReadsRow(o)'
    BY DEF RecordsAreRows
  <2>1. ReadsRow(o)
    BY DEF KeyInv, RecordsAreRows
  <2>2. record[o].order \in Calls
    BY <2>1 DEF ReadsRow, Record
  <2> QED BY <1>1, <2>1, <2>2 DEF ReadsRow
<1> QED BY <1>1, <1>2, <1>3, <1>4, <1>5, <1>6

\* The script only leads from one of its labels to another (order.go:85-110).
LEMMA ScriptFacts ==
  /\ \A l \in LogLabels : AfterLog[l] \in ScriptLabels
  /\ \A l \in ClientLabels : OnError[l] \in ScriptLabels /\ OnSuccess[l] \in ScriptLabels
  /\ ScriptLabels \subseteq Labels /\ ScriptLabels \subseteq WriteLabels
  /\ "insert" \in Labels \ ScriptLabels /\ "select" \in Labels \ ScriptLabels
  /\ "chargeStarted" \in ScriptLabels
  /\ "answer" \notin Labels /\ Labels \subseteq Running /\ "answer" \in Running
  /\ "idle" \notin Running /\ "returned" \notin Running /\ "crashed" \notin Running
  BY DEF LogLabels, ClientLabels, MarkLabels, WriteLabels, Labels, Running, ScriptLabels,
         StepRow, FinalStatus, AfterLog, OnSuccess, OnError

\* No row, no work and no late statement at first.
LEMMA InitKey == Init => KeyInv
  BY ScriptFacts DEF Init, KeyInv, UniqueKeys, RowsAsAsked, RunsHaveRequests,
     WorkHasRow, LateHasRow, RecordsAreRows, HasRow

\* A step of the script: a statement of an order with a row, and a move to
\* another label of the script or to the end.
LEMMA ScriptKey ==
  ASSUME TypeOK, KeyInv, NEW c \in Calls,
         Log(c) \/ AttemptSucceeds(c) \/ AttemptErrs(c) \/ Mark(c)
  PROVE  KeyInv'
<1>1. /\ pc[c] \in ScriptLabels /\ HasRow(c) /\ req[c] \in Request
      /\ req' = req /\ inserted' = inserted /\ record' = record
  <2>1. /\ pc[c] \in ScriptLabels
        /\ req' = req /\ inserted' = inserted /\ record' = record
    BY DEF Log, AttemptSucceeds, AttemptErrs, Mark, ScriptLabels
  <2>2. HasRow(c)
    BY <2>1 DEF KeyInv, WorkHasRow
  <2>3. req[c] \in Request
    BY <2>1, ScriptFacts DEF KeyInv, RunsHaveRequests, TypeOK
  <2> QED BY <2>1, <2>2, <2>3
<1>2. \E l \in ScriptLabels \cup {"returned"} : pc' = [pc EXCEPT ![c] = l]
  <2>1. CASE Log(c)
    BY <2>1, ScriptFacts DEF Log, Goto
  <2>2. CASE AttemptSucceeds(c)
    BY <2>2, ScriptFacts DEF AttemptSucceeds, Goto
  <2>3. CASE AttemptErrs(c) /\ pc' = pc
    BY <2>3, <1>1 DEF TypeOK
  <2>4. CASE AttemptErrs(c) /\ pc' # pc
    BY <2>4, ScriptFacts DEF AttemptErrs, Goto
  <2>5. CASE Mark(c)
    BY <2>5 DEF Mark, Return, Goto
  <2> QED BY <2>1, <2>2, <2>3, <2>4, <2>5
<1>3. \/ Land(pc[c], c) /\ late' \subseteq late
      \/ UNCHANGED tables /\ late' \subseteq late \cup {<<pc[c], c>>}
  <2>1. \/ Succeeds(pc[c], c) \/ Errs(pc[c], c)
        \/ UNCHANGED <<tables, late>>
    BY DEF Log, AttemptSucceeds, AttemptErrs, Mark
  <2> QED BY <2>1 DEF Succeeds, Errs
<1>4. /\ \A o \in Calls : pc[o] # "idle" => pc'[o] # "idle"
      /\ \A o \in Calls : pc'[o] = "answer" => pc[o] = "answer"
  BY <1>2, ScriptFacts DEF TypeOK
<1>5. /\ UniqueKeys' /\ RowsAsAsked' /\ LateHasRow' /\ RecordsAreRows'
      /\ \A o \in Calls : HasRow(o) => HasRow(o)'
      /\ \A o \in Calls : payments'[o] # "none" => HasRow(o)'
  <2>1. pc[c] \in WriteLabels /\ pc[c] # "idle"
    BY <1>1, ScriptFacts
  <2> QED BY <1>1, <1>3, <1>4, <2>1, StatementKey
<1>6. RunsHaveRequests'
  BY <1>1, <1>2, ScriptFacts, ConstantsAssumption
  DEF KeyInv, RunsHaveRequests, TypeOK
<1>7. WorkHasRow'
  BY <1>1, <1>2, <1>5, ScriptFacts DEF KeyInv, WorkHasRow, TypeOK
<1> QED BY <1>5, <1>6, <1>7 DEF KeyInv

\* The same of the INSERT of Start: inserted says that a row was written.
LEMMA InsertKey ==
  ASSUME TypeOK, KeyInv, NEW c \in Calls, StartInsert(c)
  PROVE  KeyInv'
<1>1. /\ pc[c] = "insert" /\ req[c] \in Request /\ req' = req /\ record' = record
      /\ \E l \in {"select", "returned"} : pc' = [pc EXCEPT ![c] = l]
  BY ScriptFacts
  DEF StartInsert, Return, Goto, KeyInv, RunsHaveRequests, TypeOK
<1>2. \/ Land("insert", c) /\ late' \subseteq late
      \/ UNCHANGED tables /\ late' \subseteq late \cup {<<"insert", c>>}
  BY DEF StartInsert, Succeeds, Errs
<1>3. /\ \A o \in Calls : pc[o] # "idle" => pc'[o] # "idle"
      /\ \A o \in Calls : pc'[o] = "answer" => pc[o] = "answer"
  BY <1>1 DEF TypeOK
<1>4. /\ UniqueKeys' /\ RowsAsAsked' /\ LateHasRow' /\ RecordsAreRows'
      /\ \A o \in Calls : HasRow(o) => HasRow(o)'
      /\ \A o \in Calls : payments'[o] # "none" => HasRow(o)'
      /\ Land("insert", c) /\ ~KeyTaken(req[c].key) => HasRow(c)'
  BY <1>1, <1>2, <1>3, LabelFacts, StatementKey
<1>5. inserted' = inserted \/ (inserted' = inserted \cup {c} /\ HasRow(c)')
  <2>1. CASE inserted' = inserted
    BY <2>1
  <2>2. CASE Succeeds("insert", c) /\ ~KeyTaken(req[c].key)
    <3>1. HasRow(c)'
      BY <1>4, <2>2 DEF Succeeds
    <3>2. inserted' = inserted \cup {c} \/ inserted' = inserted
      BY <2>2 DEF StartInsert
    <3> QED BY <3>1, <3>2
  <2>3. inserted' = inserted \/ (Succeeds("insert", c) /\ ~KeyTaken(req[c].key))
    BY DEF StartInsert
  <2> QED BY <2>1, <2>2, <2>3
<1>6. RunsHaveRequests'
  BY <1>1, ScriptFacts, ConstantsAssumption DEF KeyInv, RunsHaveRequests, TypeOK
<1>7. WorkHasRow'
  BY <1>1, <1>4, <1>5, ScriptFacts DEF KeyInv, WorkHasRow, TypeOK
<1> QED BY <1>4, <1>6, <1>7 DEF KeyInv

\* Every step keeps the rows of keys unique and ahead of the work done.
LEMMA NextKey == TypeOK /\ KeyInv /\ [Next]_vars => KeyInv'
<1> SUFFICES ASSUME TypeOK, KeyInv, [Next]_vars PROVE KeyInv'
  OBVIOUS
<1> USE DEF KeyInv, UniqueKeys, RowsAsAsked, RunsHaveRequests, WorkHasRow,
            LateHasRow, RecordsAreRows, ReadsRow, HasRow
<1>1. ASSUME NEW c \in Calls, Receive(c) PROVE KeyInv'
  BY <1>1, ScriptFacts, ConstantsAssumption DEF Receive, Goto, tables, TypeOK
<1>2. ASSUME NEW c \in Calls, RefuseEmptyKey(c) PROVE KeyInv'
  BY <1>2, ScriptFacts DEF RefuseEmptyKey, Return, Goto, tables, TypeOK
<1>3. ASSUME NEW c \in Calls, StartInsert(c) PROVE KeyInv'
  BY <1>3, InsertKey
<1>4. ASSUME NEW c \in Calls, StartSelect(c) PROVE KeyInv'
  <2>1. /\ UNCHANGED <<req, inserted, sagas, payments, late>>
        /\ pc[c] = "select" /\ req[c] # None
    BY <1>4, ScriptFacts DEF StartSelect, tables
  <2>2. \E l \in {"returned", "answer"} : pc' = [pc EXCEPT ![c] = l]
    BY <1>4 DEF StartSelect, Return, Goto
  <2>3. UniqueKeys' /\ RowsAsAsked' /\ LateHasRow'
    BY <2>1, <2>2 DEF TypeOK
  <2>4. RunsHaveRequests' /\ WorkHasRow'
    BY <2>1, <2>2, ScriptFacts DEF TypeOK
  <2>5. ASSUME NEW d \in Calls, d # c, pc'[d] = "answer" PROVE ReadsRow(d)'
    <3>1. pc[d] = "answer" /\ record'[d] = record[d]
      BY <1>4, <2>2, <2>5 DEF StartSelect, TypeOK
    <3> QED BY <2>1, <3>1
  <2>6. ASSUME pc'[c] = "answer" PROVE ReadsRow(c)'
    <3>1. c \notin ctxDone /\ pc' # [pc EXCEPT ![c] = "returned"]
      BY <1>4, <2>6 DEF StartSelect, Return, Goto, TypeOK
    <3>2. PICK o \in Calls :
            /\ sagas[o] # None /\ sagas[o].key = req[c].key
            /\ record' = [record EXCEPT ![c] = [order   |-> o,
                                                payload |-> sagas[o].payload,
                                                status  |-> sagas[o].status]]
      BY <1>4, <3>1 DEF StartSelect, Return, Goto
    <3>3. /\ record'[c].order = o /\ record'[c].payload = sagas[o].payload
          /\ record'[c] \in Record
      BY <3>2 DEF TypeOK, SagaRow, Record
    <3> QED BY <2>1, <3>2, <3>3
  <2>7. RecordsAreRows'
    BY <2>5, <2>6
  <2> QED BY <2>3, <2>4, <2>7
<1>11. ASSUME NEW c \in Calls, Answer(c) PROVE KeyInv'
  <2>1. /\ UNCHANGED <<req, inserted, sagas, payments, late>>
        /\ pc[c] = "answer" /\ req[c] # None
        /\ \A d \in Calls : d # c => record'[d] = record[d]
    BY <1>11, ScriptFacts DEF Answer, tables, TypeOK
  <2>2. \/ pc' = [pc EXCEPT ![c] = "returned"]
        \/ pc' = [pc EXCEPT ![c] = "chargeStarted"] /\ HasRow(c)
    BY <1>11 DEF Answer, Created, Return, Goto
  <2>3. UniqueKeys' /\ RowsAsAsked' /\ LateHasRow'
    BY <2>1, <2>2 DEF TypeOK
  <2>4. RunsHaveRequests' /\ WorkHasRow'
    BY <2>1, <2>2, ScriptFacts DEF TypeOK
  <2>5. RecordsAreRows'
    BY <2>1, <2>2 DEF TypeOK
  <2> QED BY <2>3, <2>4, <2>5
<1>5. ASSUME NEW c \in Calls, Log(c) \/ AttemptSucceeds(c) \/ AttemptErrs(c) \/ Mark(c)
      PROVE  KeyInv'
  BY <1>5, ScriptKey
<1>6. ASSUME NEW c \in Calls, GiveUp(c) PROVE KeyInv'
  BY <1>6, ScriptFacts DEF GiveUp, Goto, tables, TypeOK, ScriptLabels
<1>7. ASSUME NEW c \in Calls, Cancel(c) PROVE KeyInv'
  BY <1>7 DEF Cancel, tables
<1>8. ASSUME NEW c \in Calls, NEW l \in WriteLabels, LandLate(l, c) PROVE KeyInv'
  <2>1. /\ req' = req /\ pc' = pc /\ inserted' = inserted
        /\ record' = record /\ Land(l, c) /\ late' \subseteq late
        /\ pc[c] # "idle" /\ req[c] \in Request /\ (l # "insert" => HasRow(c))
    BY <1>8 DEF LandLate, callVars, TypeOK
  <2>2. /\ UniqueKeys' /\ RowsAsAsked' /\ LateHasRow' /\ RecordsAreRows'
        /\ \A o \in Calls : HasRow(o) => HasRow(o)'
        /\ \A o \in Calls : payments'[o] # "none" => HasRow(o)'
    BY <2>1, StatementKey
  <2> QED BY <2>1, <2>2
<1>9. CASE Crash
  BY <1>9, ScriptFacts DEF Crash, tables, TypeOK
<1>10. CASE UNCHANGED vars
  BY <1>10 DEF vars, callVars, tables
<1> QED
  BY <1>1, <1>2, <1>3, <1>4, <1>5, <1>6, <1>7, <1>8, <1>9, <1>10, <1>11
  DEF Next, Step, Finished

\* The variables keep their types: no field, label or row the code does not
\* know ever appears.
THEOREM TypeCorrect == Spec => []TypeOK
  BY InitType, InitKey, NextType, NextKey, PTL DEF Spec

\* A key has one row, the row holds what its call asked for, all work is done
\* for orders with a row, and the row that a call read is that of its key
\* (saga_store.go:65-70, 80-101; order.go:78).
THEOREM KeyCorrect == Spec => []KeyInv
  BY InitType, InitKey, NextType, NextKey, PTL DEF Spec

\* However many calls share a key, and whatever fails, is retried, arrives
\* late or dies, at most one of their orders is charged (order.go:71-86,
\* saga_store.go:65-70, postgres_payment.go:57).
THEOREM ChargedOncePerKey == Spec => []AtMostOneChargePerKey
<1>1. KeyInv => AtMostOneChargePerKey
  BY DEF KeyInv, UniqueKeys, RowsAsAsked, WorkHasRow, AtMostOneChargePerKey
<1> QED BY <1>1, KeyCorrect, PTL
=============================================================================
