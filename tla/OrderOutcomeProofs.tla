------------------------- MODULE OrderOutcomeProofs -------------------------
(***************************************************************************)
(* Replies and statuses tell the truth: whoever is told that an order      *)
(* succeeded has one that is paid and keeps its driver; audit rows are     *)
(* true, and final statuses stay: for every value of the constants of      *)
(* OrderService.                                                           *)
(*                                                                         *)
(* The step lemma is cut in four: what a step does to the tables and to    *)
(* statements under way (Effects), what it reads (Reads), where it moves a *)
(* call (Moves), and what it replies (Replies).                            *)
(***************************************************************************)
EXTENDS OrderServiceProofs

\* What a statement that reaches the tables does to payments, drivers and
\* statuses.
LEMMA LandOutcome ==
  ASSUME TypeOK, KeyInv, NEW c \in Calls, NEW l \in WriteLabels, Land(l, c),
         req[c] \in Request
  PROVE  /\ \A o \in Calls : o # c => /\ sagas'[o] = sagas[o]
                                      /\ payments'[o] = payments[o]
                                      /\ assignments'[o] = assignments[o]
         /\ payments[c] = "refunded" => payments'[c] = "refunded"
         /\ payments[c] = "charged" /\ l # "refund" => payments'[c] = "charged"
         /\ payments[c] = "none" /\ l = "charge" => payments'[c] = "charged"
         /\ payments[c] = "charged" /\ l = "refund" => payments'[c] = "refunded"
         /\ assignments[c] # None => assignments'[c] # None
         /\ l = "assign" /\ HasRow(c) => assignments'[c] # None
         /\ HasRow(c)' /\ l \notin MarkLabels =>
              \/ HasRow(c) /\ sagas'[c].status = sagas[c].status
              \/ sagas'[c].status = "started"
         /\ HasRow(c)' /\ l \in MarkLabels => sagas'[c].status = FinalStatus[l]
<1> USE DEF HasRow, TypeOK
<1>0. /\ {"insert", "charge", "assign", "refund"} \cap LogLabels = {}
      /\ {"insert", "charge", "assign", "refund"} \cap MarkLabels = {}
      /\ LogLabels \cap MarkLabels = {}
  BY DEF LogLabels, MarkLabels, StepRow, FinalStatus
<1>1. CASE l = "insert" /\ InsertSaga(c)
  BY <1>0, <1>1 DEF InsertSaga
<1>2. CASE l = "charge" /\ InsertPayment(c)
  BY <1>0, <1>2 DEF InsertPayment
<1>3. CASE l = "assign" /\ InsertAssignment(c)
  BY <1>0, <1>3, ConstantsAssumption DEF InsertAssignment
<1>4. CASE l = "refund" /\ UpdatePayment(c)
  BY <1>0, <1>4 DEF UpdatePayment
<1>5. CASE l \in LogLabels /\ AddStep(c, StepRow[l])
  BY <1>0, <1>5 DEF AddStep
<1>6. CASE l \in MarkLabels /\ UpdateStatus(c, FinalStatus[l])
  <2>1. sagas[c] # None => sagas[c] \in SagaRow
    OBVIOUS
  <2>2. sagas[c] # None => sagas'[c].status = FinalStatus[l]
    BY <1>6, <2>1 DEF UpdateStatus, SagaRow
  <2> QED BY <1>0, <1>6, <2>2 DEF UpdateStatus
<1> QED BY <1>1, <1>2, <1>3, <1>4, <1>5, <1>6 DEF Land

-----------------------------------------------------------------------------
(***************************************************************************)
(* The tables and the statements under way.                                *)
(***************************************************************************)
Early == {"idle", "insert", "select", "answer", "chargeStarted", "charge",
          "chargeSucceeded", "assignStarted", "assign"}
Final == {"assignSucceeded", "markSucceeded", "returned", "crashed"}

\* A refund of o may still be issued by this very step.
RefundDue(o) == pc[o] = "refund" \/ <<"refund", o>> \in late

Effects ==
  /\ \A o \in Calls : HasRow(o) =>
       /\ HasRow(o)'
       /\ sagas'[o].key = sagas[o].key /\ sagas'[o].payload = sagas[o].payload
  /\ \A o \in Calls : payments[o] = "refunded" => payments'[o] = "refunded"
  /\ \A o \in Calls :
       payments[o] = "charged" /\ ~RefundDue(o) => payments'[o] = "charged"
  /\ \A o \in Calls : assignments[o] # None => assignments'[o] # None
  /\ \A o \in Calls : <<"refund", o>> \in late' => RefundDue(o)
  /\ \A o \in Calls : <<"markSucceeded", o>> \in late' => SaysSucceeded(o)
  /\ \A o \in Calls :
       HasRow(o)' /\ sagas'[o].status = "succeeded" => SaysSucceeded(o)
  /\ \A o \in Calls : <<"markRefunded", o>> \in late' => SaysRefunded(o)
  /\ \A o \in Calls :
       HasRow(o)' /\ sagas'[o].status = "refunded" => SaysRefunded(o)

\* A statement has these effects when it is issued by its own label, or was
\* given up on before.
LEMMA StatementEffects ==
  ASSUME TypeOK, KeyInv, NEW c \in Calls, NEW l \in WriteLabels,
         \/ Land(l, c) /\ late' \subseteq late
         \/ UNCHANGED tables /\ late' \subseteq late \cup {<<l, c>>},
         pc[c] = l \/ <<l, c>> \in late,
         req[c] \in Request
  PROVE  Effects
<1> DEFINE P == \A o \in Calls : HasRow(o) =>
              /\ HasRow(o)'
              /\ sagas'[o].key = sagas[o].key /\ sagas'[o].payload = sagas[o].payload
<1>0. l \in MarkLabels => /\ FinalStatus[l] = "succeeded" => l = "markSucceeded"
                          /\ FinalStatus[l] = "refunded" => l = "markRefunded"
  BY DEF MarkLabels, FinalStatus
<1>1. late' \subseteq late \cup {<<l, c>>}
  OBVIOUS
<1>2. \A o \in Calls : <<"refund", o>> \in late' => RefundDue(o)
  BY <1>1 DEF RefundDue
<1>3. \A o \in Calls : /\ <<"markSucceeded", o>> \in late' => SaysSucceeded(o)
                       /\ <<"markRefunded", o>> \in late' => SaysRefunded(o)
  BY <1>1 DEF SaysSucceeded, SaysRefunded
<1>4. CASE UNCHANGED tables
  BY <1>2, <1>3, <1>4 DEF Effects, tables, HasRow, SaysSucceeded, SaysRefunded
<1>5. CASE Land(l, c)
  <2>1. P
    BY <1>5, LandRows DEF KeyInv
  <2>2. \A o \in Calls : o # c => /\ sagas'[o] = sagas[o]
                                  /\ payments'[o] = payments[o]
                                  /\ assignments'[o] = assignments[o]
    BY <1>5, LandOutcome
  <2>3. /\ payments[c] = "refunded" => payments'[c] = "refunded"
        /\ payments[c] = "charged" /\ l # "refund" => payments'[c] = "charged"
        /\ assignments[c] # None => assignments'[c] # None
    BY <1>5, LandOutcome
  <2>4. /\ HasRow(c)' /\ l \notin MarkLabels =>
             \/ HasRow(c) /\ sagas'[c].status = sagas[c].status
             \/ sagas'[c].status = "started"
        /\ HasRow(c)' /\ l \in MarkLabels => sagas'[c].status = FinalStatus[l]
    BY <1>5, LandOutcome
  <2>5. l = "refund" => RefundDue(c)
    BY DEF RefundDue
  <2>6. ASSUME NEW o \in Calls, HasRow(o)', sagas'[o].status = "succeeded"
        PROVE  SaysSucceeded(o)
    <3>1. CASE o # c
      BY <2>2, <2>6, <3>1 DEF HasRow, SaysSucceeded
    <3>2. CASE o = c
      BY <1>0, <2>4, <2>6, <3>2 DEF SaysSucceeded
    <3> QED BY <3>1, <3>2
  <2>7. ASSUME NEW o \in Calls, HasRow(o)', sagas'[o].status = "refunded"
        PROVE  SaysRefunded(o)
    <3>1. CASE o # c
      BY <2>2, <2>7, <3>1 DEF HasRow, SaysRefunded
    <3>2. CASE o = c
      BY <1>0, <2>4, <2>7, <3>2 DEF SaysRefunded
    <3> QED BY <3>1, <3>2
  <2> QED BY <1>2, <1>3, <2>1, <2>2, <2>3, <2>5, <2>6, <2>7 DEF Effects
<1> QED BY <1>4, <1>5

\* A step that touches neither the tables nor late has no such effect.
LEMMA QuietEffects == UNCHANGED <<tables, late>> => Effects
  BY DEF Effects, tables, HasRow, RefundDue, SaysSucceeded, SaysRefunded

\* Every step has these effects.
LEMMA NextEffects == TypeOK /\ KeyInv /\ [Next]_vars => Effects
<1> SUFFICES ASSUME TypeOK, KeyInv, [Next]_vars PROVE Effects
  OBVIOUS
<1>1. ASSUME NEW c \in Calls, StartInsert(c) \/ Log(c) \/ AttemptSucceeds(c)
                              \/ AttemptErrs(c) \/ Mark(c)
      PROVE  Effects
  <2>1. pc[c] \in WriteLabels /\ req[c] \in Request
    BY <1>1, LabelFacts, ScriptFacts
    DEF StartInsert, Log, AttemptSucceeds, AttemptErrs, Mark, KeyInv,
        RunsHaveRequests, TypeOK
  <2>2. \/ Succeeds(pc[c], c) \/ Errs(pc[c], c)
        \/ UNCHANGED <<tables, late>>
    BY <1>1 DEF StartInsert, Log, AttemptSucceeds, AttemptErrs, Mark
  <2>3. \/ Land(pc[c], c) /\ late' \subseteq late
        \/ UNCHANGED tables /\ late' \subseteq late \cup {<<pc[c], c>>}
    BY <2>2 DEF Succeeds, Errs
  <2> QED BY <2>1, <2>3, StatementEffects
<1>2. ASSUME NEW c \in Calls, NEW l \in WriteLabels, LandLate(l, c) PROVE Effects
  <2>1. Land(l, c) /\ late' \subseteq late /\ <<l, c>> \in late
    BY <1>2 DEF LandLate
  <2>2. req[c] \in Request
    BY <2>1 DEF KeyInv, LateHasRow, TypeOK
  <2> QED BY <2>1, <2>2, StatementEffects
<1>3. ASSUME NEW c \in Calls, Receive(c) \/ RefuseEmptyKey(c) \/ StartSelect(c)
                              \/ Answer(c) \/ GiveUp(c) \/ Cancel(c)
      PROVE  Effects
  BY <1>3, QuietEffects
  DEF Receive, RefuseEmptyKey, StartSelect, Answer, GiveUp, Cancel
<1>4. CASE Crash \/ UNCHANGED vars
  BY <1>4, QuietEffects DEF Crash, vars
<1> QED BY <1>1, <1>2, <1>3, <1>4 DEF Next, Step, Finished

-----------------------------------------------------------------------------
(***************************************************************************)
(* The rows that calls read.                                               *)
(***************************************************************************)
\* A call that waits to answer from a row has read it before, or reads one of
\* its key now (saga_store.go:80-95, order.go:78).
LEMMA AnswersRead ==
  ASSUME TypeOK, [Next]_vars, NEW c \in Calls, pc'[c] = "answer"
  PROVE  /\ req'[c] = req[c]
         /\ \/ pc[c] = "answer" /\ record'[c] = record[c]
            \/ \E o \in Calls : /\ HasRow(o) /\ sagas[o].key = req[c].key
                               /\ record'[c].order = o
                               /\ record'[c].status = sagas[o].status
<1> USE DEF TypeOK
<1> DEFINE Stay == req'[c] = req[c] /\ pc[c] = "answer" /\ record'[c] = record[c]
<1>1. ASSUME NEW d \in Calls, NEW q, pc' = [pc EXCEPT ![d] = q], q # "answer"
      PROVE  d # c /\ pc[c] = "answer"
  BY <1>1
<1>2. CASE StartSelect(c)
  <2>1. \E o \in Calls :
          /\ sagas[o] # None /\ sagas[o].key = req[c].key
          /\ record' = [record EXCEPT ![c] = [order   |-> o,
                                              payload |-> sagas[o].payload,
                                              status  |-> sagas[o].status]]
    BY <1>2 DEF StartSelect, Return, Goto
  <2>2. \E o \in Calls : /\ HasRow(o) /\ sagas[o].key = req[c].key
                         /\ record'[c].order = o
                         /\ record'[c].status = sagas[o].status
    BY <2>1 DEF HasRow
  <2> QED BY <1>2, <2>2 DEF StartSelect
<1>3. ASSUME NEW d \in Calls, d # c, StartSelect(d) \/ Answer(d)
      PROVE  Stay
  BY <1>3 DEF StartSelect, Answer, Return, Goto
<1>4. ~Answer(c)
  BY DEF Answer, Return, Goto
<1>5. ASSUME NEW d \in Calls, Receive(d) \/ RefuseEmptyKey(d) \/ StartInsert(d) \/ Mark(d)
      PROVE  Stay
  BY <1>1, <1>5 DEF Receive, RefuseEmptyKey, StartInsert, Mark, Return, Goto
<1>6. ASSUME NEW d \in Calls, Log(d) \/ GiveUp(d) \/ AttemptSucceeds(d) \/ AttemptErrs(d)
      PROVE  Stay
  <2>1. /\ \A l \in LogLabels : AfterLog[l] # "answer"
        /\ \A l \in ClientLabels : OnError[l] # "answer" /\ OnSuccess[l] # "answer"
    BY ScriptFacts, LabelFacts
  <2>2. record' = record /\ req' = req
    BY <1>6 DEF Log, GiveUp, AttemptSucceeds, AttemptErrs
  <2>3. CASE pc' = pc
    BY <2>2, <2>3
  <2>4. CASE Log(d)
    BY <1>1, <2>1, <2>2, <2>4 DEF Log, Goto
  <2>5. CASE GiveUp(d)
    BY <1>1, <2>1, <2>2, <2>5 DEF GiveUp, Goto
  <2>6. CASE AttemptSucceeds(d)
    BY <1>1, <2>1, <2>2, <2>6 DEF AttemptSucceeds, Goto
  <2>7. CASE AttemptErrs(d)
    BY <1>1, <2>1, <2>2, <2>3, <2>7 DEF AttemptErrs, Goto
  <2> QED BY <1>6, <2>4, <2>5, <2>6, <2>7
<1>7. ASSUME NEW d \in Calls, Cancel(d) \/ (\E l \in WriteLabels : LandLate(l, d))
      PROVE  Stay
  BY <1>7 DEF Cancel, LandLate, callVars
<1>8. CASE Crash \/ UNCHANGED vars
  BY <1>8 DEF Crash, vars, callVars
<1> QED BY <1>2, <1>3, <1>4, <1>5, <1>6, <1>7, <1>8 DEF Next, Step, Finished

Reads ==
  \A c \in Calls : pc'[c] = "answer" /\ record'[c].status = "succeeded" =>
    /\ record'[c].order \in Calls
    /\ SaysSucceeded(record'[c].order)

\* A row that was read and says succeeded is one that said so.
LEMMA NextReads == TypeOK /\ KeyInv /\ [Next]_vars => Reads
<1> SUFFICES ASSUME TypeOK, KeyInv, [Next]_vars,
                    NEW c \in Calls, pc'[c] = "answer", record'[c].status = "succeeded"
             PROVE  record'[c].order \in Calls /\ SaysSucceeded(record'[c].order)
  BY DEF Reads
<1>1. CASE pc[c] = "answer" /\ record'[c] = record[c]
  <2>1. record[c].order \in Calls
    BY <1>1 DEF KeyInv, RecordsAreRows, ReadsRow, Record
  <2> QED BY <1>1, <2>1 DEF SaysSucceeded
<1>2. ASSUME NEW o \in Calls, HasRow(o), record'[c].order = o,
             record'[c].status = sagas[o].status
      PROVE  record'[c].order \in Calls /\ SaysSucceeded(record'[c].order)
  BY <1>2 DEF SaysSucceeded
<1> QED BY <1>1, <1>2, AnswersRead

-----------------------------------------------------------------------------
(***************************************************************************)
(* The moves of the calls.                                                 *)
(***************************************************************************)
Paid == {"chargeSucceeded", "assignStarted", "assign"}

Moved(o, q) ==
  /\ q \in Early => pc[o] \in Early
  /\ q \in Paid =>
       pc[o] \in Paid \/ (pc[o] = "charge" /\ payments'[o] = "charged")
  /\ q \in {"assignSucceeded", "markSucceeded"} =>
       \/ pc[o] \in {"assignSucceeded", "markSucceeded"}
       \/ /\ pc[o] = "assign" /\ HasRow(o)' /\ assignments'[o] # None
          /\ payments' = payments /\ late' = late
  /\ q \in {"refundSucceeded", "markRefunded"} =>
       pc[o] \in {"refundSucceeded", "markRefunded"} \/ payments'[o] = "refunded"
  /\ pc[o] \in Final => q \in Final
  /\ pc[o] = "returned" => q = "returned" /\ req'[o] = req[o]

Moves == \A o \in Calls : Moved(o, pc'[o])

\* A call whose counter and request stay has not moved.
LEMMA StayMoved == \A o \in Calls : req'[o] = req[o] => Moved(o, pc[o])
  BY DEF Moved

\* Where AddStep, a client's success and a client's error lead to.
LEMMA ScriptMoves ==
  /\ \A l \in LogLabels :
       /\ AfterLog[l] \in Early => l \in Early
       /\ AfterLog[l] \in Paid => l \in Paid
       /\ AfterLog[l] \in {"assignSucceeded", "markSucceeded"} => l = "assignSucceeded"
       /\ AfterLog[l] \in {"refundSucceeded", "markRefunded"} => l = "refundSucceeded"
       /\ l \in Final => AfterLog[l] \in Final
       /\ l # "returned"
  /\ \A l \in ClientLabels :
       /\ OnError[l] \notin Early \cup Final \cup {"refundSucceeded", "markRefunded"}
       /\ OnSuccess[l] \in Early => l = "charge"
       /\ OnSuccess[l] \in Paid => l = "charge"
       /\ OnSuccess[l] \in {"assignSucceeded", "markSucceeded"} => l = "assign"
       /\ OnSuccess[l] \in {"refundSucceeded", "markRefunded"} => l = "refund"
       /\ l \notin Final
  /\ Paid \subseteq Early /\ "charge" \in Early
  /\ \A l \in MarkLabels : l # "returned"
  BY DEF LogLabels, ClientLabels, MarkLabels, StepRow, FinalStatus, AfterLog,
         OnSuccess, OnError, Early, Paid, Final

\* A client call that succeeds leaves its effect in the tables.
LEMMA SuccessLands ==
  ASSUME TypeOK, KeyInv, NEW c \in Calls, AttemptSucceeds(c)
  PROVE  /\ pc[c] = "charge" => payments'[c] = "charged"
         /\ pc[c] = "assign" => /\ HasRow(c)' /\ assignments'[c] # None
                               /\ payments' = payments /\ late' = late
         /\ pc[c] = "refund" => payments'[c] = "refunded"
<1>1. /\ pc[c] \in WriteLabels /\ Land(pc[c], c) /\ Accepts(pc[c], c)
      /\ late' = late /\ req[c] \in Request
  BY LabelFacts, ScriptFacts
  DEF AttemptSucceeds, Succeeds, KeyInv, RunsHaveRequests, TypeOK
<1>2. CASE pc[c] = "charge"
  BY <1>1, <1>2, LandOutcome DEF Accepts
<1>3. CASE pc[c] = "assign"
  <2>1. HasRow(c)
    BY <1>1, <1>3 DEF Accepts, HasRow
  <2>2. payments' = payments /\ sagas' = sagas
    BY <1>1, <1>3 DEF Land, InsertAssignment, LogLabels, StepRow, MarkLabels, FinalStatus
  <2>3. assignments'[c] # None
    BY <1>1, <1>3, <2>1, LandOutcome
  <2> QED BY <1>1, <1>3, <2>1, <2>2, <2>3 DEF HasRow
<1>4. CASE pc[c] = "refund"
  BY <1>1, <1>4, LandOutcome DEF Accepts
<1> QED BY <1>2, <1>3, <1>4

\* Every step moves a call along the script of CreateOrder, or leaves it
\* where it is (order.go:63-111).
LEMMA NextMoves == TypeOK /\ KeyInv /\ [Next]_vars => Moves
<1> SUFFICES ASSUME TypeOK, KeyInv, [Next]_vars, NEW o \in Calls
             PROVE  Moved(o, pc'[o])
  BY DEF Moves
<1>1. ASSUME NEW c \in Calls, NEW q, pc' = [pc EXCEPT ![c] = q], req' = req,
             Moved(c, q)
      PROVE  Moved(o, pc'[o])
  BY <1>1, StayMoved DEF TypeOK
<1>2. ASSUME NEW c \in Calls, Receive(c) PROVE Moved(o, pc'[o])
  BY <1>2 DEF Receive, Goto, TypeOK, Moved, Early, Paid, Final
<1>3. ASSUME NEW c \in Calls,
             RefuseEmptyKey(c) \/ StartInsert(c) \/ StartSelect(c) \/ Answer(c)
      PROVE  Moved(o, pc'[o])
  <2>1. pc[c] \in {"idle", "insert", "select", "answer"} /\ req' = req
    BY <1>3 DEF RefuseEmptyKey, StartInsert, StartSelect, Answer
  <2>2. PICK q \in {"select", "answer", "chargeStarted", "returned"} :
          pc' = [pc EXCEPT ![c] = q]
    BY <1>3 DEF RefuseEmptyKey, StartInsert, StartSelect, Answer, Return, Goto
  <2>3. Moved(c, q)
    BY <2>1 DEF Moved, Early, Paid, Final
  <2> QED BY <1>1, <2>1, <2>2, <2>3
<1>4. ASSUME NEW c \in Calls, Log(c) PROVE Moved(o, pc'[o])
  <2>1. pc[c] \in LogLabels /\ pc' = [pc EXCEPT ![c] = AfterLog[pc[c]]] /\ req' = req
    BY <1>4 DEF Log, Goto
  <2>2. Moved(c, AfterLog[pc[c]])
    BY <2>1, ScriptMoves DEF Moved
  <2> QED BY <1>1, <2>1, <2>2
<1>5. ASSUME NEW c \in Calls, GiveUp(c) \/ AttemptErrs(c) PROVE Moved(o, pc'[o])
  <2>1. pc[c] \in ClientLabels /\ req' = req
    BY <1>5 DEF GiveUp, AttemptErrs
  <2>2. CASE pc' = pc
    BY <2>1, <2>2, StayMoved
  <2>3. CASE pc' = [pc EXCEPT ![c] = OnError[pc[c]]]
    <3>1. Moved(c, OnError[pc[c]])
      BY <2>1, ScriptMoves DEF Moved, Final, Paid, Early
    <3> QED BY <1>1, <2>1, <2>3, <3>1
  <2> QED BY <1>5, <2>2, <2>3 DEF GiveUp, AttemptErrs, Goto
<1>6. ASSUME NEW c \in Calls, AttemptSucceeds(c) PROVE Moved(o, pc'[o])
  <2>1. /\ pc[c] \in ClientLabels /\ req' = req
        /\ pc' = [pc EXCEPT ![c] = OnSuccess[pc[c]]]
    BY <1>6 DEF AttemptSucceeds, Goto
  <2>2. Moved(c, OnSuccess[pc[c]])
    BY <1>6, <2>1, SuccessLands, ScriptMoves DEF Moved, Final
  <2> QED BY <1>1, <2>1, <2>2
<1>7. ASSUME NEW c \in Calls, Mark(c) PROVE Moved(o, pc'[o])
  <2>1. pc[c] \in MarkLabels /\ req' = req /\ pc' = [pc EXCEPT ![c] = "returned"]
    BY <1>7 DEF Mark, Return, Goto
  <2>2. Moved(c, "returned")
    BY <2>1, ScriptMoves DEF Moved, Final, Early, Paid
  <2> QED BY <1>1, <2>1, <2>2
<1>8. ASSUME NEW c \in Calls, Cancel(c) \/ (\E l \in WriteLabels : LandLate(l, c))
      PROVE  Moved(o, pc'[o])
  BY <1>8, StayMoved DEF Cancel, LandLate, callVars
<1>9. CASE Crash
  <2>1. req' = req /\ pc'[o] \in {pc[o], "crashed"}
    BY <1>9 DEF Crash
  <2>2. pc[o] = "returned" => pc'[o] = pc[o]
    BY <1>9, ScriptFacts DEF Crash, Active
  <2> QED BY <2>1, <2>2, StayMoved DEF Moved, Final, Early, Paid
<1>10. CASE UNCHANGED vars
  BY <1>10, StayMoved DEF vars, callVars
<1> QED
  BY <1>2, <1>3, <1>4, <1>5, <1>6, <1>7, <1>8, <1>9, <1>10 DEF Next, Step, Finished

-----------------------------------------------------------------------------
(***************************************************************************)
(* The replies.                                                            *)
(***************************************************************************)
Replied(c) ==
  reply'[c].code = "ok" =>
    \/ pc[c] = "returned" /\ reply'[c] = reply[c]
    \/ reply[c].code = "ok"
    \/ /\ pc[c] = "markSucceeded" /\ pc'[c] = "returned"
       /\ reply'[c].order = c /\ req'[c] = req[c]
    \/ /\ pc'[c] = "returned" /\ req'[c] = req[c]
       /\ pc[c] = "answer" /\ record[c].status = "succeeded"
       /\ \E o \in Calls : /\ reply'[c].order = o /\ record[c].order = o
                           /\ sagas[o].key = req[c].key
                           /\ sagas[o].payload = req[c].payload

\* What was replied stays, and who replies "ok" ends or finds a success.
Replies ==
  \A c \in Calls : /\ reply[c].code = "ok" /\ pc[c] = "returned" => reply'[c] = reply[c]
                  /\ Replied(c)

\* "ok" is only ever answered after markSucceeded, or from a row that said
\* succeeded when it was read (order.go:78-80, 108-110).
LEMMA NextReplies == TypeOK /\ KeyInv /\ [Next]_vars => Replies
<1> SUFFICES ASSUME TypeOK, KeyInv, [Next]_vars, NEW c \in Calls
             PROVE  /\ reply[c].code = "ok" /\ pc[c] = "returned" => reply'[c] = reply[c]
                    /\ Replied(c)
  BY DEF Replies
<1>1. CASE reply'[c] = reply[c]
  BY <1>1 DEF Replied
<1>2. ASSUME NEW d \in Calls, RefuseEmptyKey(d) \/ StartInsert(d) \/ StartSelect(d)
      PROVE  /\ reply[c].code = "ok" /\ pc[c] = "returned" => reply'[c] = reply[c]
             /\ Replied(c)
  <2>1. CASE d # c
    BY <1>1, <1>2, <2>1 DEF RefuseEmptyKey, StartInsert, StartSelect, Return, TypeOK
  <2>2. CASE d = c
    BY <1>1, <1>2, <2>2
    DEF RefuseEmptyKey, StartInsert, StartSelect, Return, Replied, TypeOK
  <2> QED BY <2>1, <2>2
<1>3. ASSUME NEW d \in Calls, Answer(d)
      PROVE  /\ reply[c].code = "ok" /\ pc[c] = "returned" => reply'[c] = reply[c]
             /\ Replied(c)
  <2>1. CASE d # c
    BY <1>1, <1>3, <2>1 DEF Answer, Return, TypeOK
  <2>2. CASE d = c
    <3> DEFINE o == record[c].order
    <3>1. /\ pc[c] = "answer" /\ req' = req
          /\ o \in Calls /\ HasRow(o) /\ sagas[o].key = req[c].key
          /\ sagas[o].payload = record[c].payload
      BY <1>3, <2>2 DEF Answer, KeyInv, RecordsAreRows, ReadsRow, Record
    <3>2. ASSUME NEW code, NEW x, Return(c, code, x)
          PROVE  /\ pc'[c] = "returned"
                 /\ reply'[c].code = code /\ reply'[c].order = x
      BY <3>2 DEF Return, Goto, TypeOK
    <3>3. \/ reply' = reply
          \/ \E code \in {"conflict", "processed"} : Return(c, code, None)
          \/ /\ record[c].status = "succeeded"
             /\ ~PayloadDiffers(record[c].payload, req[c].payload)
             /\ Return(c, "ok", o)
      BY <1>3, <2>2 DEF Answer
    <3>4. CASE \E code \in {"conflict", "processed"} : Return(c, code, None)
      BY <3>1, <3>2, <3>4 DEF Replied
    <3>5. CASE /\ record[c].status = "succeeded"
               /\ ~PayloadDiffers(record[c].payload, req[c].payload)
               /\ Return(c, "ok", o)
      <4>1. sagas[o].payload = req[c].payload
        BY <3>1, <3>5 DEF PayloadDiffers
      <4> QED BY <3>1, <3>2, <3>5, <4>1 DEF Replied
    <3> QED BY <1>1, <3>1, <3>3, <3>4, <3>5
  <2> QED BY <2>1, <2>2
<1>4. ASSUME NEW d \in Calls, Mark(d)
      PROVE  /\ reply[c].code = "ok" /\ pc[c] = "returned" => reply'[c] = reply[c]
             /\ Replied(c)
  <2>1. CASE d # c
    BY <1>1, <1>4, <2>1 DEF Mark, Return, TypeOK
  <2>2. CASE d = c
    <3>1. pc[c] # "returned" /\ req' = req
      BY <1>4, <2>2, ScriptMoves DEF Mark
    <3>2. CASE pc[c] = "markSucceeded"
      BY <1>4, <2>2, <3>1, <3>2 DEF Mark, Return, Goto, Replied, TypeOK
    <3>3. CASE pc[c] # "markSucceeded"
      BY <1>4, <2>2, <3>1, <3>3 DEF Mark, Return, Goto, Replied, TypeOK
    <3> QED BY <3>2, <3>3
  <2> QED BY <2>1, <2>2
<1>5. ASSUME NEW d \in Calls,
             Receive(d) \/ Log(d) \/ GiveUp(d) \/ AttemptSucceeds(d)
               \/ AttemptErrs(d) \/ Cancel(d) \/ (\E l \in WriteLabels : LandLate(l, d))
      PROVE  reply'[c] = reply[c]
  BY <1>5 DEF Receive, Log, GiveUp, AttemptSucceeds, AttemptErrs, Cancel,
     LandLate, callVars
<1>6. CASE Crash \/ UNCHANGED vars
  BY <1>1, <1>6 DEF Crash, vars, callVars
<1> QED BY <1>1, <1>2, <1>3, <1>4, <1>5, <1>6 DEF Next, Step, Finished

-----------------------------------------------------------------------------
\* Nothing says anything at first.
LEMMA InitOutcome == Init => OutcomeInv
  BY DEF Init, OutcomeInv, PaidBeforeAssign, NoRefundYet, SaysSucceeded,
     SaysRefunded, OkIsKept, HasRow

\* The four descriptions of a step - its effects on the tables, the rows read,
\* the moves of the counters and the replies - are all the outcome invariant
\* needs.
LEMMA StepOutcome ==
  ASSUME TypeOK, KeyInv, KeyInv', OutcomeInv, Effects, Reads, Moves, Replies
  PROVE  OutcomeInv'
<1>1. \A o \in Calls : Moved(o, pc'[o])
  BY DEF Moves
<1>2. \A o \in Calls : pc[o] \in Early \cup Final => pc[o] # "refund"
  BY DEF Early, Final
<1>3. \A o \in Calls : pc[o] \in Early => ~RefundDue(o)
  BY <1>2 DEF OutcomeInv, NoRefundYet, Early, RefundDue
<1>4. ASSUME NEW o \in Calls, Kept(o) PROVE Kept(o)'
  <2>1. ~RefundDue(o) /\ pc[o] \in Final
    BY <1>2, <1>4 DEF Kept, RefundDue, Final
  <2>2. pc'[o] \in Final
    BY <1>1, <2>1 DEF Moved
  <2> QED BY <1>4, <2>1, <2>2 DEF Kept, Effects, Final
<1>5. PaidBeforeAssign'
  <2> SUFFICES ASSUME NEW o \in Calls, pc'[o] \in Paid PROVE payments'[o] = "charged"
    BY DEF PaidBeforeAssign, Paid
  <2>1. pc[o] \in Paid \/ payments'[o] = "charged"
    BY <1>1 DEF Moved
  <2>2. CASE pc[o] \in Paid
    <3>1. pc[o] \in Early /\ payments[o] = "charged"
      BY <2>2, ScriptMoves DEF OutcomeInv, PaidBeforeAssign, Paid
    <3> QED BY <1>3, <3>1 DEF Effects
  <2> QED BY <2>1, <2>2
<1>6. NoRefundYet'
  <2> SUFFICES ASSUME NEW o \in Calls, pc'[o] \in Early PROVE <<"refund", o>> \notin late'
    BY DEF NoRefundYet, Early
  <2>1. pc[o] \in Early
    BY <1>1 DEF Moved
  <2> QED BY <1>3, <2>1 DEF Effects
<1>7. ASSUME NEW o \in Calls, SaysSucceeded(o)' PROVE Kept(o)'
  <2>1. CASE SaysSucceeded(o)
    BY <1>4, <2>1 DEF OutcomeInv
  <2>2. CASE /\ pc[o] = "assign" /\ pc'[o] \in {"assignSucceeded", "markSucceeded"}
             /\ HasRow(o)' /\ assignments'[o] # None
             /\ payments' = payments /\ late' = late
    BY <2>2 DEF OutcomeInv, PaidBeforeAssign, NoRefundYet, Kept
  <2>3. \/ pc'[o] \in {"assignSucceeded", "markSucceeded"}
        \/ SaysSucceeded(o)
    <3>1. CASE \E c \in Calls : /\ pc'[c] = "answer" /\ record'[c].order = o
                                /\ record'[c].status = "succeeded"
      BY <3>1 DEF Reads
    <3>2. CASE \/ <<"markSucceeded", o>> \in late'
               \/ HasRow(o)' /\ sagas'[o].status = "succeeded"
      BY <3>2 DEF Effects
    <3> QED BY <1>7, <3>1, <3>2 DEF SaysSucceeded
  <2>4. CASE pc[o] \in {"assignSucceeded", "markSucceeded"}
    BY <2>1, <2>4 DEF SaysSucceeded
  <2> QED BY <1>1, <2>1, <2>2, <2>3, <2>4 DEF Moved
<1>8. ASSUME NEW o \in Calls, SaysRefunded(o)' PROVE payments'[o] = "refunded"
  <2>1. CASE SaysRefunded(o)
    BY <2>1 DEF OutcomeInv, Effects
  <2>2. \/ pc'[o] \in {"refundSucceeded", "markRefunded"}
        \/ SaysRefunded(o)
    BY <1>8 DEF SaysRefunded, Effects
  <2>3. CASE pc[o] \in {"refundSucceeded", "markRefunded"}
    BY <2>1, <2>3 DEF SaysRefunded
  <2> QED BY <1>1, <2>1, <2>2, <2>3 DEF Moved
<1>9. OkIsKept'
  <2> SUFFICES ASSUME NEW c \in Calls, reply'[c].code = "ok"
               PROVE  /\ pc'[c] = "returned"
                      /\ \E o \in Calls : /\ reply'[c].order = o
                                          /\ Kept(o)'
                                          /\ sagas'[o].key = req'[c].key
                                          /\ sagas'[o].payload = req'[c].payload
    BY DEF OkIsKept
  <2>1. CASE reply[c].code = "ok"
    <3> DEFINE o == reply[c].order
    <3>1. /\ pc[c] = "returned" /\ o \in Calls /\ Kept(o)
          /\ sagas[o].key = req[c].key /\ sagas[o].payload = req[c].payload
      BY <2>1 DEF OutcomeInv, OkIsKept
    <3>2. reply'[c] = reply[c] /\ pc'[c] = "returned" /\ req'[c] = req[c]
      BY <1>1, <2>1, <3>1 DEF Replies, Moved
    <3>3. \A p \in Calls : p = o =>
            /\ Kept(p)'
            /\ sagas'[p].key = req[c].key /\ sagas'[p].payload = req[c].payload
      BY <1>4, <3>1 DEF Effects, Kept
    <3> QED BY <3>1, <3>2, <3>3
  <2>2. CASE /\ pc[c] = "markSucceeded" /\ pc'[c] = "returned"
             /\ reply'[c].order = c /\ req'[c] = req[c]
    <3>1. Kept(c)
      BY <2>2 DEF OutcomeInv, SaysSucceeded
    <3>2. Kept(c)'
      BY <1>4, <3>1
    <3>3. sagas'[c].key = req'[c].key /\ sagas'[c].payload = req'[c].payload
      BY <3>2 DEF Kept, KeyInv, RowsAsAsked
    <3> QED BY <2>2, <3>2, <3>3
  <2>3. ASSUME pc'[c] = "returned", req'[c] = req[c],
               NEW o \in Calls, reply'[c].order = o,
               pc[c] = "answer", record[c].order = o, record[c].status = "succeeded",
               sagas[o].key = req[c].key, sagas[o].payload = req[c].payload
        PROVE  Kept(o)' /\ sagas'[o].key = req'[c].key /\ sagas'[o].payload = req'[c].payload
    <3>1. Kept(o)
      BY <2>3 DEF OutcomeInv, SaysSucceeded
    <3>2. Kept(o)'
      BY <1>4, <3>1
    <3> QED BY <2>3, <3>1, <3>2 DEF Effects, Kept
  <2>4. reply'[c] = reply[c] => reply[c].code = "ok"
    OBVIOUS
  <2> QED BY <2>1, <2>2, <2>3, <2>4 DEF Replies, Replied
<1> QED BY <1>5, <1>6, <1>7, <1>8, <1>9 DEF OutcomeInv

\* Every step keeps the outcome invariant.
LEMMA NextOutcome ==
  TypeOK /\ KeyInv /\ OutcomeInv /\ [Next]_vars => OutcomeInv'
  BY NextEffects, NextReads, NextMoves, NextReplies, NextKey, StepOutcome

\* What says "succeeded" or "refunded" keeps speaking of orders for which
\* it is true (order.go:91-110).
THEOREM OutcomeCorrect == Spec => []OutcomeInv
  BY InitType, InitKey, InitOutcome, NextType, NextKey, NextOutcome, PTL DEF Spec

\* Both invariants hold of every run, however many calls, keys and faults
\* there are (order.go:63-111).
THEOREM OrderCorrect == Spec => []OrderInv
<1>1. KeyInv /\ OutcomeInv => OrderInv
  BY DEF OrderInv
<1> QED BY <1>1, KeyCorrect, OutcomeCorrect, PTL

\* Whoever is told "ok" has an order under its own key and payload that is
\* charged, not refunded, and has a driver (order.go:78-80, 108-110).
THEOREM OkIsFulfilled == Spec => []OkMeansFulfilled
<1>1. OutcomeInv => OkMeansFulfilled
  <2> SUFFICES ASSUME OutcomeInv, NEW c \in Calls, reply[c].code = "ok"
               PROVE  /\ HasRow(reply[c].order)
                      /\ sagas[reply[c].order].key = req[c].key
                      /\ sagas[reply[c].order].payload = req[c].payload
                      /\ payments[reply[c].order] = "charged"
                      /\ assignments[reply[c].order] # None
    BY DEF OkMeansFulfilled
  <2>1. PICK o \in Calls : /\ reply[c].order = o
                           /\ Kept(o)
                           /\ sagas[o].key = req[c].key
                           /\ sagas[o].payload = req[c].payload
    BY DEF OutcomeInv, OkIsKept
  <2> QED BY <2>1 DEF Kept
<1> QED BY <1>1, OutcomeCorrect, PTL

\* A status of succeeded or refunded is true of the tables, whatever update
\* was lost or late (order.go:88, 100, 104, 109).
THEOREM StatusIsTruthful == Spec => []StatusTruthful
<1>1. OutcomeInv => StatusTruthful
  BY DEF OutcomeInv, SaysSucceeded, SaysRefunded, Kept, StatusTruthful
<1> QED BY <1>1, OutcomeCorrect, PTL

-----------------------------------------------------------------------------
(***************************************************************************)
(* What is stored of a saga stays and is true: the audit rows, and the     *)
(* status once it is final.                                                *)
(***************************************************************************)
\* Statement l of o may reach the tables in this step: it is o's turn to
\* issue it, or it was given up on.
Due(l, o) == pc[o] = l \/ <<l, o>> \in late

\* Statement l of c is issued, now or late, and reaches the tables or not.
Issued(l, c) ==
  /\ Due(l, c) /\ req[c] \in Request
  /\ \/ Land(l, c) /\ late' \subseteq late
     \/ UNCHANGED tables /\ late' \subseteq late \cup {<<l, c>>}

\* A step issues one statement or leaves the tables and late alone.
LEMMA OneStatement ==
  ASSUME TypeOK, KeyInv, [Next]_vars
  PROVE  \/ UNCHANGED <<tables, late>>
         \/ \E c \in Calls, l \in WriteLabels : Issued(l, c)
<1>1. ASSUME NEW c \in Calls, StartInsert(c) \/ Log(c) \/ AttemptSucceeds(c)
                              \/ AttemptErrs(c) \/ Mark(c)
      PROVE  \/ Issued(pc[c], c) /\ pc[c] \in WriteLabels
             \/ UNCHANGED <<tables, late>>
  <2>1. pc[c] \in WriteLabels /\ req[c] \in Request
    BY <1>1, LabelFacts, ScriptFacts
    DEF StartInsert, Log, AttemptSucceeds, AttemptErrs, Mark, KeyInv,
        RunsHaveRequests, TypeOK
  <2>2. \/ Succeeds(pc[c], c) \/ Errs(pc[c], c)
        \/ UNCHANGED <<tables, late>>
    BY <1>1 DEF StartInsert, Log, AttemptSucceeds, AttemptErrs, Mark
  <2> QED BY <2>1, <2>2 DEF Issued, Due, Succeeds, Errs
<1>2. ASSUME NEW c \in Calls, NEW l \in WriteLabels, LandLate(l, c)
      PROVE  Issued(l, c)
  BY <1>2 DEF LandLate, KeyInv, LateHasRow, TypeOK, Issued, Due
<1>3. ASSUME NEW c \in Calls, Receive(c) \/ RefuseEmptyKey(c) \/ StartSelect(c)
                              \/ Answer(c) \/ GiveUp(c) \/ Cancel(c)
      PROVE  UNCHANGED <<tables, late>>
  BY <1>3 DEF Receive, RefuseEmptyKey, StartSelect, Answer, GiveUp, Cancel
<1>4. CASE Crash \/ UNCHANGED vars
  BY <1>4 DEF Crash, vars
<1> QED BY <1>1, <1>2, <1>3, <1>4 DEF Next, Step, Finished

\* Whatever a step adds to the tables, or leaves for later, was due.
Grows ==
  /\ \A o \in Calls, l \in WriteLabels : <<l, o>> \in late' => Due(l, o)
  /\ \A o \in Calls : HasRow(o)' /\ ~HasRow(o) => Due("insert", o)
  /\ \A o \in Calls : payments[o] # "none" => payments'[o] # "none"
  /\ \A o \in Calls :
       payments[o] = "none" /\ payments'[o] # "none" => Due("charge", o)
  /\ \A o \in Calls, l \in LogLabels :
       StepRow[l] \in steps'[o] => StepRow[l] \in steps[o] \/ Due(l, o)

\* Audit rows come from the calls of AddStep that write them.
LEMMA LandSteps ==
  ASSUME TypeOK, NEW c \in Calls, NEW l \in WriteLabels, Land(l, c),
         NEW o \in Calls, NEW x \in LogLabels, StepRow[x] \in steps'[o]
  PROVE  StepRow[x] \in steps[o] \/ (o = c /\ x = l)
<1>1. CASE l \in LogLabels /\ AddStep(c, StepRow[l])
  <2>1. StepRow[x] = StepRow[l] => x = l
    BY <1>1 DEF LogLabels, StepRow
  <2> QED BY <1>1, <2>1 DEF AddStep, TypeOK
<1>2. CASE steps' = steps
  BY <1>2
<1> QED
  BY <1>1, <1>2 DEF Land, InsertSaga, InsertPayment, InsertAssignment,
     UpdatePayment, UpdateStatus

\* Every step grows the tables in this way only.
LEMMA NextGrows == TypeOK /\ KeyInv /\ [Next]_vars => Grows
<1> SUFFICES ASSUME TypeOK, KeyInv, [Next]_vars PROVE Grows
  OBVIOUS
<1>1. CASE UNCHANGED <<tables, late>>
  BY <1>1 DEF Grows, tables, Due, HasRow
<1>2. ASSUME NEW c \in Calls, NEW l \in WriteLabels, Issued(l, c) PROVE Grows
  <2>1. \A o \in Calls, x \in WriteLabels : <<x, o>> \in late' => Due(x, o)
    BY <1>2 DEF Issued, Due
  <2>2. CASE UNCHANGED tables
    BY <2>1, <2>2 DEF Grows, tables, HasRow
  <2>3. CASE Land(l, c)
    <3>1. \A o \in Calls : HasRow(o)' /\ ~HasRow(o) => Due("insert", o)
      BY <1>2, <2>3, LandRows DEF Issued, KeyInv
    <3>2. \A o \in Calls : payments[o] # "none" => payments'[o] # "none"
      BY <1>2, <2>3, LandOutcome DEF Issued, TypeOK
    <3>3. \A o \in Calls :
            payments[o] = "none" /\ payments'[o] # "none" => Due("charge", o)
      BY <1>2, <2>3, LandRows DEF Issued, KeyInv
    <3>4. \A o \in Calls, x \in LogLabels :
            StepRow[x] \in steps'[o] => StepRow[x] \in steps[o] \/ Due(x, o)
      BY <1>2, <2>3, LandSteps DEF Issued
    <3> QED BY <2>1, <3>1, <3>2, <3>3, <3>4 DEF Grows
  <2> QED BY <1>2, <2>2, <2>3 DEF Issued
<1> QED BY <1>1, <1>2, OneStatement

-----------------------------------------------------------------------------
(***************************************************************************)
(* The audit rows.                                                         *)
(***************************************************************************)
\* A refund is only for an order that was charged.
RefundOfCharge ==
  \A o \in Calls : pc[o] \in {"assignFailed", "refundStarted"} => payments[o] # "none"

\* What an audit row says, at the latest when it is about to be written.
RowTrue(l, o) ==
  /\ l \in {"chargeSucceeded", "refundStarted"} => payments[o] # "none"
  /\ l = "assignSucceeded" => assignments[o] # None
  /\ l = "refundSucceeded" => payments[o] = "refunded"

AuditInv ==
  /\ RefundOfCharge
  /\ \A o \in Calls, l \in LogLabels :
       Due(l, o) \/ StepRow[l] \in steps[o] => RowTrue(l, o)

\* Where the refund's labels are reached from.
LEMMA RefundMoves ==
  ASSUME TypeOK, [Next]_vars, NEW o \in Calls,
         pc'[o] \in {"assignFailed", "refundStarted"}
  PROVE  pc[o] \in {"assign", "assignFailed", "refundStarted"}
<1> USE DEF TypeOK
<1>1. /\ \A l \in LogLabels : AfterLog[l] \in {"assignFailed", "refundStarted"}
                                => l = "assignFailed"
      /\ \A l \in ClientLabels :
           /\ OnError[l] \in {"assignFailed", "refundStarted"} => l = "assign"
           /\ OnSuccess[l] \notin {"assignFailed", "refundStarted"}
  BY DEF LogLabels, ClientLabels, StepRow, AfterLog, OnError, OnSuccess
<1>2. CASE pc'[o] = pc[o]
  BY <1>2
<1>3. ASSUME NEW c \in Calls, NEW q, pc' = [pc EXCEPT ![c] = q]
      PROVE  pc'[o] = pc[o] \/ (o = c /\ pc'[o] = q)
  BY <1>3
<1>4. ASSUME NEW c \in Calls, Log(c) PROVE pc[o] \in {"assignFailed"} \/ pc'[o] = pc[o]
  BY <1>1, <1>3, <1>4 DEF Log, Goto
<1>5. ASSUME NEW c \in Calls, GiveUp(c) \/ AttemptErrs(c)
      PROVE  pc[o] = "assign" \/ pc'[o] = pc[o]
  BY <1>1, <1>3, <1>5 DEF GiveUp, AttemptErrs, Goto
<1>6. ASSUME NEW c \in Calls, AttemptSucceeds(c) PROVE pc'[o] = pc[o]
  BY <1>1, <1>3, <1>6 DEF AttemptSucceeds, Goto
<1>7. ASSUME NEW c \in Calls, Receive(c) \/ RefuseEmptyKey(c) \/ StartInsert(c)
                              \/ StartSelect(c) \/ Answer(c) \/ Mark(c)
      PROVE  pc'[o] = pc[o]
  BY <1>3, <1>7
  DEF Receive, RefuseEmptyKey, StartInsert, StartSelect, Answer, Mark, Return, Goto
<1>8. ASSUME NEW c \in Calls, Cancel(c) \/ (\E l \in WriteLabels : LandLate(l, c))
      PROVE  pc'[o] = pc[o]
  BY <1>8 DEF Cancel, LandLate, callVars
<1>9. CASE Crash \/ UNCHANGED vars
  BY <1>9 DEF Crash, vars, callVars
<1> QED
  BY <1>2, <1>4, <1>5, <1>6, <1>7, <1>8, <1>9 DEF Next, Step, Finished

\* There is no audit row at first.
LEMMA InitAudit == Init => AuditInv
  BY ScriptFacts, LabelFacts
  DEF Init, AuditInv, RefundOfCharge, Due, LogLabels, StepRow

\* Every step that writes or issues an audit row has its fact in the tables.
LEMMA NextAudit ==
  TypeOK /\ KeyInv /\ OutcomeInv /\ OutcomeInv' /\ AuditInv /\ [Next]_vars => AuditInv'
<1> SUFFICES ASSUME TypeOK, KeyInv, OutcomeInv, OutcomeInv', AuditInv, [Next]_vars
             PROVE  AuditInv'
  OBVIOUS
<1>1. Grows /\ Effects
  BY NextGrows, NextEffects
<1>2. RefundOfCharge'
  <2> SUFFICES ASSUME NEW o \in Calls, pc'[o] \in {"assignFailed", "refundStarted"}
               PROVE  payments'[o] # "none"
    BY DEF RefundOfCharge
  <2>1. pc[o] \in {"assign", "assignFailed", "refundStarted"}
    BY RefundMoves
  <2>2. payments[o] # "none"
    BY <2>1 DEF AuditInv, RefundOfCharge, OutcomeInv, PaidBeforeAssign
  <2> QED BY <1>1, <2>2 DEF Grows
<1>3. ASSUME NEW o \in Calls, NEW l \in LogLabels, RowTrue(l, o) PROVE RowTrue(l, o)'
  BY <1>1, <1>3 DEF RowTrue, Grows, Effects
<1>4. ASSUME NEW o \in Calls, NEW l \in LogLabels, pc'[o] = l PROVE RowTrue(l, o)'
  BY <1>2, <1>4 DEF RowTrue, RefundOfCharge, OutcomeInv, PaidBeforeAssign,
     SaysSucceeded, SaysRefunded, Kept
<1>5. ASSUME NEW o \in Calls, NEW l \in LogLabels, ~(pc'[o] = l),
             Due(l, o)' \/ StepRow[l] \in steps'[o]
      PROVE  RowTrue(l, o)
  <2>1. <<l, o>> \in late' \/ StepRow[l] \in steps'[o]
    BY <1>5 DEF Due
  <2>2. Due(l, o) \/ StepRow[l] \in steps[o]
    BY <1>1, <2>1, LabelFacts DEF Grows
  <2> QED BY <2>2 DEF AuditInv
<1> QED BY <1>2, <1>3, <1>4, <1>5 DEF AuditInv

\* The audit history records nothing that did not happen, and no refund of
\* an order that was not charged (order.go:85-108).
THEOREM AuditIsTruthful == Spec => []AuditTruthful
<1>1. AuditInv => AuditTruthful
  <2>1. /\ {"chargeSucceeded", "assignSucceeded", "refundSucceeded", "refundStarted"}
             \subseteq LogLabels
        /\ StepRow["chargeSucceeded"] = <<"charge", "succeeded">>
        /\ StepRow["assignSucceeded"] = <<"assign", "succeeded">>
        /\ StepRow["refundSucceeded"] = <<"refund", "succeeded">>
        /\ StepRow["refundStarted"]   = <<"refund", "started">>
    BY DEF LogLabels, StepRow
  <2> QED BY <2>1 DEF AuditInv, RowTrue, AuditTruthful
<1> QED
  BY <1>1, InitType, InitKey, InitOutcome, InitAudit,
     NextType, NextKey, NextOutcome, NextAudit, PTL DEF Spec

-----------------------------------------------------------------------------
(***************************************************************************)
(* The final status.                                                       *)
(***************************************************************************)
Over(o) == pc[o] \in {"returned", "crashed"}

NoMarkLate(o) == \A m \in MarkLabels : <<m, o>> \notin late

\* A saga is marked once: while its call goes on it is not, and is under way
\* to be at most once afterwards.
MarkedOnce ==
  \A o \in Calls :
    /\ ~Over(o) => ~Settled(o) /\ NoMarkLate(o)
    /\ Settled(o) => NoMarkLate(o)
    /\ \A m, n \in MarkLabels : <<m, o>> \in late /\ <<n, o>> \in late => m = n

\* A row without a final status that gets one, or a row that changes, does
\* so by a call of UpdateStatus.
LEMMA LandStatus ==
  ASSUME TypeOK, KeyInv, NEW c \in Calls, NEW l \in WriteLabels, Land(l, c),
         req[c] \in Request, NEW o \in Calls, l \notin MarkLabels \/ o # c
  PROVE  /\ HasRow(o) => sagas'[o] = sagas[o]
         /\ Settled(o)' => Settled(o)
<1>1. CASE l = "insert" /\ InsertSaga(c)
  <2>1. HasRow(o) => sagas'[o] = sagas[o]
    BY <1>1, LandRows DEF KeyInv, UniqueKeys, RowsAsAsked, InsertSaga, KeyTaken, HasRow, TypeOK
  <2>2. ~HasRow(o) /\ HasRow(o)' => sagas'[o].status = "started"
    BY <1>1 DEF InsertSaga, HasRow, TypeOK
  <2> QED BY <2>1, <2>2 DEF Settled, HasRow
<1>2. CASE sagas' = sagas
  BY <1>2 DEF Settled, HasRow
<1>3. CASE l \in MarkLabels /\ UpdateStatus(c, FinalStatus[l])
  BY <1>3 DEF UpdateStatus, Settled, HasRow, TypeOK
<1> QED
  BY <1>1, <1>2, <1>3 DEF Land, AddStep, InsertPayment, InsertAssignment, UpdatePayment

\* No saga is marked at first.
LEMMA InitMarked == Init => MarkedOnce
  BY DEF Init, MarkedOnce, Settled, HasRow, NoMarkLate

\* Steps that issue no call of UpdateStatus leave all of this alone.
LEMMA UnmarkedStep ==
  ASSUME TypeOK, KeyInv, MarkedOnce,
         \A o \in Calls : Over(o) => Over(o)',
         \/ UNCHANGED <<tables, late>>
         \/ \E c \in Calls, l \in WriteLabels \ MarkLabels : Issued(l, c)
  PROVE  /\ MarkedOnce'
         /\ \A o \in Calls : HasRow(o) => sagas'[o] = sagas[o]
<1>1. \A o \in Calls, m \in MarkLabels : <<m, o>> \in late' => <<m, o>> \in late
  BY DEF Issued, tables
<1>2. \A o \in Calls : /\ HasRow(o) => sagas'[o] = sagas[o]
                       /\ Settled(o)' => Settled(o)
  <2>1. CASE sagas' = sagas
    BY <2>1 DEF Settled, HasRow
  <2>2. ASSUME NEW c \in Calls, NEW l \in WriteLabels \ MarkLabels, Land(l, c),
               req[c] \in Request
        PROVE  \A o \in Calls : /\ HasRow(o) => sagas'[o] = sagas[o]
                                /\ Settled(o)' => Settled(o)
    BY <2>2, LandStatus
  <2> QED BY <2>1, <2>2 DEF Issued, tables
<1>3. \A o \in Calls : ~Over(o)' => ~Over(o)
  OBVIOUS
<1> QED BY <1>1, <1>2, <1>3 DEF MarkedOnce, NoMarkLate

\* An order is marked by its call, which ends with that, or late and then
\* for the only time.
LEMMA MarkStep ==
  ASSUME TypeOK, KeyInv, MarkedOnce, NEW c \in Calls, NEW m \in MarkLabels,
         \/ Mark(c) /\ pc[c] = m
         \/ LandLate(m, c)
  PROVE  /\ MarkedOnce'
         /\ \A o \in Calls : Settled(o) => sagas'[o] = sagas[o]
<1>1. /\ req[c] \in Request /\ m \in WriteLabels
      /\ ~Settled(c)
      /\ \A n \in MarkLabels : <<n, c>> \in late => n = m
  BY LabelFacts, ScriptFacts, ConstantsAssumption
  DEF Mark, LandLate, MarkedOnce, NoMarkLate, Over, KeyInv, RunsHaveRequests,
      LateHasRow, TypeOK, MarkLabels, FinalStatus
<1>2. \/ Land(m, c) /\ late' \subseteq late /\ <<m, c>> \notin late'
      \/ UNCHANGED tables /\ late' \subseteq late \cup {<<m, c>>}
  BY DEF Mark, LandLate, Succeeds, Errs, MarkedOnce, NoMarkLate, Over,
     MarkLabels, FinalStatus
<1>3. /\ Over(c)'
      /\ \A o \in Calls : o # c => pc'[o] = pc[o]
  <2>1. CASE Mark(c)
    BY <2>1 DEF Mark, Return, Goto, Over, TypeOK
  <2>2. CASE LandLate(m, c)
    BY <2>2 DEF LandLate, callVars, MarkedOnce, NoMarkLate, Over
  <2> QED BY <2>1, <2>2
<1>4. \A o \in Calls : o # c =>
        /\ HasRow(o) => sagas'[o] = sagas[o]
        /\ Settled(o)' => Settled(o)
        /\ \A n \in MarkLabels : <<n, o>> \in late' => <<n, o>> \in late
  <2>1. CASE Land(m, c)
    BY <1>1, <1>2, <2>1, LandStatus
  <2>2. CASE UNCHANGED tables
    BY <1>2, <2>2 DEF tables, Settled, HasRow
  <2> QED BY <1>2, <2>1, <2>2
<1>5. Settled(c)' => NoMarkLate(c)'
  BY <1>1, <1>2 DEF NoMarkLate, tables, Settled, HasRow
<1>6. \A n, k \in MarkLabels : <<n, c>> \in late' /\ <<k, c>> \in late' => n = k
  BY <1>1, <1>2
<1>7. \A o \in Calls : o # c =>
        /\ ~Over(o)' => ~Settled(o)' /\ NoMarkLate(o)'
        /\ Settled(o)' => NoMarkLate(o)'
        /\ \A n, k \in MarkLabels : <<n, o>> \in late' /\ <<k, o>> \in late' => n = k
  BY <1>3, <1>4 DEF MarkedOnce, NoMarkLate, Over
<1> QED BY <1>1, <1>3, <1>4, <1>5, <1>6, <1>7 DEF MarkedOnce, Settled

\* A call that is over stays so.
LEMMA OverStays ==
  ASSUME TypeOK, [Next]_vars, NEW o \in Calls, Over(o)
  PROVE  Over(o)'
<1> USE DEF TypeOK, Over
<1>1. \A l \in Running \cup {"idle"} : l \notin {"returned", "crashed"}
  BY ScriptFacts
<1>2. ASSUME NEW c \in Calls, NEW q, pc[c] \in Running \cup {"idle"},
             pc' = [pc EXCEPT ![c] = q]
      PROVE  Over(o)'
  BY <1>1, <1>2
<1>3. ASSUME NEW c \in Calls, Receive(c) \/ RefuseEmptyKey(c) \/ Step(c) PROVE Over(o)'
  <2>1. pc[c] \in Running \cup {"idle"}
    BY <1>3, ScriptFacts DEF Receive, RefuseEmptyKey, Step, StartInsert, StartSelect,
       Answer, Log, GiveUp, AttemptSucceeds, AttemptErrs, Mark, ScriptLabels
  <2>2. pc' = pc \/ \E q : pc' = [pc EXCEPT ![c] = q]
    BY <1>3 DEF Receive, RefuseEmptyKey, Step, StartInsert, StartSelect,
       Answer, Log, GiveUp, AttemptSucceeds, AttemptErrs, Mark, Return, Goto
  <2> QED BY <1>2, <2>1, <2>2
<1>4. ASSUME NEW c \in Calls, Cancel(c) \/ (\E l \in WriteLabels : LandLate(l, c))
      PROVE  Over(o)'
  BY <1>4 DEF Cancel, LandLate, callVars
<1>5. CASE Crash \/ UNCHANGED vars
  BY <1>5 DEF Crash, vars, callVars
<1> QED BY <1>3, <1>4, <1>5 DEF Next, Finished

\* Every step leaves final statuses alone, and marks no saga twice.
LEMMA NextMarked ==
  TypeOK /\ KeyInv /\ MarkedOnce /\ [Next]_vars =>
    MarkedOnce' /\ \A o \in Calls : Settled(o) => sagas'[o] = sagas[o]
<1> SUFFICES ASSUME TypeOK, KeyInv, MarkedOnce, [Next]_vars
             PROVE  MarkedOnce' /\ \A o \in Calls : Settled(o) => sagas'[o] = sagas[o]
  OBVIOUS
<1>1. CASE \E c \in Calls, m \in MarkLabels : \/ Mark(c) /\ pc[c] = m
                                              \/ LandLate(m, c)
  BY <1>1, MarkStep
<1>2. CASE \/ UNCHANGED <<tables, late>>
           \/ \E c \in Calls, l \in WriteLabels \ MarkLabels : Issued(l, c)
  BY <1>2, OverStays, UnmarkedStep DEF Settled
<1>3. ASSUME NEW c \in Calls, StartInsert(c) \/ Log(c) \/ AttemptSucceeds(c)
                              \/ AttemptErrs(c)
      PROVE  \/ UNCHANGED <<tables, late>>
             \/ \E l \in WriteLabels \ MarkLabels : Issued(l, c)
  <2>1. pc[c] \in WriteLabels \ MarkLabels /\ req[c] \in Request
    BY <1>3, LabelFacts, ScriptFacts
    DEF StartInsert, Log, AttemptSucceeds, AttemptErrs, KeyInv, RunsHaveRequests,
        TypeOK, MarkLabels, FinalStatus, LogLabels, StepRow, ClientLabels
  <2>2. \/ Succeeds(pc[c], c) \/ Errs(pc[c], c)
        \/ UNCHANGED <<tables, late>>
    BY <1>3 DEF StartInsert, Log, AttemptSucceeds, AttemptErrs
  <2> QED BY <2>1, <2>2 DEF Issued, Due, Succeeds, Errs
<1>4. ASSUME NEW c \in Calls, NEW l \in WriteLabels \ MarkLabels, LandLate(l, c)
      PROVE  Issued(l, c)
  BY <1>4 DEF LandLate, KeyInv, LateHasRow, TypeOK, Issued, Due
<1>5. ASSUME NEW c \in Calls, Receive(c) \/ RefuseEmptyKey(c) \/ StartSelect(c)
                              \/ Answer(c) \/ GiveUp(c) \/ Cancel(c)
      PROVE  UNCHANGED <<tables, late>>
  BY <1>5 DEF Receive, RefuseEmptyKey, StartSelect, Answer, GiveUp, Cancel
<1>6. CASE Crash \/ UNCHANGED vars
  BY <1>2, <1>6 DEF Crash, vars
<1> QED BY <1>1, <1>2, <1>3, <1>4, <1>5, <1>6 DEF Next, Step, Finished, Mark

\* A final status is final, and the row of a key is never replaced, whatever
\* statement comes late (saga_store.go:65-70, 105-113).
THEOREM SettledSagasStay == Spec => SettledStays
<1>1. TypeOK /\ KeyInv /\ MarkedOnce /\ [Next]_vars =>
        \A o \in Calls :
          /\ HasRow(o)  => /\ sagas'[o].key = sagas[o].key
                           /\ sagas'[o].payload = sagas[o].payload
          /\ Settled(o) => sagas'[o] = sagas[o]
  BY NextMarked, NextEffects DEF Effects
<1> QED
  BY <1>1, InitType, InitKey, InitMarked, NextType, NextKey, NextMarked, PTL
  DEF Spec, SettledStays
=============================================================================
