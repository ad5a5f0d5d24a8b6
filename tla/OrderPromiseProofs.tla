------------------------- MODULE OrderPromiseProofs -------------------------
(***************************************************************************)
(* What CreateOrder promises its callers, for every value of the constants *)
(* of OrderService: whom it blames for a request has no order, costs       *)
(* nothing and cannot succeed with the same request; and every step keeps  *)
(* the promise of OrderPromise.                                            *)
(***************************************************************************)
EXTENDS OrderRefinement, OrderOutcomeProofs, FiniteSetTheorems

(***************************************************************************)
(* What is known of a call.                                                *)
(***************************************************************************)
Unpaid(c) == payments[c] = "none" /\ <<"charge", c>> \notin late

\* Before it charges, a call has left nothing behind but the row it knows.
Fresh(c) ==
  /\ pc[c] \in {"idle", "insert", "select", "answer", "chargeStarted"} => Unpaid(c)
  /\ pc[c] \in {"idle", "insert", "select", "answer"} => <<"insert", c>> \notin late
  /\ pc[c] \in {"idle", "insert"} => ~HasRow(c)
  /\ pc[c] \in {"select", "answer"} /\ HasRow(c) => c \in inserted
  /\ pc[c] = "idle" => req[c] = None

\* Only a call whose payload equals that of a row goes on or is told "ok":
\* it is no NaN.
Compared(c) ==
  pc[c] \in ScriptLabels \/ reply[c].code = "ok" =>
    req[c] # None /\ req[c].payload \notin NaNPayloads

\* A refusal ends a call that has done nothing and has nothing due.
Refused(c) == reply[c].code \in {"keyRequired", "conflict", "processed"}

RefusedAtRest(c) ==
  Refused(c) =>
    /\ pc[c] = "returned"
    /\ Unpaid(c) /\ <<"insert", c>> \notin late
    /\ HasRow(c) => req[c].payload \in NaNPayloads
    /\ reply[c].code = "keyRequired" => req[c] = None

\* A conflict is one with a row of the same key.
ConflictHasRow(c) ==
  reply[c].code = "conflict" =>
    /\ req[c] # None
    /\ \E o \in Calls : /\ HasRow(o) /\ sagas[o].key = req[c].key
                        /\ PayloadDiffers(sagas[o].payload, req[c].payload)

CallInv(c) == Fresh(c) /\ Compared(c) /\ RefusedAtRest(c) /\ ConflictHasRow(c)

RefusalInv == \A c \in Calls : CallInv(c)

\* No call is refused at first.
LEMMA InitRefusal == Init => RefusalInv
  BY ScriptFacts DEF Init, RefusalInv, CallInv, Fresh, Compared, Refused,
     RefusedAtRest, ConflictHasRow, Unpaid, HasRow

(***************************************************************************)
(* Steps that are not the call's own.                                      *)
(***************************************************************************)
\* The call stays where it is, or dies with the process.
Stays(c) ==
  /\ pc'[c] = pc[c] \/ (pc'[c] = "crashed" /\ pc[c] # "returned")
  /\ req'[c] = req[c] /\ reply'[c] = reply[c]
  /\ c \in inserted => c \in inserted'

\* Its row, its payment and its statements under way change at most as far
\* as statements of its own come late.
Undisturbed(c) ==
  /\ HasRow(c)' => HasRow(c) \/ <<"insert", c>> \in late
  /\ payments[c] = "none" => payments'[c] = "none" \/ <<"charge", c>> \in late
  /\ \A l \in {"insert", "charge"} : <<l, c>> \in late' => <<l, c>> \in late

\* What is known of a call that stays undisturbed stays known.
LEMMA QuietCall ==
  ASSUME Effects, NEW c \in Calls, CallInv(c), Stays(c), Undisturbed(c)
  PROVE  CallInv(c)'
<1>1. "crashed" \notin ScriptLabels
  BY ScriptFacts
<1>2. Fresh(c)'
  BY DEF CallInv, Fresh, Stays, Undisturbed, Unpaid
<1>3. Compared(c)'
  BY <1>1 DEF CallInv, Compared, Stays
<1>4. RefusedAtRest(c)'
  BY DEF CallInv, Refused, RefusedAtRest, Stays, Undisturbed, Unpaid
<1>5. ConflictHasRow(c)'
  BY DEF CallInv, ConflictHasRow, Stays, Effects, PayloadDiffers
<1> QED BY <1>2, <1>3, <1>4, <1>5 DEF CallInv

\* A statement disturbs no call but its own, and a late one not even that.
LEMMA StatementUndisturbed ==
  ASSUME TypeOK, KeyInv, NEW d \in Calls, NEW l \in WriteLabels, Issued(l, d),
         NEW c \in Calls, c # d \/ LandLate(l, d)
  PROVE  Undisturbed(c)
<1>1. CASE c # d
  BY <1>1, LandOutcome DEF Issued, Undisturbed, HasRow, tables
<1>2. CASE c = d /\ LandLate(l, d)
  <2>1. Land(l, d) /\ <<l, d>> \in late /\ late' \subseteq late
    BY <1>2 DEF LandLate
  <2>2. HasRow(d)' => HasRow(d) \/ l = "insert"
    BY <2>1, LandRows DEF Issued, KeyInv
  <2>3. payments[d] = "none" => payments'[d] = "none" \/ l = "charge"
    BY <2>1, LandRows DEF Issued, KeyInv
  <2> QED BY <1>2, <2>1, <2>2, <2>3 DEF Undisturbed
<1> QED BY <1>1, <1>2

(***************************************************************************)
(* The call's own steps.                                                   *)
(***************************************************************************)
\* A call that ends with an error promises nothing.
LEMMA ErrorCall ==
  ASSUME TypeOK, NEW c \in Calls, Return(c, "error", None)
  PROVE  CallInv(c)'
<1>1. pc'[c] = "returned" /\ reply'[c].code = "error"
  BY DEF Return, Goto, TypeOK
<1> QED
  BY <1>1, ScriptFacts DEF CallInv, Fresh, Compared, RefusedAtRest, Refused, ConflictHasRow

\* INSERT: a row of its own is one that the call knows it created.
LEMMA InsertCall ==
  ASSUME TypeOK, KeyInv, NEW c \in Calls, CallInv(c), StartInsert(c)
  PROVE  CallInv(c)'
<1> USE DEF TypeOK
<1>1. /\ pc[c] = "insert" /\ req' = req /\ req[c] \in Request
      /\ ~HasRow(c) /\ Unpaid(c) /\ <<"insert", c>> \notin late /\ ~Refused(c)
  <2>1. pc[c] = "insert" /\ req' = req /\ req[c] \in Request
    BY ScriptFacts DEF StartInsert, KeyInv, RunsHaveRequests
  <2> QED BY <2>1 DEF CallInv, Fresh, RefusedAtRest
<1>2. CASE /\ Succeeds("insert", c) /\ Goto(c, "select") /\ reply' = reply
           /\ inserted' = IF KeyTaken(req[c].key) THEN inserted ELSE inserted \cup {c}
  <2>1. pc'[c] = "select" /\ late' = late /\ Land("insert", c)
    BY <1>2 DEF Succeeds, Goto
  <2>2. HasRow(c)' => c \in inserted'
    BY <1>1, <1>2, <2>1, LandRows, LabelFacts DEF KeyInv
  <2>3. payments'[c] = "none"
    BY <1>1, <2>1, LandRows, LabelFacts DEF KeyInv, Unpaid
  <2>4. Fresh(c)'
    BY <1>1, <2>1, <2>2, <2>3 DEF Fresh, Unpaid
  <2>5. Compared(c)' /\ RefusedAtRest(c)' /\ ConflictHasRow(c)'
    BY <1>1, <1>2, <2>1, ScriptFacts
    DEF CallInv, Compared, RefusedAtRest, ConflictHasRow, Refused
  <2> QED BY <2>4, <2>5 DEF CallInv
<1>3. CASE Return(c, "error", None)
  BY <1>3, ErrorCall
<1> QED BY <1>2, <1>3 DEF StartInsert

\* SELECT: nothing of the call changes but what it has read.
LEMMA SelectCall ==
  ASSUME TypeOK, KeyInv, NEW c \in Calls, CallInv(c), StartSelect(c)
  PROVE  CallInv(c)'
<1> USE DEF TypeOK
<1>1. CASE Return(c, "error", None)
  BY <1>1, ErrorCall
<1>2. CASE Goto(c, "answer") /\ reply' = reply
  <2>1. /\ pc[c] = "select" /\ pc'[c] = "answer" /\ reply' = reply
        /\ UNCHANGED <<tables, late, inserted, req>>
    BY <1>2 DEF StartSelect, Goto
  <2>2. Fresh(c)'
    BY <2>1 DEF CallInv, Fresh, Unpaid, tables, HasRow
  <2>3. Compared(c)'
    BY <2>1, ScriptFacts DEF CallInv, Compared
  <2>4. RefusedAtRest(c)' /\ ConflictHasRow(c)'
    BY <2>1 DEF CallInv, RefusedAtRest, Refused, ConflictHasRow, tables, HasRow,
       PayloadDiffers
  <2> QED BY <2>2, <2>3, <2>4 DEF CallInv
<1> QED BY <1>1, <1>2 DEF StartSelect

\* The row that was read decides, and the call's own row is the only one it
\* can be when there is one.
LEMMA AnswerCall ==
  ASSUME TypeOK, KeyInv, NEW c \in Calls, CallInv(c), Answer(c)
  PROVE  CallInv(c)'
<1> USE DEF TypeOK
<1> DEFINE o == record[c].order
<1>1. /\ pc[c] = "answer" /\ req' = req /\ req[c] \in Request /\ req[c] # None
      /\ UNCHANGED <<tables, late, inserted>>
      /\ Unpaid(c) /\ <<"insert", c>> \notin late /\ ~Refused(c)
      /\ HasRow(c) => c \in inserted
  <2>1. pc[c] = "answer" /\ req' = req /\ UNCHANGED <<tables, late, inserted>>
    BY DEF Answer
  <2>2. req[c] \in Request /\ req[c] # None
    BY <2>1, ScriptFacts DEF KeyInv, RunsHaveRequests
  <2> QED BY <2>1, <2>2 DEF CallInv, Fresh, RefusedAtRest
<1>2. /\ o \in Calls /\ HasRow(o) /\ sagas[o].key = req[c].key
      /\ sagas[o].payload = record[c].payload
  BY <1>1 DEF KeyInv, RecordsAreRows, ReadsRow, Record
<1>3. ASSUME NEW code, NEW x, Return(c, code, x)
      PROVE  pc'[c] = "returned" /\ reply'[c].code = code
  BY <1>3 DEF Return, Goto
<1>4. CASE /\ PayloadDiffers(record[c].payload, req[c].payload)
           /\ Return(c, "conflict", None)
  <2>1. pc'[c] = "returned" /\ reply'[c].code = "conflict"
    BY <1>3, <1>4
  <2>2. HasRow(c) => req[c].payload \in NaNPayloads
    BY <1>2, <1>4 DEF KeyInv, UniqueKeys, RowsAsAsked, PayloadDiffers
  <2>3. RefusedAtRest(c)'
    BY <1>1, <2>1, <2>2 DEF RefusedAtRest, Refused, Unpaid, tables, HasRow
  <2>4. ConflictHasRow(c)'
    BY <1>1, <1>2, <1>4 DEF ConflictHasRow, tables, HasRow, PayloadDiffers
  <2>5. Fresh(c)' /\ Compared(c)'
    BY <2>1, ScriptFacts DEF Fresh, Compared
  <2> QED BY <2>3, <2>4, <2>5 DEF CallInv
<1>5. CASE /\ ~PayloadDiffers(record[c].payload, req[c].payload)
           /\ \/ Goto(c, "chargeStarted") /\ reply' = reply
              \/ Return(c, "ok", o)
              \/ Return(c, "processed", None) /\ ~Created(c)
  <2>1. req[c].payload \notin NaNPayloads
    BY <1>5 DEF PayloadDiffers
  <2>2. Compared(c)'
    BY <1>1, <2>1 DEF Compared
  <2>3. CASE Goto(c, "chargeStarted") /\ reply' = reply
    <3>1. pc'[c] = "chargeStarted"
      BY <2>3 DEF Goto
    <3> QED
      BY <1>1, <2>2, <2>3, <3>1 DEF CallInv, Fresh, Unpaid, RefusedAtRest, Refused,
         ConflictHasRow, tables
  <2>4. CASE Return(c, "ok", o)
    <3>1. pc'[c] = "returned" /\ reply'[c].code = "ok"
      BY <1>3, <2>4
    <3> QED BY <2>2, <3>1 DEF CallInv, Fresh, RefusedAtRest, Refused, ConflictHasRow
  <2>5. CASE Return(c, "processed", None) /\ ~Created(c)
    <3>1. pc'[c] = "returned" /\ reply'[c].code = "processed" /\ ~HasRow(c)
      BY <1>1, <1>3, <2>5 DEF Created
    <3> QED
      BY <1>1, <2>2, <3>1 DEF CallInv, Fresh, Unpaid, RefusedAtRest, Refused,
         ConflictHasRow, tables, HasRow
  <2> QED BY <1>5, <2>3, <2>4, <2>5
<1> QED BY <1>4, <1>5 DEF Answer

\* The script: whoever is on it was compared, and is not refused any more.
LEMMA ScriptCall ==
  ASSUME TypeOK, KeyInv, NEW c \in Calls, CallInv(c),
         Log(c) \/ GiveUp(c) \/ AttemptSucceeds(c) \/ AttemptErrs(c) \/ Mark(c)
  PROVE  CallInv(c)'
<1> USE DEF TypeOK
<1>1. pc[c] \in ScriptLabels /\ req' = req
  BY DEF Log, GiveUp, AttemptSucceeds, AttemptErrs, Mark, ScriptLabels
<1>2. /\ req[c] # None /\ req[c].payload \notin NaNPayloads /\ ~Refused(c)
      /\ pc[c] # "returned"
  BY <1>1, ScriptFacts DEF CallInv, Compared, RefusedAtRest
<1>3. pc'[c] \notin {"idle", "insert", "select", "answer", "chargeStarted"}
  <2>1. /\ \A l \in LogLabels :
             AfterLog[l] \notin {"idle", "insert", "select", "answer", "chargeStarted"}
        /\ \A l \in ClientLabels :
             {l, OnError[l], OnSuccess[l]}
               \cap {"idle", "insert", "select", "answer", "chargeStarted"} = {}
    BY DEF LogLabels, ClientLabels, StepRow, AfterLog, OnError, OnSuccess
  <2>2. CASE Log(c)
    BY <2>1, <2>2 DEF Log, Goto
  <2>3. CASE GiveUp(c) \/ AttemptErrs(c)
    <3>1. pc'[c] \in {pc[c], OnError[pc[c]]} /\ pc[c] \in ClientLabels
      BY <2>3 DEF GiveUp, AttemptErrs, Goto
    <3> QED BY <2>1, <3>1
  <2>4. CASE AttemptSucceeds(c)
    BY <2>1, <2>4 DEF AttemptSucceeds, Goto
  <2>5. CASE Mark(c)
    BY <2>5 DEF Mark, Return, Goto
  <2> QED BY <2>2, <2>3, <2>4, <2>5
<1>4. reply' = reply \/ (\E code \in {"ok", "error"}, x \in Calls \cup {None} : Return(c, code, x))
  BY DEF Log, GiveUp, AttemptSucceeds, AttemptErrs, Mark
<1>5. reply'[c] = reply[c] \/ reply'[c].code \in {"ok", "error"}
  BY <1>4 DEF Return
<1>6. Fresh(c)' /\ Compared(c)'
  BY <1>1, <1>2, <1>3 DEF Fresh, Compared
<1>7. ~Refused(c)'
  BY <1>2, <1>5 DEF Refused
<1> QED BY <1>6, <1>7 DEF CallInv, RefusedAtRest, Refused, ConflictHasRow

\* The first step of a call.
LEMMA ReceiveCall ==
  ASSUME TypeOK, NEW c \in Calls, CallInv(c), Receive(c) \/ RefuseEmptyKey(c)
  PROVE  CallInv(c)'
<1> USE DEF TypeOK
<1>1. /\ pc[c] = "idle" /\ UNCHANGED <<tables, late, inserted>>
      /\ req[c] = None /\ ~HasRow(c) /\ Unpaid(c)
      /\ <<"insert", c>> \notin late /\ ~Refused(c) /\ reply[c].code # "ok"
  BY DEF Receive, RefuseEmptyKey, CallInv, Fresh, Compared, RefusedAtRest
<1>2. CASE Receive(c)
  <2>1. pc'[c] = "insert" /\ reply' = reply
    BY <1>2 DEF Receive, Goto
  <2> QED
    BY <1>1, <2>1, ScriptFacts DEF CallInv, Fresh, Compared, RefusedAtRest, Refused,
       ConflictHasRow, Unpaid, HasRow, tables
<1>3. CASE RefuseEmptyKey(c)
  <2>1. pc'[c] = "returned" /\ reply'[c].code = "keyRequired" /\ req' = req
    BY <1>3 DEF RefuseEmptyKey, Return, Goto
  <2> QED
    BY <1>1, <2>1, ScriptFacts DEF CallInv, Fresh, Compared, RefusedAtRest, Refused,
       ConflictHasRow, Unpaid, HasRow, tables
<1> QED BY <1>2, <1>3

-----------------------------------------------------------------------------
\* A step of call d changes nothing of what is known of another call.
LEMMA OtherCall ==
  ASSUME TypeOK, KeyInv, Effects, NEW d \in Calls,
         Receive(d) \/ RefuseEmptyKey(d) \/ Step(d),
         NEW c \in Calls, c # d, CallInv(c)
  PROVE  CallInv(c)'
<1>1. Stays(c)
  <2>1. CASE \/ Receive(d) \/ RefuseEmptyKey(d) \/ StartInsert(d)
             \/ StartSelect(d) \/ Answer(d)
    BY <2>1 DEF Receive, RefuseEmptyKey, StartInsert, StartSelect, Answer, Return,
       Goto, Stays, TypeOK
  <2>2. CASE Log(d) \/ GiveUp(d) \/ AttemptSucceeds(d) \/ AttemptErrs(d) \/ Mark(d)
    BY <2>2 DEF Log, GiveUp, AttemptSucceeds, AttemptErrs, Mark, Return, Goto,
       Stays, TypeOK
  <2> QED BY <2>1, <2>2 DEF Step
<1>2. CASE UNCHANGED <<tables, late>>
  BY <1>1, <1>2, QuietCall DEF Undisturbed, tables, HasRow
<1>3. CASE StartInsert(d) \/ Log(d) \/ AttemptSucceeds(d) \/ AttemptErrs(d) \/ Mark(d)
  <2>1. pc[d] \in WriteLabels /\ req[d] \in Request
    BY <1>3, LabelFacts, ScriptFacts
    DEF StartInsert, Log, AttemptSucceeds, AttemptErrs, Mark, KeyInv,
        RunsHaveRequests, TypeOK
  <2>2. \/ Succeeds(pc[d], d) \/ Errs(pc[d], d)
        \/ UNCHANGED <<tables, late>>
    BY <1>3 DEF StartInsert, Log, AttemptSucceeds, AttemptErrs, Mark
  <2>3. CASE Issued(pc[d], d)
    BY <1>1, <2>1, <2>3, StatementUndisturbed, QuietCall
  <2> QED BY <1>2, <2>1, <2>2, <2>3 DEF Issued, Due, Succeeds, Errs
<1>4. CASE Receive(d) \/ RefuseEmptyKey(d) \/ StartSelect(d) \/ Answer(d) \/ GiveUp(d)
  BY <1>2, <1>4 DEF Receive, RefuseEmptyKey, StartSelect, Answer, GiveUp
<1> QED BY <1>3, <1>4 DEF Step

\* Every step keeps what is known of every call.
LEMMA NextRefusal == TypeOK /\ KeyInv /\ RefusalInv /\ [Next]_vars => RefusalInv'
<1> SUFFICES ASSUME TypeOK, KeyInv, RefusalInv, [Next]_vars, NEW c \in Calls
             PROVE  CallInv(c)'
  BY DEF RefusalInv
<1>1. Effects /\ CallInv(c)
  BY NextEffects DEF RefusalInv
<1>2. ASSUME NEW d \in Calls, Receive(d) \/ RefuseEmptyKey(d) \/ Step(d)
      PROVE  CallInv(c)'
  <2>1. CASE d # c
    BY <1>1, <1>2, <2>1, OtherCall
  <2>2. CASE d = c
    BY <1>1, <1>2, <2>2, ReceiveCall, InsertCall, SelectCall, AnswerCall,
       ScriptCall DEF Step
  <2> QED BY <2>1, <2>2
<1>3. ASSUME NEW d \in Calls, NEW l \in WriteLabels, LandLate(l, d) PROVE CallInv(c)'
  <2>1. Issued(l, d)
    BY <1>3 DEF LandLate, KeyInv, LateHasRow, TypeOK, Issued, Due
  <2>2. Stays(c)
    BY <1>3 DEF LandLate, callVars, Stays
  <2> QED BY <1>1, <1>3, <2>1, <2>2, StatementUndisturbed, QuietCall
<1>4. CASE (\E d \in Calls : Cancel(d)) \/ Crash \/ UNCHANGED vars
  <2>1. Stays(c)
    BY <1>4, ScriptFacts DEF Cancel, Crash, Active, vars, callVars, Stays, TypeOK
  <2>2. Undisturbed(c)
    BY <1>4 DEF Cancel, Crash, vars, callVars, tables, Undisturbed, HasRow
  <2> QED BY <1>1, <2>1, <2>2, QuietCall
<1> QED BY <1>2, <1>3, <1>4 DEF Next, Finished

\* What is known of the calls holds of every run.
LEMMA RefusalCorrect == Spec => []RefusalInv
  BY InitType, InitKey, InitRefusal, NextType, NextKey, NextRefusal, PTL DEF Spec

\* Only what mapOrderError maps to InvalidArgument or FailedPrecondition
\* blames the request (order_server.go:45-62).
LEMMA BlamedReplies ==
  ASSUME TypeOK, NEW c \in Calls, BlamesRequest(c)
  PROVE  reply[c].code \in {"keyRequired", "conflict"}
<1>1. reply[c].code \in Codes
  BY DEF TypeOK
<1> QED BY <1>1 DEF BlamesRequest, StatusCodes, Codes

\* A refused call has no order, unless its amount is a NaN, and nothing of
\* it is paid or will be (order.go:71-83).
THEOREM RefusalIsFree == Spec => []RefusalCostsNothing
<1>1. TypeOK /\ RefusalInv => RefusalCostsNothing
  BY BlamedReplies
  DEF RefusalInv, CallInv, RefusedAtRest, Refused, Unpaid, RefusalCostsNothing
<1> QED BY <1>1, TypeCorrect, RefusalCorrect, PTL

\* Whoever is told that a key was reused with a different payload did so, or
\* sent a NaN (saga_store.go:97-99, saga/types.go:33).
THEOREM ConflictIsReuse == Spec => []ConflictMeansReuse
<1>1. KeyInv /\ RefusalInv => ConflictMeansReuse
  <2> SUFFICES ASSUME KeyInv, RefusalInv, NEW c \in Calls,
                      reply[c].code = "conflict", req[c].payload \notin NaNPayloads
               PROVE  \E d \in Calls : /\ req[d] # None
                                       /\ req[d].key = req[c].key
                                       /\ req[d].payload # req[c].payload
    BY DEF ConflictMeansReuse
  <2>1. PICK o \in Calls : /\ HasRow(o) /\ sagas[o].key = req[c].key
                           /\ PayloadDiffers(sagas[o].payload, req[c].payload)
    BY DEF RefusalInv, CallInv, ConflictHasRow
  <2>2. req[o] # None /\ req[o].key = req[c].key /\ req[o].payload # req[c].payload
    BY <2>1 DEF KeyInv, RowsAsAsked, PayloadDiffers
  <2> QED BY <2>2
<1> QED BY <1>1, KeyCorrect, RefusalCorrect, PTL

\* A request that is blamed is wrong for good: no replay of it, before or
\* after, succeeds (order_server.go:45-62, saga_store.go:97-99).
THEOREM BlamedForGood == Spec => []BlameIsFinal
<1>1. TypeOK /\ KeyInv /\ OutcomeInv /\ RefusalInv => BlameIsFinal
  <2> SUFFICES ASSUME TypeOK, KeyInv, OutcomeInv, RefusalInv,
                      NEW c \in Calls, NEW d \in Calls,
                      BlamesRequest(c), req[d] = req[c], reply[d].code = "ok"
               PROVE  FALSE
    BY DEF BlameIsFinal
  <2>1. req[d] # None /\ req[d].payload \notin NaNPayloads
    BY DEF RefusalInv, CallInv, Compared
  <2>2. PICK o \in Calls : /\ HasRow(o) /\ sagas[o].key = req[d].key
                           /\ sagas[o].payload = req[d].payload
    BY DEF OutcomeInv, OkIsKept, Kept
  <2>3. CASE reply[c].code = "keyRequired"
    BY <2>1, <2>3 DEF RefusalInv, CallInv, RefusedAtRest, Refused
  <2>4. CASE reply[c].code = "conflict"
    <3>1. PICK p \in Calls : /\ HasRow(p) /\ sagas[p].key = req[c].key
                             /\ PayloadDiffers(sagas[p].payload, req[c].payload)
      BY <2>4 DEF RefusalInv, CallInv, ConflictHasRow
    <3>2. o = p
      BY <2>2, <3>1 DEF KeyInv, UniqueKeys
    <3> QED BY <2>1, <2>2, <3>1, <3>2 DEF PayloadDiffers
  <2> QED BY <2>3, <2>4, BlamedReplies
<1> QED BY <1>1, TypeCorrect, KeyCorrect, OutcomeCorrect, RefusalCorrect, PTL

-----------------------------------------------------------------------------
(***************************************************************************)
(* The promise of OrderPromise: what it sees of the tables.                *)
(***************************************************************************)
PaidFor(k)     == \E o \in OrdersOf(k) : payments[o] # "none"
RefundedFor(k) == \E o \in OrdersOf(k) : payments[o] = "refunded"

\* The choice and the counts of the refinement mapping, resolved: a key has
\* one row, and at most one of its orders a payment.
View ==
  /\ Owner = [k \in Keys |-> Owner[k]]
  /\ Charges = [k \in Keys |-> Charges[k]]
  /\ Refunds = [k \in Keys |-> Refunds[k]]
  /\ \A k \in Keys : ~KeyTaken(k) => Owner[k] = None
  /\ \A o \in Calls : HasRow(o) => Owner[sagas[o].key] = sagas[o].payload
  /\ \A k \in Keys : Charges[k] = IF PaidFor(k) THEN 1 ELSE 0
  /\ \A k \in Keys : Refunds[k] = IF RefundedFor(k) THEN 1 ELSE 0

\* A set with at most one member has that many.
LEMMA AtMostOne ==
  ASSUME NEW S, \A x, y \in S : x = y
  PROVE  Cardinality(S) = IF S = {} THEN 0 ELSE 1
<1>1. CASE S = {}
  BY <1>1, FS_EmptySet
<1>2. CASE S # {}
  <2>1. PICK x \in S : TRUE
    BY <1>2
  <2>2. S = {x}
    BY <2>1
  <2> QED BY <1>2, <2>2, FS_Singleton
<1> QED BY <1>1, <1>2

\* The mapping resolves this way in every state the code reaches.
LEMMA ViewFacts == TypeOK /\ KeyInv => View
<1> SUFFICES ASSUME TypeOK, KeyInv PROVE View
  OBVIOUS
<1>1. AtMostOneChargePerKey
  BY DEF KeyInv, UniqueKeys, RowsAsAsked, WorkHasRow, AtMostOneChargePerKey
<1>2. /\ Owner = [k \in Keys |-> Owner[k]]
      /\ Charges = [k \in Keys |-> Charges[k]]
      /\ Refunds = [k \in Keys |-> Refunds[k]]
  BY DEF Owner, Charges, Refunds
<1>3. \A k \in Keys : ~KeyTaken(k) => Owner[k] = None
  BY DEF Owner
<1>4. ASSUME NEW o \in Calls, HasRow(o) PROVE Owner[sagas[o].key] = sagas[o].payload
  <2> DEFINE k == sagas[o].key
  <2>1. k \in Keys /\ KeyTaken(k)
    BY <1>4 DEF TypeOK, HasRow, SagaRow, KeyTaken
  <2>2. \A p \in Calls : HasRow(p) /\ sagas[p].key = k => p = o
    BY <1>4 DEF KeyInv, UniqueKeys
  <2>3. OrderOf(k) = o
    BY <1>4, <2>2, Zenon DEF OrderOf
  <2> QED BY <2>1, <2>3 DEF Owner
<1>5. ASSUME NEW k \in Keys PROVE Charges[k] = IF PaidFor(k) THEN 1 ELSE 0
  <2> DEFINE S == {o \in OrdersOf(k) : payments[o] # "none"}
  <2>1. \A x, y \in S : x = y
    BY <1>1 DEF OrdersOf, AtMostOneChargePerKey
  <2>2. Charges[k] = Cardinality(S)
    BY DEF Charges
  <2>3. S = {} <=> ~PaidFor(k)
    BY DEF PaidFor
  <2> QED BY <2>1, <2>2, <2>3, AtMostOne
<1>6. ASSUME NEW k \in Keys PROVE Refunds[k] = IF RefundedFor(k) THEN 1 ELSE 0
  <2> DEFINE S == {o \in OrdersOf(k) : payments[o] = "refunded"}
  <2>1. \A x, y \in S : x = y
    BY <1>1 DEF OrdersOf, AtMostOneChargePerKey
  <2>2. Refunds[k] = Cardinality(S)
    BY DEF Refunds
  <2>3. S = {} <=> ~RefundedFor(k)
    BY DEF RefundedFor
  <2> QED BY <2>1, <2>2, <2>3, AtMostOne
<1> QED BY <1>2, <1>3, <1>4, <1>5, <1>6 DEF View

\* The same of the state after a step.
LEMMA NextView == TypeOK /\ KeyInv /\ [Next]_vars => View'
<1>1. TypeOK' /\ KeyInv' => View'
  BY ViewFacts, PTL
<1> QED BY <1>1, NextType, NextKey

\* Keys whose rows stay keep their owner.
LEMMA SameOwner ==
  ASSUME TypeOK, View, View',
         \A o \in Calls : HasRow(o)' <=> HasRow(o),
         \A o \in Calls : HasRow(o) => /\ sagas'[o].key = sagas[o].key
                                       /\ sagas'[o].payload = sagas[o].payload
  PROVE  Owner' = Owner
<1>1. ASSUME NEW k \in Keys PROVE Owner'[k] = Owner[k]
  <2>1. CASE KeyTaken(k)
    <3>1. PICK o \in Calls : HasRow(o) /\ sagas[o].key = k
      BY <2>1 DEF KeyTaken, HasRow
    <3>2. HasRow(o)' /\ sagas'[o].key = k
      BY <3>1
    <3> QED BY <3>1, <3>2 DEF View
  <2>2. CASE ~KeyTaken(k)
    <3>1. ~KeyTaken(k)'
      BY <2>2 DEF KeyTaken, HasRow
    <3> QED BY <2>2, <3>1 DEF View
  <2> QED BY <2>1, <2>2
<1> QED BY <1>1 DEF View

\* Keys whose orders keep their payments and drivers keep their counts.
LEMMA SameCounts ==
  ASSUME View, View',
         \A k \in Keys : PaidFor(k)' <=> PaidFor(k),
         \A k \in Keys : RefundedFor(k)' <=> RefundedFor(k)
  PROVE  Charges' = Charges /\ Refunds' = Refunds
<1>1. \A k \in Keys : Charges'[k] = Charges[k] /\ Refunds'[k] = Refunds[k]
  BY DEF View
<1> QED BY <1>1 DEF View


(***************************************************************************)
(* Who was told "ok".                                                      *)
(***************************************************************************)
\* The key of such a call is paid for, driven and not paid back.
OkView ==
  \A c \in Oks : /\ req[c] # None
                 /\ Owner[req[c].key] = req[c].payload
                 /\ Charges[req[c].key] = 1 /\ Refunds[req[c].key] = 0
                 /\ req[c].key \in Driven

\* An order that is kept is the one its key is charged for.
LEMMA OkViewFacts ==
  TypeOK /\ KeyInv /\ OutcomeInv /\ RefusalInv => OkView
<1> SUFFICES ASSUME TypeOK, KeyInv, OutcomeInv, RefusalInv,
                    NEW c \in Calls, reply[c].code = "ok"
             PROVE  /\ req[c] # None
                    /\ Owner[req[c].key] = req[c].payload
                    /\ Charges[req[c].key] = 1 /\ Refunds[req[c].key] = 0
                    /\ req[c].key \in Driven
  BY DEF OkView, Oks
<1>1. View
  BY ViewFacts
<1>2. req[c] # None
  BY DEF RefusalInv, CallInv, Compared
<1>3. req[c].key \in Keys
  BY <1>2 DEF TypeOK, Request
<1>4. PICK o \in Calls : /\ Kept(o)
                         /\ sagas[o].key = req[c].key
                         /\ sagas[o].payload = req[c].payload
  BY DEF OutcomeInv, OkIsKept
<1>5. o \in OrdersOf(req[c].key) /\ payments[o] = "charged" /\ assignments[o] # None
      /\ HasRow(o)
  BY <1>4 DEF Kept, KeyInv, RowsAsAsked, OrdersOf
<1>6. Owner[req[c].key] = req[c].payload
  BY <1>1, <1>4, <1>5 DEF View
<1>7. Charges[req[c].key] = 1
  BY <1>1, <1>3, <1>5 DEF View, PaidFor
<1>8. ~RefundedFor(req[c].key)
  <2>1. ASSUME NEW p \in OrdersOf(req[c].key), payments[p] = "refunded" PROVE FALSE
    BY <1>4, <1>5, <2>1 DEF OrdersOf, KeyInv, UniqueKeys, RowsAsAsked, WorkHasRow
  <2> QED BY <2>1 DEF RefundedFor
<1>9. Refunds[req[c].key] = 0
  BY <1>1, <1>3, <1>8 DEF View
<1>10. req[c].key \in Driven
  BY <1>3, <1>5 DEF Driven
<1> QED BY <1>2, <1>6, <1>7, <1>9, <1>10

\* The same of the state after a step.
LEMMA NextOkView ==
  TypeOK /\ KeyInv /\ OutcomeInv /\ RefusalInv /\ [Next]_vars => OkView'
<1>1. TypeOK' /\ KeyInv' /\ OutcomeInv' /\ RefusalInv' => OkView'
  BY OkViewFacts, PTL
<1> QED BY <1>1, NextType, NextKey, NextOutcome, NextRefusal

\* Replies other than "ok" to calls that were told nothing change nothing.
LEMMA SameOks ==
  ASSUME TypeOK, OutcomeInv, NEW c \in Calls, pc[c] # "returned",
         \/ reply' = reply
         \/ \E code \in Codes \ {"ok"}, x \in Calls \cup {None} : Return(c, code, x)
  PROVE  Oks' = Oks
<1>1. reply[c].code # "ok"
  BY DEF OutcomeInv, OkIsKept
<1>2. ASSUME NEW d \in Calls PROVE reply'[d].code = "ok" <=> reply[d].code = "ok"
  BY <1>1, <1>2 DEF Return, TypeOK
<1> QED BY <1>2 DEF Oks

\* Whoever is told "ok" now may be, as the promise has it.
LEMMA TellsOk ==
  ASSUME TypeOK, OkView', NEW c \in Calls, NEW x, Return(c, "ok", x),
         req' = req, Owner' = Owner, Charges' = Charges, Refunds' = Refunds,
         Driven' = Driven
  PROVE  Promise!TellOk(c)
<1>1. Oks' = Oks \cup {c}
  BY DEF Oks, Return, TypeOK
<1> QED BY <1>1 DEF OkView, Promise!TellOk

-----------------------------------------------------------------------------
(***************************************************************************)
(* Drivers are only sent for orders that were charged.                     *)
(***************************************************************************)
\* A driver is sent, now or late, for an order with a payment.
DrivenIsPaid ==
  \A o \in Calls :
    assignments[o] # None \/ <<"assign", o>> \in late => payments[o] # "none"

\* An assignment comes from its statement.
LEMMA LandDrives ==
  ASSUME TypeOK, NEW c \in Calls, NEW l \in WriteLabels, Land(l, c),
         NEW o \in Calls, assignments'[o] # assignments[o]
  PROVE  o = c /\ l = "assign"
  BY DEF Land, InsertSaga, InsertPayment, InsertAssignment, UpdatePayment,
     AddStep, UpdateStatus, TypeOK

\* No driver is sent at first.
LEMMA InitDriven == Init => DrivenIsPaid
  BY DEF Init, DrivenIsPaid

\* The assignment is only ever due after the charge (order.go:85-92).
LEMMA NextDriven ==
  TypeOK /\ KeyInv /\ OutcomeInv /\ DrivenIsPaid /\ [Next]_vars => DrivenIsPaid'
<1> SUFFICES ASSUME TypeOK, KeyInv, OutcomeInv, DrivenIsPaid, [Next]_vars,
                    NEW o \in Calls,
                    assignments'[o] # None \/ <<"assign", o>> \in late'
             PROVE  payments'[o] # "none"
  BY DEF DrivenIsPaid
<1>1. Grows /\ "assign" \in WriteLabels
  BY NextGrows, LabelFacts DEF ClientLabels
<1>2. assignments[o] # None \/ Due("assign", o)
  <2>1. CASE <<"assign", o>> \in late'
    BY <1>1, <2>1 DEF Grows
  <2>2. CASE assignments'[o] # assignments[o]
    <3>1. PICK c \in Calls, l \in WriteLabels : Issued(l, c) /\ Land(l, c)
      BY <2>2, OneStatement DEF Issued, tables
    <3>2. o = c /\ l = "assign"
      BY <2>2, <3>1, LandDrives
    <3> QED BY <3>1, <3>2 DEF Issued
  <2> QED BY <2>1, <2>2
<1>3. payments[o] # "none"
  BY <1>2 DEF Due, DrivenIsPaid, OutcomeInv, PaidBeforeAssign
<1> QED BY <1>1, <1>3 DEF Grows

\* A driver is only sent for an order that was charged (order.go:85-92).
LEMMA DrivenCorrect == Spec => []DrivenIsPaid
  BY InitType, InitKey, InitOutcome, InitDriven, NextType, NextKey, NextOutcome,
     NextDriven, PTL DEF Spec


-----------------------------------------------------------------------------
(***************************************************************************)
(* Every step is a step of the promise, or none.                           *)
(***************************************************************************)
\* What the steps below rest on: the invariants, and the view before and
\* after the step.
Viewed ==
  /\ TypeOK /\ KeyInv /\ OutcomeInv /\ RefusalInv /\ DrivenIsPaid
  /\ KeyInv' /\ View /\ View' /\ OkView'

\* The INSERT binds the key of its call (saga_store.go:65-70).
LEMMA InsertBinds ==
  ASSUME Viewed, NEW c \in Calls, Land("insert", c), req[c] \in Request,
         req' = req, Oks' = Oks
  PROVE  Promise!Bind(c) \/ UNCHANGED Promise!vars
<1> USE DEF Viewed
<1> DEFINE k == req[c].key
<1>1. UNCHANGED <<steps, payments, assignments>>
  BY LabelFacts DEF Land, InsertSaga, ClientLabels
<1>2. Charges' = Charges /\ Refunds' = Refunds /\ Driven' = Driven
  BY <1>1 DEF Charges, Refunds, Driven, OrdersOf
<1>3. /\ \A o \in Calls : HasRow(o) =>
           /\ HasRow(o)'
           /\ sagas'[o].key = sagas[o].key
           /\ sagas'[o].payload = sagas[o].payload
      /\ \A o \in Calls : HasRow(o)' /\ ~HasRow(o) =>
           /\ o = c /\ ~KeyTaken(req[c].key)
           /\ sagas'[o].key = req[c].key
           /\ sagas'[o].payload = req[c].payload
      /\ ~KeyTaken(req[c].key) => HasRow(c)'
  BY LandRows, LabelFacts DEF KeyInv
<1>4. CASE KeyTaken(k)
  <2>1. Owner' = Owner
    BY <1>3, <1>4, SameOwner
  <2> QED BY <1>2, <2>1 DEF Promise!vars
<1>5. CASE ~KeyTaken(k)
  <2>1. k \in Keys /\ req[c] # None
    BY ConstantsAssumption DEF Request
  <2>2. Owner[k] = None
    BY <1>5, <2>1 DEF View
  <2>3. ASSUME NEW x \in Keys
        PROVE  Owner'[x] = IF x = k THEN req[c].payload ELSE Owner[x]
    <3>1. CASE x = k
      <4>1. HasRow(c)' /\ ~HasRow(c)
        BY <1>3, <1>5 DEF KeyInv, RowsAsAsked, KeyTaken, HasRow
      <4> QED BY <1>3, <3>1, <4>1 DEF View
    <3>2. CASE x # k /\ KeyTaken(x)
      <4>1. PICK o \in Calls : HasRow(o) /\ sagas[o].key = x
        BY <3>2 DEF KeyTaken, HasRow
      <4> QED BY <1>3, <3>2, <4>1 DEF View
    <3>3. CASE x # k /\ ~KeyTaken(x)
      <4>1. ~KeyTaken(x)'
        BY <1>3, <3>3 DEF KeyTaken, HasRow
      <4> QED BY <3>3, <4>1 DEF View
    <3> QED BY <3>1, <3>2, <3>3
  <2>4. Owner' = [Owner EXCEPT ![k] = req[c].payload]
    BY <2>1, <2>3 DEF View
  <2> QED BY <1>2, <2>1, <2>2, <2>4 DEF Promise!Bind
<1> QED BY <1>4, <1>5

\* The charge is the first of its key (postgres_payment.go:57).
LEMMA ChargeCharges ==
  ASSUME Viewed, NEW c \in Calls, Land("charge", c), HasRow(c),
         req' = req, Oks' = Oks
  PROVE  Promise!Charge(req[c].key) \/ UNCHANGED Promise!vars
<1> USE DEF Viewed
<1> DEFINE k == req[c].key
<1>1. /\ UNCHANGED <<sagas, steps, assignments>>
      /\ payments' = [payments EXCEPT ![c] = IF @ = "none" THEN "charged" ELSE @]
  BY LabelFacts DEF Land, InsertPayment, ClientLabels, LogLabels, MarkLabels,
     StepRow, FinalStatus
<1>2. Owner' = Owner /\ Driven' = Driven
  BY <1>1 DEF Owner, OrderOf, KeyTaken, HasRow, Driven, OrdersOf
<1>3. CASE payments[c] # "none"
  <2>1. payments' = payments
    BY <1>1, <1>3 DEF TypeOK
  <2>2. Charges' = Charges /\ Refunds' = Refunds
    BY <2>1 DEF Charges, Refunds, OrdersOf
  <2> QED BY <1>2, <2>2 DEF Promise!vars
<1>4. CASE payments[c] = "none"
  <2>1. /\ payments'[c] = "charged"
        /\ \A o \in Calls : o # c => payments'[o] = payments[o]
    BY <1>1, <1>4 DEF TypeOK
  <2>2. k \in Keys /\ c \in OrdersOf(k) /\ sagas[c].key = k
    BY ConstantsAssumption DEF KeyInv, RowsAsAsked, TypeOK, Request, OrdersOf
  <2>3. ~PaidFor(k)
    <3>1. ASSUME NEW o \in OrdersOf(k), payments[o] # "none" PROVE FALSE
      BY <1>4, <2>2, <3>1 DEF OrdersOf, KeyInv, UniqueKeys, RowsAsAsked, WorkHasRow
    <3> QED BY <3>1 DEF PaidFor
  <2>4. Charges[k] = 0
    BY <2>2, <2>3 DEF View
  <2>5. Owner[k] # None
    <3>1. sagas[c].payload # None
      BY ConstantsAssumption, <2>2 DEF TypeOK, HasRow, SagaRow
    <3> QED BY <2>2, <3>1 DEF View
  <2>6. \A x \in Keys : OrdersOf(x)' = OrdersOf(x)
    BY DEF OrdersOf
  <2>7. PaidFor(k)' /\ (\A x \in Keys : x # k => (PaidFor(x)' <=> PaidFor(x)))
    BY <2>1, <2>2, <2>6 DEF PaidFor, OrdersOf
  <2>8. Charges' = [Charges EXCEPT ![k] = 1]
    BY <2>2, <2>7 DEF View
  <2>9. \A x \in Keys : RefundedFor(x)' <=> RefundedFor(x)
    BY <1>4, <2>1, <2>6 DEF RefundedFor, OrdersOf
  <2>10. Refunds' = Refunds
    BY <2>9 DEF View
  <2> QED BY <1>2, <2>4, <2>5, <2>8, <2>10 DEF Promise!Charge
<1> QED BY <1>3, <1>4

\* The refund is of a charge that no "ok" rests on (order.go:96-104,
\* postgres_payment.go:78).
LEMMA RefundRefunds ==
  ASSUME Viewed, NEW c \in Calls, Land("refund", c),
         req' = req, Oks' = Oks
  PROVE  Promise!Refund(req[c].key) \/ UNCHANGED Promise!vars
<1> USE DEF Viewed
<1> DEFINE k == req[c].key
<1>1. /\ UNCHANGED <<sagas, steps, assignments>>
      /\ payments' = [payments EXCEPT ![c] = IF @ = "charged" THEN "refunded" ELSE @]
  BY LabelFacts DEF Land, UpdatePayment, ClientLabels, LogLabels, MarkLabels,
     StepRow, FinalStatus
<1>2. Owner' = Owner /\ Driven' = Driven
  BY <1>1 DEF Owner, OrderOf, KeyTaken, HasRow, Driven, OrdersOf
<1>3. CASE payments[c] # "charged"
  <2>1. payments' = payments
    BY <1>1, <1>3 DEF TypeOK
  <2>2. Charges' = Charges /\ Refunds' = Refunds
    BY <2>1 DEF Charges, Refunds, OrdersOf
  <2> QED BY <1>2, <2>2 DEF Promise!vars
<1>4. CASE payments[c] = "charged"
  <2>1. /\ payments'[c] = "refunded"
        /\ \A o \in Calls : o # c => payments'[o] = payments[o]
    BY <1>1, <1>4 DEF TypeOK
  <2>2. k \in Keys /\ c \in OrdersOf(k) /\ sagas[c].key = k /\ HasRow(c)
    BY <1>4 DEF KeyInv, RowsAsAsked, WorkHasRow, TypeOK, Request, OrdersOf
  <2>3. PaidFor(k)
    BY <1>4, <2>2 DEF PaidFor
  <2>4. ~RefundedFor(k)
    <3>1. ASSUME NEW o \in OrdersOf(k), payments[o] = "refunded" PROVE FALSE
      BY <1>4, <2>2, <3>1 DEF OrdersOf, KeyInv, UniqueKeys, RowsAsAsked, WorkHasRow
    <3> QED BY <3>1 DEF RefundedFor
  <2>5. Charges[k] = 1 /\ Refunds[k] = 0
    BY <2>2, <2>3, <2>4 DEF View
  <2>6. \A x \in Keys : OrdersOf(x)' = OrdersOf(x)
    BY DEF OrdersOf
  <2>7. \A x \in Keys : PaidFor(x)' <=> PaidFor(x)
    BY <1>4, <2>1, <2>6 DEF PaidFor, OrdersOf
  <2>8. Charges' = Charges
    BY <2>7 DEF View
  <2>9. RefundedFor(k)' /\ (\A x \in Keys : x # k => (RefundedFor(x)' <=> RefundedFor(x)))
    BY <2>1, <2>2, <2>6 DEF RefundedFor, OrdersOf
  <2>10. Refunds'[k] = 1
    BY <2>2, <2>9 DEF View
  <2>11. Refunds' = [Refunds EXCEPT ![k] = @ + 1]
    BY <2>2, <2>5, <2>9, <2>10 DEF View
  <2>12. \A d \in Oks : req[d].key # k
    BY <2>10 DEF OkView
  <2> QED BY <1>2, <2>5, <2>8, <2>11, <2>12 DEF Promise!Refund
<1> QED BY <1>3, <1>4

\* A driver is sent for money that was taken (driver_store.go:47).
LEMMA AssignDrives ==
  ASSUME Viewed, NEW c \in Calls, Land("assign", c), Due("assign", c),
         req' = req, Oks' = Oks
  PROVE  Promise!Drive(req[c].key) \/ UNCHANGED Promise!vars
<1> USE DEF Viewed
<1> DEFINE k == req[c].key
<1>1. /\ UNCHANGED <<sagas, steps, payments>>
      /\ assignments' = [assignments EXCEPT
                          ![c] = IF @ = None /\ sagas[c] # None THEN c ELSE @]
  BY LabelFacts DEF Land, InsertAssignment, ClientLabels, LogLabels, MarkLabels,
     StepRow, FinalStatus
<1>2. Owner' = Owner /\ Charges' = Charges /\ Refunds' = Refunds
  BY <1>1 DEF Owner, OrderOf, KeyTaken, HasRow, Charges, Refunds, OrdersOf
<1>3. payments[c] # "none"
  BY DEF Due, DrivenIsPaid, OutcomeInv, PaidBeforeAssign
<1>4. k \in Keys /\ c \in OrdersOf(k) /\ HasRow(c)
  BY <1>3 DEF KeyInv, RowsAsAsked, WorkHasRow, TypeOK, Request, OrdersOf
<1>5. Charges[k] = 1
  BY <1>3, <1>4 DEF View, PaidFor
<1>6. /\ assignments'[c] # None
      /\ \A o \in Calls : o # c => assignments'[o] = assignments[o]
  BY <1>1, <1>4, ConstantsAssumption DEF TypeOK, HasRow
<1>7. Driven' = Driven \cup {k}
  BY <1>4, <1>6 DEF Driven, OrdersOf
<1> QED BY <1>2, <1>5, <1>7 DEF Promise!Drive

\* Audit rows and statuses are not part of the promise.
LEMMA BookkeepingStutters ==
  ASSUME Viewed, NEW c \in Calls, NEW l \in LogLabels \cup MarkLabels,
         Land(l, c) \/ UNCHANGED tables, req[c] \in Request, req' = req
  PROVE  Owner' = Owner /\ Charges' = Charges /\ Refunds' = Refunds /\ Driven' = Driven
<1> USE DEF Viewed
<1>1. /\ payments' = payments /\ assignments' = assignments
      /\ l # "insert" /\ l \in WriteLabels
  BY LabelFacts DEF Land, AddStep, UpdateStatus, tables, ClientLabels, LogLabels,
     MarkLabels, StepRow, FinalStatus
<1>2. Charges' = Charges /\ Refunds' = Refunds /\ Driven' = Driven
  BY <1>1 DEF Charges, Refunds, Driven, OrdersOf
<1>3. CASE Land(l, c)
  <2>1. /\ \A o \in Calls : HasRow(o)' <=> HasRow(o)
        /\ \A o \in Calls : HasRow(o) => /\ sagas'[o].key = sagas[o].key
                                         /\ sagas'[o].payload = sagas[o].payload
    BY <1>1, <1>3, LandRows DEF KeyInv
  <2> QED BY <1>2, <2>1, SameOwner
<1>4. CASE UNCHANGED tables
  BY <1>2, <1>4 DEF tables, Owner, OrderOf, KeyTaken, HasRow
<1> QED BY <1>3, <1>4


\* A statement that reaches the tables, now or late, is a step of the
\* promise or nothing to it.
LEMMA StatementKeepsPromise ==
  ASSUME Viewed, NEW c \in Calls, NEW l \in WriteLabels, Issued(l, c),
         req' = req, Oks' = Oks
  PROVE  Promise!Next \/ UNCHANGED Promise!vars
<1> USE DEF Viewed
<1>1. req[c] \in Request /\ req[c].key \in Keys
  BY DEF Issued, Request
<1>2. CASE UNCHANGED tables
  BY <1>2 DEF tables, Owner, OrderOf, KeyTaken, HasRow, Charges, Refunds, Driven,
     OrdersOf, Promise!vars
<1>3. CASE Land(l, c)
  <2>1. CASE l = "insert"
    BY <1>1, <1>3, <2>1, InsertBinds DEF Promise!Next
  <2>2. CASE l = "charge"
    <3>1. HasRow(c)
      BY <2>2, ScriptFacts DEF Issued, Due, KeyInv, WorkHasRow, LateHasRow,
         ScriptLabels, ClientLabels
    <3> QED BY <1>1, <1>3, <2>2, <3>1, ChargeCharges DEF Promise!Next
  <2>3. CASE l = "refund"
    BY <1>1, <1>3, <2>3, RefundRefunds DEF Promise!Next
  <2>4. CASE l = "assign"
    BY <1>1, <1>3, <2>4, AssignDrives DEF Promise!Next, Issued
  <2>5. CASE l \in LogLabels \cup MarkLabels
    BY <1>1, <1>3, <2>5, BookkeepingStutters DEF Promise!vars
  <2> QED BY <2>1, <2>2, <2>3, <2>4, <2>5 DEF WriteLabels, ClientLabels
<1> QED BY <1>2, <1>3 DEF Issued

\* A request that arrives changes nothing of its key (order.go:63).
LEMMA ReceiveAsks ==
  ASSUME Viewed, NEW c \in Calls, Receive(c)
  PROVE  Promise!Next
<1> USE DEF Viewed
<1>1. PICK r \in Request : req' = [req EXCEPT ![c] = r]
  BY DEF Receive
<1>2. UNCHANGED <<tables, reply>> /\ pc[c] = "idle"
  BY DEF Receive
<1>3. req[c] = None /\ payments[c] = "none"
  BY <1>2 DEF RefusalInv, CallInv, Fresh, Unpaid
<1>4. assignments[c] = None
  BY <1>3 DEF DrivenIsPaid
<1>5. Owner' = Owner /\ Oks' = Oks
  BY <1>2 DEF tables, Owner, OrderOf, KeyTaken, HasRow, Oks
<1>6. ASSUME NEW k \in Keys, NEW o \in Calls, o # c
      PROVE  o \in OrdersOf(k)' <=> o \in OrdersOf(k)
  BY <1>1, <1>6 DEF OrdersOf, TypeOK
<1>7. \A k \in Keys : /\ PaidFor(k)' <=> PaidFor(k)
                      /\ RefundedFor(k)' <=> RefundedFor(k)
  BY <1>2, <1>3, <1>6 DEF PaidFor, RefundedFor, tables, OrdersOf
<1>8. Charges' = Charges /\ Refunds' = Refunds
  BY <1>7, SameCounts
<1>9. Driven' = Driven
  BY <1>2, <1>4, <1>6 DEF Driven, tables, OrdersOf
<1>10. Promise!Ask(c, r) /\ r \in Promise!Request
  BY <1>1, <1>3, <1>5, <1>8, <1>9 DEF Promise!Ask, Promise!Request, Request
<1> QED BY <1>10 DEF Promise!Next

\* A step that ends a call with "ok", or with anything else, and leaves the
\* rest of what the promise sees as it is.
LEMMA ReplyKeepsPromise ==
  ASSUME Viewed, NEW c \in Calls, pc[c] # "returned", req' = req,
         Owner' = Owner, Charges' = Charges, Refunds' = Refunds, Driven' = Driven,
         \/ reply' = reply
         \/ \E code \in Codes, x \in Calls \cup {None} : Return(c, code, x)
  PROVE  Promise!Next \/ UNCHANGED Promise!vars
<1> USE DEF Viewed
<1>1. CASE \E x \in Calls \cup {None} : Return(c, "ok", x)
  BY <1>1, TellsOk DEF Promise!Next
<1>2. CASE \/ reply' = reply
           \/ \E code \in Codes \ {"ok"}, x \in Calls \cup {None} : Return(c, code, x)
  <2>1. Oks' = Oks
    BY <1>2, SameOks
  <2> QED BY <2>1 DEF Promise!vars
<1> QED BY <1>1, <1>2

\* Every step of a call, of the database or of a crash keeps the promise
\* (order.go:63-111).
LEMMA NextKeepsPromise ==
  ASSUME Viewed, [Next]_vars
  PROVE  Promise!Next \/ UNCHANGED Promise!vars
<1> USE DEF Viewed
<1>1. ASSUME NEW c \in Calls, Receive(c) PROVE Promise!Next
  BY <1>1, ReceiveAsks
<1>2. ASSUME UNCHANGED <<tables, req>>
      PROVE  Owner' = Owner /\ Charges' = Charges /\ Refunds' = Refunds /\ Driven' = Driven
  BY <1>2 DEF tables, Owner, OrderOf, KeyTaken, HasRow, Charges, Refunds, Driven,
     OrdersOf
<1>3. ASSUME NEW c \in Calls, RefuseEmptyKey(c) \/ StartSelect(c) \/ Answer(c)
      PROVE  Promise!Next \/ UNCHANGED Promise!vars
  <2>1. pc[c] # "returned" /\ UNCHANGED <<tables, req>>
    BY <1>3 DEF RefuseEmptyKey, StartSelect, Answer
  <2>2. \/ reply' = reply
        \/ \E code \in Codes, x \in Calls \cup {None} : Return(c, code, x)
    <3>1. CASE RefuseEmptyKey(c) \/ StartSelect(c)
      BY <3>1 DEF RefuseEmptyKey, StartSelect, Codes
    <3>2. CASE Answer(c)
      <4>1. record[c].order \in Calls
        BY <3>2 DEF Answer, KeyInv, RecordsAreRows, ReadsRow, Record
      <4> QED BY <3>2, <4>1 DEF Answer, Codes
    <3> QED BY <1>3, <3>1, <3>2
  <2> QED BY <1>2, <2>1, <2>2, ReplyKeepsPromise
<1>4. ASSUME NEW c \in Calls, Mark(c)
      PROVE  Promise!Next \/ UNCHANGED Promise!vars
  <2>1. pc[c] \in MarkLabels /\ pc[c] # "returned" /\ req' = req
        /\ req[c] \in Request
    BY <1>4, ScriptFacts DEF Mark, MarkLabels, FinalStatus, KeyInv,
       RunsHaveRequests, Labels, WriteLabels, TypeOK
  <2>2. Land(pc[c], c) \/ UNCHANGED tables
    BY <1>4 DEF Mark, Succeeds, Errs
  <2>3. \E code \in Codes, x \in Calls \cup {None} : Return(c, code, x)
    BY <1>4 DEF Mark, Codes
  <2> QED BY <2>1, <2>2, <2>3, BookkeepingStutters, ReplyKeepsPromise
<1>5. ASSUME NEW c \in Calls,
             StartInsert(c) \/ Log(c) \/ AttemptSucceeds(c) \/ AttemptErrs(c)
      PROVE  Promise!Next \/ UNCHANGED Promise!vars
  <2>1. pc[c] \in WriteLabels /\ pc[c] # "returned" /\ req' = req
        /\ req[c] \in Request
    BY <1>5, LabelFacts, ScriptFacts
    DEF StartInsert, Log, AttemptSucceeds, AttemptErrs, KeyInv, RunsHaveRequests,
        TypeOK
  <2>2. \/ reply' = reply
        \/ \E code \in Codes \ {"ok"}, x \in Calls \cup {None} : Return(c, code, x)
    BY <1>5 DEF StartInsert, Log, AttemptSucceeds, AttemptErrs, Codes
  <2>3. Oks' = Oks
    BY <2>1, <2>2, SameOks
  <2>4. Issued(pc[c], c) \/ UNCHANGED tables
    BY <1>5, <2>1
    DEF StartInsert, Log, AttemptSucceeds, AttemptErrs, Succeeds, Errs, Issued, Due
  <2>5. CASE Issued(pc[c], c)
    BY <2>1, <2>3, <2>5, StatementKeepsPromise
  <2>6. CASE UNCHANGED tables
    BY <1>2, <2>1, <2>3, <2>6 DEF Promise!vars
  <2> QED BY <2>4, <2>5, <2>6
<1>6. ASSUME NEW c \in Calls, NEW l \in WriteLabels, LandLate(l, c)
      PROVE  Promise!Next \/ UNCHANGED Promise!vars
  <2>1. Issued(l, c) /\ req' = req /\ reply' = reply
    BY <1>6 DEF LandLate, KeyInv, LateHasRow, TypeOK, Issued, Due, callVars
  <2>2. Oks' = Oks
    BY <2>1 DEF Oks
  <2> QED BY <2>1, <2>2, StatementKeepsPromise
<1>7. CASE (\E c \in Calls : GiveUp(c) \/ Cancel(c)) \/ Crash \/ UNCHANGED vars
  <2>1. UNCHANGED <<tables, req, reply>>
    BY <1>7 DEF GiveUp, Cancel, Crash, vars, callVars, tables
  <2> QED BY <1>2, <2>1 DEF Oks, Promise!vars
<1> QED BY <1>1, <1>3, <1>4, <1>5, <1>6, <1>7 DEF Next, Step, Finished

\* At first nobody asked for anything.
LEMMA InitPromise == Init => Promise!Init
<1> SUFFICES ASSUME Init PROVE Promise!Init
  OBVIOUS
<1>1. \A k : OrdersOf(k) = {}
  BY DEF Init, OrdersOf
<1>2. \A k \in Keys : ~KeyTaken(k)
  BY DEF Init, KeyTaken
<1>3. /\ Charges = [k \in Keys |-> 0] /\ Refunds = [k \in Keys |-> 0]
  BY <1>1, FS_EmptySet DEF Charges, Refunds
<1>4. Owner = [k \in Keys |-> None] /\ Driven = {} /\ Oks = {}
  BY <1>1, <1>2 DEF Init, Owner, Driven, Oks
<1> QED BY <1>3, <1>4 DEF Init, Promise!Init

\* CreateOrder keeps the promise of OrderPromise: whatever fails, is retried,
\* cancelled, lost, late or dies, a key belongs to the first request stored
\* under it, is charged at most once and paid back at most once, and never
\* after somebody was told "ok" (order.go:63-111, saga_store.go:65-101).
THEOREM PromiseIsKept == Spec => KeepsPromise
<1>1. TypeOK /\ KeyInv /\ OutcomeInv /\ RefusalInv /\ DrivenIsPaid /\ [Next]_vars
        => Viewed
  BY ViewFacts, NextKey, NextView, NextOkView DEF Viewed
<1>2. Viewed /\ [Next]_vars => [Promise!Next]_Promise!vars
  BY NextKeepsPromise
<1> QED
  BY <1>1, <1>2, InitPromise, TypeCorrect, KeyCorrect, OutcomeCorrect,
     RefusalCorrect, DrivenCorrect, PTL DEF Spec, KeepsPromise, Promise!Spec


-----------------------------------------------------------------------------
(***************************************************************************)
(* What holds while callers stay and some statements work.  The conditions *)
(* are on Faults, statement by statement.                                  *)
(***************************************************************************)
\* Nobody leaves, and the last update of a saga's status is not lost.
StatusesLand ==
  /\ ~MayCancel
  /\ \A m \in MarkLabels : Faults[m] \cap {"fail", "late"} = {}

\* And who inserted a saga's row reads it back.
StartWorks == StatusesLand /\ "fail" \notin Faults["select"] /\ NaNPayloads = {}

\* Nobody's context ends when nobody cancels.
LEMMA NextUndisturbed == ~MayCancel /\ ctxDone = {} /\ [Next]_vars => ctxDone' = {}
  BY DEF Next, Receive, RefuseEmptyKey, Step, StartInsert, StartSelect, Answer, Log,
     GiveUp, AttemptSucceeds, AttemptErrs, Mark, Cancel, LandLate, Crash, Finished, vars, callVars

\* Then the last update gives its saga the status (order.go:88, 100, 104, 109).
LEMMA MarkLands ==
  ASSUME StatusesLand, TypeOK, KeyInv, ctxDone = {}, NEW c \in Calls, Mark(c)
  PROVE  HasRow(c)' /\ sagas'[c].status = FinalStatus[pc[c]]
<1>1. pc[c] \in MarkLabels /\ pc[c] \in WriteLabels /\ req[c] \in Request /\ HasRow(c)
  BY LabelFacts, ScriptFacts
  DEF Mark, KeyInv, RunsHaveRequests, WorkHasRow, TypeOK, ScriptLabels
<1>2. Land(pc[c], c)
  BY <1>1 DEF Mark, Succeeds, Errs, StatusesLand
<1>3. HasRow(c)'
  BY <1>1, <1>2, LandRows DEF KeyInv
<1> QED BY <1>1, <1>2, <1>3, LandOutcome

(***************************************************************************)
(* Who created a saga settles it.                                          *)
(***************************************************************************)
SettlesInv ==
  /\ ctxDone = {}
  /\ \A c \in inserted : /\ pc[c] \notin {"idle", "insert"}
                         /\ pc[c] = "returned" => Settled(c)

\* Only Mark ends a call that created a saga.
LEMMA NextSettles ==
  ASSUME StartWorks, TypeOK, KeyInv, MarkedOnce, SettlesInv, [Next]_vars
  PROVE  SettlesInv'
<1> USE DEF StartWorks, StatusesLand
<1>1. ctxDone' = {}
  BY NextUndisturbed DEF SettlesInv
<1>2. \A o \in Calls : Settled(o) => Settled(o)'
  BY NextMarked, NextEffects DEF Effects, Settled
<1> DEFINE Good(o) == o \in inserted' => /\ pc'[o] \notin {"idle", "insert"}
                                         /\ pc'[o] = "returned" => Settled(o)'
<1> USE DEF TypeOK
<1>3. ASSUME NEW o \in Calls, pc'[o] \in {pc[o], "crashed"}, o \in inserted' => o \in inserted
      PROVE  Good(o)
  BY <1>2, <1>3 DEF SettlesInv
<1>4. ASSUME NEW c \in Calls, Receive(c) \/ RefuseEmptyKey(c), NEW o \in Calls PROVE Good(o)
  BY <1>3, <1>4 DEF Receive, RefuseEmptyKey, Return, Goto, SettlesInv
<1>5. ASSUME NEW c \in Calls, StartInsert(c), NEW o \in Calls PROVE Good(o)
  <2>1. CASE o # c
    BY <1>3, <1>5, <2>1 DEF StartInsert, Return, Goto
  <2>2. CASE o = c
    BY <1>5, <2>2 DEF StartInsert, Return, Goto, SettlesInv
  <2> QED BY <2>1, <2>2
<1>6. ASSUME NEW c \in Calls, StartSelect(c), NEW o \in Calls PROVE Good(o)
  <2>1. CASE o # c
    BY <1>3, <1>6, <2>1 DEF StartSelect, Return, Goto
  <2>2. CASE o = c /\ c \in inserted
    <3>1. HasRow(c) /\ sagas[c].key = req[c].key
      BY <2>2 DEF KeyInv, WorkHasRow, RowsAsAsked
    <3>2. pc'[c] = "answer"
      BY <1>6, <2>2, <3>1 DEF StartSelect, SettlesInv, KeyTaken, HasRow, Return, Goto
    <3> QED BY <2>2, <3>2
  <2>3. CASE o = c /\ c \notin inserted
    BY <1>6, <2>3 DEF StartSelect
  <2> QED BY <2>1, <2>2, <2>3
<1>12. ASSUME NEW c \in Calls, Answer(c), NEW o \in Calls PROVE Good(o)
  <2>1. CASE o # c
    BY <1>3, <1>12, <2>1 DEF Answer, Return, Goto
  <2>2. CASE o = c /\ c \in inserted
    <3>1. HasRow(c) /\ sagas[c].key = req[c].key /\ sagas[c].payload = req[c].payload
      BY <2>2 DEF KeyInv, WorkHasRow, RowsAsAsked
    <3>2. record[c].order = c /\ sagas[c].payload = record[c].payload
      BY <1>12, <3>1 DEF Answer, KeyInv, RecordsAreRows, ReadsRow, Record, UniqueKeys
    <3>3. pc'[c] = "chargeStarted"
      BY <1>12, <2>2, <3>1, <3>2 DEF Answer, PayloadDiffers, Created, Return, Goto
    <3> QED BY <2>2, <3>3
  <2>3. CASE o = c /\ c \notin inserted
    BY <1>12, <2>3 DEF Answer
  <2> QED BY <2>1, <2>2, <2>3
<1>7. ASSUME NEW c \in Calls, Log(c) \/ GiveUp(c) \/ AttemptSucceeds(c) \/ AttemptErrs(c),
             NEW o \in Calls
      PROVE  Good(o)
  <2>1. pc[c] \in ScriptLabels /\ inserted' = inserted
    BY <1>7 DEF Log, GiveUp, AttemptSucceeds, AttemptErrs, ScriptLabels
  <2>2. pc' = pc \/ \E q \in ScriptLabels : pc' = [pc EXCEPT ![c] = q]
    BY <1>7, ScriptFacts DEF Log, GiveUp, AttemptSucceeds, AttemptErrs, Goto
  <2> QED BY <1>3, <2>1, <2>2, ScriptFacts
<1>8. ASSUME NEW c \in Calls, Mark(c), NEW o \in Calls PROVE Good(o)
  <2>1. CASE o # c
    BY <1>3, <1>8, <2>1 DEF Mark, Return, Goto
  <2>2. CASE o = c
    <3>1. pc'[c] = "returned" /\ pc[c] \in MarkLabels
      BY <1>8 DEF Mark, Return, Goto
    <3>2. Settled(c)'
      BY <1>8, <3>1, MarkLands DEF SettlesInv, Settled, MarkLabels, FinalStatus
    <3> QED BY <2>2, <3>1, <3>2
  <2> QED BY <2>1, <2>2
<1>9. ASSUME NEW o \in Calls,
             \/ \E c \in Calls : Cancel(c) \/ \E l \in WriteLabels : LandLate(l, c)
             \/ Crash \/ UNCHANGED vars
      PROVE  Good(o)
  BY <1>3, <1>9 DEF Cancel, LandLate, Crash, vars, callVars
<1>10. \A o \in Calls : Good(o)
  BY <1>4, <1>5, <1>6, <1>7, <1>8, <1>9, <1>12 DEF Next, Step, Finished
<1>11. inserted' \subseteq Calls
  BY NextType
<1> QED BY <1>1, <1>10, <1>11 DEF SettlesInv

\* Unless callers leave, the status update or the first SELECT is lost, or
\* the amount is a NaN, who created a saga leaves it settled when it returns,
\* whatever else fails and whoever else crashes (order.go:85-110).
THEOREM CreatorsSettle == ASSUME StartWorks PROVE Spec => []ReturnedMeansSettled
<1>1. Init => SettlesInv
  BY DEF Init, SettlesInv
<1>2. TypeOK /\ KeyInv /\ MarkedOnce /\ SettlesInv /\ [Next]_vars => SettlesInv'
  BY NextSettles
<1>3. TypeOK /\ SettlesInv => ReturnedMeansSettled
  BY DEF TypeOK, SettlesInv, ReturnedMeansSettled
<1> QED BY <1>1, <1>2, <1>3, InitType, InitKey, InitMarked, NextType, NextKey, NextMarked,
           PTL DEF Spec


(***************************************************************************)
(* Replays of a success.                                                   *)
(***************************************************************************)
\* The row of c's key says succeeded.
KeySucceeded(c) ==
  \E o \in Calls : /\ HasRow(o) /\ sagas[o].key = req[c].key
                  /\ sagas[o].status = "succeeded"

\* Whoever was told "ok" left, or found, a row that says so; and who has read
\* such a row and is about to answer from it did as well.
OkIsMarked ==
  /\ ctxDone = {}
  /\ \A c \in Calls : reply[c].code = "ok" =>
       pc[c] = "returned" /\ KeySucceeded(c)
  /\ \A c \in Calls : pc[c] = "answer" /\ record[c].status = "succeeded" =>
       KeySucceeded(c)

\* "ok" is answered after a status that was stored, or from one that was read
\* (order.go:78-80, 109-110).
LEMMA NextOkIsMarked ==
  ASSUME StatusesLand, TypeOK, KeyInv, KeyInv', MarkedOnce, OkIsMarked, [Next]_vars
  PROVE  OkIsMarked'
<1> USE DEF TypeOK
<1>1. ctxDone' = {}
  BY NextUndisturbed DEF OkIsMarked, StatusesLand
<1>2. ASSUME NEW c \in Calls, KeySucceeded(c), req'[c] = req[c] PROVE KeySucceeded(c)'
  BY <1>2, NextMarked, NextEffects DEF KeySucceeded, Settled, Effects
<1>3. ASSUME NEW c \in Calls, reply'[c].code = "ok"
      PROVE  pc'[c] = "returned" /\ KeySucceeded(c)'
  <2>1. Replied(c) /\ Moved(c, pc'[c])
    BY NextReplies, NextMoves DEF Replies, Moves
  <2>2. CASE reply[c].code = "ok"
    <3>1. pc'[c] = "returned" /\ req'[c] = req[c]
      BY <2>1, <2>2 DEF Moved, OkIsMarked
    <3> QED BY <1>2, <2>2, <3>1 DEF OkIsMarked
  <2>3. CASE /\ pc[c] = "markSucceeded" /\ pc'[c] = "returned"
             /\ reply[c].code # "ok" /\ req'[c] = req[c]
    <3>1. reply'[c] # reply[c] /\ pc[c] \notin {"idle", "insert", "select", "answer"}
      BY <1>3, <2>3
    <3>2. Mark(c)
      <4>1. ASSUME NEW d \in Calls,
                   \/ RefuseEmptyKey(d) \/ StartInsert(d)
                   \/ StartSelect(d) \/ Answer(d)
            PROVE  d # c /\ reply'[c] = reply[c]
        BY <3>1, <4>1 DEF RefuseEmptyKey, StartInsert, StartSelect, Answer, Return
      <4>2. ASSUME NEW d \in Calls, Mark(d), d # c PROVE reply'[c] = reply[c]
        BY <4>2 DEF Mark, Return
      <4>3. ASSUME NEW d \in Calls,
                   \/ Receive(d) \/ Log(d) \/ GiveUp(d) \/ AttemptSucceeds(d)
                   \/ AttemptErrs(d) \/ Cancel(d)
                   \/ (\E l \in WriteLabels : LandLate(l, d))
            PROVE  reply'[c] = reply[c]
        BY <4>3 DEF Receive, Log, GiveUp, AttemptSucceeds, AttemptErrs, Cancel,
           LandLate, callVars
      <4>4. Crash \/ UNCHANGED vars => reply'[c] = reply[c]
        BY DEF Crash, vars, callVars
      <4> QED BY <3>1, <4>1, <4>2, <4>3, <4>4 DEF Next, Step, Finished
    <3>3. HasRow(c)' /\ sagas'[c].status = "succeeded"
      BY <2>3, <3>2, MarkLands DEF OkIsMarked, FinalStatus
    <3>4. sagas'[c].key = req'[c].key
      BY <3>3 DEF KeyInv, RowsAsAsked
    <3> QED BY <2>3, <3>3, <3>4 DEF KeySucceeded
  <2>4. CASE /\ pc'[c] = "returned" /\ req'[c] = req[c]
             /\ pc[c] = "answer" /\ record[c].status = "succeeded"
    BY <1>2, <2>4 DEF OkIsMarked
  <2>5. reply'[c] = reply[c] => reply[c].code = "ok"
    BY <1>3
  <2> QED BY <1>3, <2>1, <2>2, <2>3, <2>4, <2>5 DEF Replied
<1>4. ASSUME NEW c \in Calls, pc'[c] = "answer", record'[c].status = "succeeded"
      PROVE  KeySucceeded(c)'
  <2>1. req'[c] = req[c] /\ KeySucceeded(c)
    BY <1>4, AnswersRead DEF OkIsMarked, KeySucceeded
  <2> QED BY <1>2, <2>1
<1> QED BY <1>1, <1>3, <1>4 DEF OkIsMarked

\* "processed" is only answered from a row that did not say succeeded when it
\* was read (saga_store.go:80-95, order.go:78-83).
LEMMA ProcessedRead ==
  ASSUME TypeOK, [Next]_vars, NEW d \in Calls,
         reply[d].code # "processed", reply'[d].code = "processed"
  PROVE  req'[d] = req[d] /\ pc[d] = "answer" /\ record[d].status # "succeeded"
<1> USE DEF TypeOK
<1>1. reply'[d] # reply[d]
  OBVIOUS
<1>2. ASSUME NEW c \in Calls,
             RefuseEmptyKey(c) \/ StartInsert(c) \/ StartSelect(c) \/ Mark(c)
      PROVE  FALSE
  BY <1>1, <1>2 DEF RefuseEmptyKey, StartInsert, StartSelect, Mark, Return
<1>3. ASSUME NEW c \in Calls,
             \/ Receive(c) \/ Log(c) \/ GiveUp(c) \/ AttemptSucceeds(c)
             \/ AttemptErrs(c) \/ Cancel(c)
             \/ (\E l \in WriteLabels : LandLate(l, c))
      PROVE  FALSE
  BY <1>1, <1>3 DEF Receive, Log, GiveUp, AttemptSucceeds, AttemptErrs, Cancel,
     LandLate, callVars
<1>4. ~(Crash \/ UNCHANGED vars)
  BY <1>1 DEF Crash, vars, callVars
<1>5. ASSUME NEW c \in Calls, Answer(c)
      PROVE  req'[d] = req[d] /\ pc[d] = "answer" /\ record[d].status # "succeeded"
  <2>1. c = d
    BY <1>1, <1>5 DEF Answer, Return
  <2>2. ASSUME NEW code, NEW x, Return(d, code, x) PROVE code = "processed"
    BY <2>2 DEF Return
  <2> QED BY <1>1, <1>5, <2>1, <2>2 DEF Answer
<1> QED BY <1>2, <1>3, <1>4, <1>5 DEF Next, Step, Finished

\* Call c was told "ok", and call d, if it makes the same request, has read
\* no row that says anything else, and was not told "processed".
Protected(c, d) ==
  /\ reply[c].code = "ok"
  /\ req[d] = req[c] =>
       /\ reply[d].code # "processed"
       /\ pc[d] = "answer" => record[d].status = "succeeded"

\* A call that is still to come has not asked for anything yet.
LEMMA IdleIsProtected ==
  ASSUME RefusalInv, NEW c \in Calls, NEW d \in Calls,
         reply[c].code = "ok", pc[d] = "idle"
  PROVE  Protected(c, d)
<1>1. req[d] = None /\ req[c] # None
  BY DEF RefusalInv, CallInv, Fresh, Compared
<1> QED BY <1>1 DEF Protected

\* What it asks for when it comes, and what it reads then, keeps it protected.
LEMMA NextProtected ==
  ASSUME TypeOK, KeyInv, RefusalInv, OkIsMarked, [Next]_vars,
         NEW c \in Calls, NEW d \in Calls, Protected(c, d)
  PROVE  Protected(c, d)'
<1> USE DEF TypeOK
<1>1. reply'[c] = reply[c] /\ req'[c] = req[c] /\ pc[c] = "returned"
  BY NextReplies, NextMoves DEF Protected, OkIsMarked, Replies, Moves, Moved
<1>2. req'[d] = req[d] \/ (pc[d] = "idle" /\ pc'[d] = "insert" /\ reply'[d] = reply[d])
  <2>1. ASSUME NEW e \in Calls, Receive(e)
        PROVE  \/ req'[d] = req[d]
               \/ pc[d] = "idle" /\ pc'[d] = "insert" /\ reply'[d] = reply[d]
    BY <2>1 DEF Receive, Goto
  <2>2. ASSUME NEW e \in Calls,
               \/ RefuseEmptyKey(e) \/ Step(e) \/ Cancel(e)
               \/ (\E l \in WriteLabels : LandLate(l, e))
        PROVE  req' = req
    BY <2>2 DEF RefuseEmptyKey, Step, StartInsert, StartSelect, Answer, Log, GiveUp,
       AttemptSucceeds, AttemptErrs, Mark, Cancel, LandLate, callVars
  <2>3. Crash \/ UNCHANGED vars => req' = req
    BY DEF Crash, vars, callVars
  <2> QED BY <2>1, <2>2, <2>3 DEF Next, Finished
<1>3. CASE req'[d] # req[d]
  <2>1. reply'[d].code # "processed"
    BY <1>2, <1>3 DEF RefusalInv, CallInv, RefusedAtRest, Refused
  <2> QED BY <1>1, <1>2, <1>3, <2>1 DEF Protected
<1>4. CASE req'[d] = req[d] /\ req[d] = req[c]
  <2>1. reply'[d].code # "processed"
    BY <1>4, ProcessedRead DEF Protected
  <2>2. ASSUME pc'[d] = "answer" PROVE record'[d].status = "succeeded"
    <3>1. CASE pc[d] = "answer" /\ record'[d] = record[d]
      BY <1>4, <3>1 DEF Protected
    <3>2. ASSUME NEW o \in Calls, HasRow(o), sagas[o].key = req[d].key,
                 record'[d].status = sagas[o].status
          PROVE  record'[d].status = "succeeded"
      <4>1. KeySucceeded(d)
        BY <1>4 DEF Protected, OkIsMarked, KeySucceeded
      <4> QED BY <3>2, <4>1 DEF KeySucceeded, KeyInv, UniqueKeys
    <3> QED BY <2>2, <3>1, <3>2, AnswersRead
  <2> QED BY <1>1, <1>4, <2>1, <2>2 DEF Protected
<1>5. CASE req'[d] = req[d] /\ req[d] # req[c]
  BY <1>1, <1>5 DEF Protected
<1> QED BY <1>3, <1>4, <1>5

\* Unless callers leave or the status update is lost, a replay that is
\* received after its request was told "ok" is never refused as processed
\* (order_test.go:291-297).  One that was on its way before may be: it may
\* have read the row while it still said "started".
THEOREM ReplaysSucceed == ASSUME StatusesLand PROVE Spec => ReplayOfSuccessSucceeds
<1> SUFFICES ASSUME NEW c \in Calls, NEW d \in Calls
             PROVE  Spec => [](reply[c].code = "ok" /\ pc[d] = "idle"
                                 => [](req[d] = req[c] => reply[d].code # "processed"))
  BY DEF ReplayOfSuccessSucceeds
<1>1. Init => OkIsMarked
  BY DEF Init, OkIsMarked
<1>2. TypeOK /\ KeyInv /\ MarkedOnce /\ OkIsMarked /\ [Next]_vars => OkIsMarked'
  BY NextKey, NextOkIsMarked
<1>3. RefusalInv /\ reply[c].code = "ok" /\ pc[d] = "idle" => Protected(c, d)
  BY IdleIsProtected
<1>4. TypeOK /\ KeyInv /\ RefusalInv /\ OkIsMarked /\ [Next]_vars /\ Protected(c, d)
        => Protected(c, d)'
  BY NextProtected
<1>5. Protected(c, d) => (req[d] = req[c] => reply[d].code # "processed")
  BY DEF Protected
<1> QED
  BY <1>1, <1>2, <1>3, <1>4, <1>5, InitType, InitKey, InitMarked, NextType, NextKey,
     NextMarked, RefusalCorrect, PTL DEF Spec


(***************************************************************************)
(* Compensation.                                                           *)
(***************************************************************************)
\* Nobody leaves, a charge or an assignment that errs did not run, and a
\* refund works.
ErrorsMeanNothingRan ==
  /\ ~MayCancel
  /\ \A l \in ClientLabels : Faults[l] \cap {"lostAck", "late"} = {}
  /\ Faults["refund"] = {}

SaysFailed(o) ==
  \/ pc[o] = "markFailed"
  \/ <<"markFailed", o>> \in late
  \/ HasRow(o) /\ sagas[o].status = "failed"

Uncharged == {"idle", "insert", "select", "answer", "chargeStarted", "charge",
              "chargeFailed"}
Charged   == {"chargeSucceeded", "assignStarted", "assign", "assignFailed",
              "refundStarted", "refund"}

\* Where a call is says what it has paid, and no driver is left to an order
\* that is called failed or refunded.
MoneyByPhase(o) ==
  /\ pc[o] \in Uncharged => payments[o] = "none"
  /\ pc[o] \in Charged => payments[o] = "charged"
  /\ pc[o] # "refundFailed"
  /\ pc[o] \notin Final => assignments[o] = None
  /\ SaysFailed(o) => payments[o] = "none" /\ assignments[o] = None
  /\ SaysRefunded(o) => assignments[o] = None

CompensationInv ==
  /\ ctxDone = {}
  /\ \A l \in ClientLabels, o \in Calls : <<l, o>> \notin late
  /\ \A o \in Calls : MoneyByPhase(o)

\* What says "failed" was issued by the call itself.
LEMMA FailedEffects ==
  ASSUME TypeOK, KeyInv, [Next]_vars, NEW o \in Calls,
         <<"markFailed", o>> \in late' \/ (HasRow(o)' /\ sagas'[o].status = "failed")
  PROVE  SaysFailed(o)
<1>1. "markFailed" \in WriteLabels /\ "markFailed" \in MarkLabels
      /\ \A l \in MarkLabels : FinalStatus[l] = "failed" => l = "markFailed"
  BY DEF WriteLabels, MarkLabels, FinalStatus
<1>2. CASE <<"markFailed", o>> \in late'
  BY <1>1, <1>2, NextGrows DEF Grows, Due, SaysFailed
<1>3. CASE HasRow(o)' /\ sagas'[o].status = "failed"
  <2>1. CASE UNCHANGED tables
    BY <1>3, <2>1 DEF tables, HasRow, SaysFailed
  <2>2. ASSUME NEW c \in Calls, NEW l \in WriteLabels, Issued(l, c), Land(l, c)
        PROVE  SaysFailed(o)
    <3>1. CASE o # c
      BY <1>3, <2>2, <3>1, LandOutcome DEF Issued, HasRow, SaysFailed
    <3>2. CASE o = c /\ l \in MarkLabels
      BY <1>1, <1>3, <2>2, <3>2, LandOutcome DEF Issued, Due, SaysFailed
    <3>3. CASE o = c /\ l \notin MarkLabels
      <4>1. \/ HasRow(c) /\ sagas'[c].status = sagas[c].status
            \/ sagas'[c].status = "started"
        BY <1>3, <2>2, <3>3, LandOutcome DEF Issued
      <4> QED BY <1>3, <3>3, <4>1 DEF SaysFailed
    <3> QED BY <3>1, <3>2, <3>3
  <2> QED BY <2>1, <2>2, OneStatement DEF Issued, tables
<1> QED BY <1>2, <1>3

\* Payments and assignments only change by an attempt that succeeds.
LEMMA MoneyMoves ==
  ASSUME ErrorsMeanNothingRan, TypeOK, KeyInv, CompensationInv, [Next]_vars,
         NEW o \in Calls
  PROVE  \/ payments'[o] = payments[o] /\ assignments'[o] = assignments[o]
         \/ AttemptSucceeds(o)
<1>1. \A l \in LogLabels \cup MarkLabels \cup {"insert"} : l \notin ClientLabels
  BY DEF LogLabels, MarkLabels, ClientLabels, StepRow, FinalStatus
<1>2. ASSUME NEW c \in Calls, NEW l \in WriteLabels, Land(l, c), l \notin ClientLabels
      PROVE  payments' = payments /\ assignments' = assignments
  BY <1>2 DEF Land, InsertSaga, AddStep, UpdateStatus, ClientLabels
<1>3. ASSUME NEW c \in Calls, StartInsert(c) \/ Log(c) \/ Mark(c)
      PROVE  payments' = payments /\ assignments' = assignments
  <2>1. pc[c] \in WriteLabels /\ pc[c] \notin ClientLabels
    BY <1>1, <1>3, LabelFacts DEF StartInsert, Log, Mark
  <2>2. Land(pc[c], c) \/ UNCHANGED tables
    BY <1>3 DEF StartInsert, Log, Mark, Succeeds, Errs
  <2> QED BY <1>2, <2>1, <2>2 DEF tables
<1>4. ASSUME NEW c \in Calls, AttemptErrs(c)
      PROVE  payments' = payments /\ assignments' = assignments
  BY <1>4 DEF AttemptErrs, Errs, ErrorsMeanNothingRan, tables
<1>5. ASSUME NEW c \in Calls, AttemptSucceeds(c), c # o
      PROVE  payments'[o] = payments[o] /\ assignments'[o] = assignments[o]
  <2>1. pc[c] \in WriteLabels /\ req[c] \in Request /\ Land(pc[c], c)
    BY <1>5, LabelFacts, ScriptFacts
    DEF AttemptSucceeds, Succeeds, KeyInv, RunsHaveRequests, TypeOK
  <2> QED BY <1>5, <2>1, LandOutcome
<1>6. ASSUME NEW c \in Calls, NEW l \in WriteLabels, LandLate(l, c)
      PROVE  payments' = payments /\ assignments' = assignments
  BY <1>2, <1>6 DEF LandLate, CompensationInv
<1>7. ASSUME NEW c \in Calls, Receive(c) \/ RefuseEmptyKey(c) \/ StartSelect(c)
                              \/ Answer(c) \/ GiveUp(c) \/ Cancel(c)
      PROVE  payments' = payments /\ assignments' = assignments
  BY <1>7 DEF Receive, RefuseEmptyKey, StartSelect, Answer, GiveUp, Cancel, tables
<1>8. Crash \/ UNCHANGED vars => payments' = payments /\ assignments' = assignments
  BY DEF Crash, vars, tables
<1> QED BY <1>3, <1>4, <1>5, <1>6, <1>7, <1>8 DEF Next, Step, Finished


\* Where a call may go without an attempt of its own that succeeds.
MovesOn(o, q) ==
  /\ q \in Uncharged => pc[o] \in Uncharged
  /\ q \in Charged => pc[o] \in Charged
  /\ q # "refundFailed"
  /\ q = "markFailed" => pc[o] \in {"markFailed", "chargeFailed"}
  /\ q \in {"refundSucceeded", "markRefunded"}
       => pc[o] \in {"refundSucceeded", "markRefunded"}
  /\ pc[o] \in Final => q \in Final

\* A refund that is tried works; so nothing leads to "refundFailed"
\* (order.go:98-102).
LEMMA NextMovesOn ==
  ASSUME ErrorsMeanNothingRan, TypeOK, KeyInv, CompensationInv, [Next]_vars,
         NEW o \in Calls
  PROVE  MovesOn(o, pc'[o]) \/ AttemptSucceeds(o)
<1> USE DEF TypeOK
<1>1. MovesOn(o, pc[o]) /\ MovesOn(o, "crashed")
  BY DEF MovesOn, CompensationInv, MoneyByPhase, Uncharged, Charged, Final
<1>2. ASSUME NEW c \in Calls, NEW q, pc' = [pc EXCEPT ![c] = q], c = o => MovesOn(o, q)
      PROVE  MovesOn(o, pc'[o])
  BY <1>1, <1>2
<1>3. ASSUME NEW c \in Calls,
             \/ Receive(c) \/ RefuseEmptyKey(c) \/ StartInsert(c)
             \/ StartSelect(c) \/ Answer(c)
      PROVE  MovesOn(o, pc'[o])
  <2>1. pc[c] \in {"idle", "insert", "select", "answer"}
    BY <1>3 DEF Receive, RefuseEmptyKey, StartInsert, StartSelect, Answer
  <2>2. PICK q \in {"insert", "select", "answer", "chargeStarted", "returned"} :
          pc' = [pc EXCEPT ![c] = q]
    BY <1>3 DEF Receive, RefuseEmptyKey, StartInsert, StartSelect, Answer, Return, Goto
  <2>3. c = o => MovesOn(o, q)
    BY <2>1 DEF MovesOn, Uncharged, Charged, Final
  <2> QED BY <1>2, <2>2, <2>3
<1>4. ASSUME NEW c \in Calls, Log(c) PROVE MovesOn(o, pc'[o])
  <2>1. pc[c] \in LogLabels /\ pc' = [pc EXCEPT ![c] = AfterLog[pc[c]]]
        /\ pc[c] # "refundFailed"
    BY <1>4 DEF Log, Goto, CompensationInv, MoneyByPhase
  <2>2. \A l \in LogLabels \ {"refundFailed"} :
          /\ AfterLog[l] \in Uncharged => l \in Uncharged
          /\ AfterLog[l] \in Charged => l \in Charged
          /\ AfterLog[l] # "refundFailed"
          /\ AfterLog[l] = "markFailed" => l = "chargeFailed"
          /\ AfterLog[l] \in {"refundSucceeded", "markRefunded"} => l = "refundSucceeded"
          /\ l \in Final => AfterLog[l] \in Final
    BY DEF LogLabels, StepRow, AfterLog, Uncharged, Charged, Final
  <2>3. c = o => MovesOn(o, AfterLog[pc[c]])
    BY <2>1, <2>2 DEF MovesOn
  <2> QED BY <1>2, <2>1, <2>3
<1>5. ASSUME NEW c \in Calls, GiveUp(c) \/ AttemptErrs(c) PROVE MovesOn(o, pc'[o])
  <2>1. pc[c] \in {"charge", "assign"}
    <3>1. pc[c] # "refund"
      BY <1>5 DEF GiveUp, AttemptErrs, Errs, Accepts, ErrorsMeanNothingRan,
         CompensationInv, MoneyByPhase, Charged
    <3> QED BY <1>5, <3>1 DEF GiveUp, AttemptErrs, ClientLabels
  <2>2. CASE pc' = pc
    BY <1>1, <2>2
  <2>3. CASE pc' = [pc EXCEPT ![c] = OnError[pc[c]]]
    <3>1. c = o => MovesOn(o, OnError[pc[c]])
      BY <2>1 DEF MovesOn, OnError, Uncharged, Charged, Final
    <3> QED BY <1>2, <2>3, <3>1
  <2> QED BY <1>5, <2>2, <2>3 DEF GiveUp, AttemptErrs, Goto
<1>6. ASSUME NEW c \in Calls, AttemptSucceeds(c), c # o PROVE MovesOn(o, pc'[o])
  BY <1>1, <1>6 DEF AttemptSucceeds, Goto
<1>7. ASSUME NEW c \in Calls, Mark(c) PROVE MovesOn(o, pc'[o])
  <2>1. pc' = [pc EXCEPT ![c] = "returned"]
    BY <1>7 DEF Mark, Return, Goto
  <2> QED BY <1>2, <2>1 DEF MovesOn, Uncharged, Charged, Final
<1>8. ASSUME \/ \E c \in Calls : Cancel(c) \/ \E l \in WriteLabels : LandLate(l, c)
             \/ Crash \/ UNCHANGED vars
      PROVE  MovesOn(o, pc'[o])
  BY <1>1, <1>8 DEF Cancel, LandLate, Crash, vars, callVars
<1> QED BY <1>3, <1>4, <1>5, <1>6, <1>7, <1>8 DEF Next, Step, Finished

\* An attempt that succeeds pays, sends a driver, or pays back, and moves on
\* (order.go:86-108).
LEMMA SuccessMoney ==
  ASSUME TypeOK, KeyInv, NEW o \in Calls, AttemptSucceeds(o)
  PROVE  \/ /\ pc[o] = "charge" /\ pc'[o] = "chargeSucceeded"
            /\ payments'[o] = "charged" /\ assignments'[o] = assignments[o]
         \/ pc[o] = "assign" /\ pc'[o] = "assignSucceeded"
         \/ /\ pc[o] = "refund" /\ pc'[o] = "refundSucceeded"
            /\ payments'[o] = "refunded" /\ assignments'[o] = assignments[o]
<1>1. pc[o] \in ClientLabels /\ pc'[o] = OnSuccess[pc[o]] /\ Land(pc[o], o)
  BY DEF AttemptSucceeds, Goto, Succeeds, TypeOK
<1>2. pc[o] \in {"charge", "refund"} => assignments' = assignments
  BY <1>1 DEF Land, InsertSaga, InsertPayment, UpdatePayment, AddStep, UpdateStatus
<1>3. pc[o] = "charge" => payments'[o] = "charged"
  BY SuccessLands
<1>4. pc[o] = "refund" => payments'[o] = "refunded"
  BY SuccessLands
<1> QED BY <1>1, <1>2, <1>3, <1>4 DEF ClientLabels, OnSuccess

\* At first nothing is paid, and nothing is said.
LEMMA InitCompensation == Init => CompensationInv
  BY DEF Init, CompensationInv, MoneyByPhase, SaysFailed, SaysRefunded, HasRow,
     Uncharged, Charged, Final

\* Every step keeps money and phase together.
LEMMA NextCompensation ==
  ASSUME ErrorsMeanNothingRan, TypeOK, KeyInv, OutcomeInv, MarkedOnce,
         CompensationInv, [Next]_vars
  PROVE  CompensationInv'
<1>1. ctxDone' = {}
  BY NextUndisturbed DEF CompensationInv, ErrorsMeanNothingRan
<1>2. ASSUME NEW l \in ClientLabels, NEW o \in Calls, <<l, o>> \in late' PROVE FALSE
  <2>1. <<l, o>> \notin late /\ Faults[l] \cap {"lostAck", "late"} = {}
    BY DEF CompensationInv, ErrorsMeanNothingRan
  <2>2. ASSUME NEW c \in Calls, StartInsert(c) \/ Log(c) \/ Mark(c) PROVE FALSE
    BY <1>2, <2>1, <2>2 DEF StartInsert, Log, Mark, Succeeds, Errs, ClientLabels,
       LogLabels, MarkLabels, StepRow, FinalStatus
  <2>3. ASSUME NEW c \in Calls, AttemptSucceeds(c) \/ AttemptErrs(c) PROVE FALSE
    BY <1>2, <2>1, <2>3 DEF AttemptSucceeds, AttemptErrs, Succeeds, Errs
  <2>4. late' \subseteq late => FALSE
    BY <1>2, <2>1
  <2>5. ASSUME NEW c \in Calls,
               \/ Receive(c) \/ RefuseEmptyKey(c) \/ StartSelect(c) \/ Answer(c)
               \/ GiveUp(c) \/ Cancel(c) \/ (\E x \in WriteLabels : LandLate(x, c))
        PROVE  late' \subseteq late
    BY <2>5 DEF Receive, RefuseEmptyKey, StartSelect, Answer, GiveUp, Cancel, LandLate
  <2>6. Crash \/ UNCHANGED vars => late' \subseteq late
    BY DEF Crash, vars
  <2> QED BY <2>2, <2>3, <2>4, <2>5, <2>6 DEF Next, Step, Finished
<1>3. ASSUME NEW o \in Calls PROVE MoneyByPhase(o)'
  <2>1. MoneyByPhase(o)
    BY DEF CompensationInv
  <2>2. SaysFailed(o)' => pc'[o] = "markFailed" \/ SaysFailed(o)
    BY FailedEffects DEF SaysFailed
  <2>3. SaysRefunded(o)' => pc'[o] \in {"refundSucceeded", "markRefunded"} \/ SaysRefunded(o)
    BY NextEffects DEF Effects, SaysRefunded
  <2>4. CASE /\ payments'[o] = payments[o] /\ assignments'[o] = assignments[o]
             /\ MovesOn(o, pc'[o])
    <3>1. pc'[o] = "markFailed" => payments[o] = "none" /\ assignments[o] = None
      BY <2>1, <2>4 DEF MovesOn, MoneyByPhase, SaysFailed, Uncharged, Final
    <3>2. pc'[o] \in {"refundSucceeded", "markRefunded"} => SaysRefunded(o)
      BY <2>4 DEF MovesOn, SaysRefunded
    <3> QED BY <2>1, <2>2, <2>3, <2>4, <3>1, <3>2 DEF MovesOn, MoneyByPhase
  <2>5. CASE AttemptSucceeds(o)
    <3>1. ~SaysFailed(o) /\ ~SaysRefunded(o)
      <4>1. pc[o] \in ClientLabels
        BY <2>5 DEF AttemptSucceeds
      <4>2. ~Settled(o) /\ NoMarkLate(o)
        BY <4>1 DEF MarkedOnce, Over, ClientLabels
      <4> QED
        BY <4>1, <4>2 DEF SaysFailed, SaysRefunded, Settled, NoMarkLate, ClientLabels,
           MarkLabels, FinalStatus
    <3> QED
      BY <2>1, <2>2, <2>3, <2>5, <3>1, SuccessMoney
      DEF MoneyByPhase, Uncharged, Charged, Final
  <2> QED BY <2>4, <2>5, MoneyMoves, NextMovesOn
<1> QED BY <1>1, <1>2, <1>3 DEF CompensationInv

\* Unless callers leave, or a charge or an assignment that errs ran all the
\* same, or a refund fails: a failed order cost nothing, a refunded one was
\* paid back, and neither keeps a driver (order.go:86-106).
THEOREM FailuresCompensated == ASSUME ErrorsMeanNothingRan PROVE Spec => []SettledConsistently
<1>1. Init => CompensationInv
  BY InitCompensation
<1>2. TypeOK /\ KeyInv /\ OutcomeInv /\ MarkedOnce /\ CompensationInv /\ [Next]_vars
        => CompensationInv'
  BY NextCompensation
<1>3. TypeOK /\ OutcomeInv /\ CompensationInv => SettledConsistently
  <2> SUFFICES ASSUME TypeOK, OutcomeInv, CompensationInv, NEW o \in Calls, Settled(o)
               PROVE  /\ sagas[o].status = "failed"    => payments[o] = "none"
                      /\ sagas[o].status = "refunded"  => payments[o] = "refunded"
                      /\ sagas[o].status # "succeeded" => assignments[o] = None
    BY DEF SettledConsistently
  <2>1. sagas[o].status \in {"succeeded", "failed", "refunded"}
    BY DEF TypeOK, Settled, HasRow, SagaRow, Statuses
  <2>2. sagas[o].status = "failed" => SaysFailed(o)
    BY DEF Settled, SaysFailed
  <2>3. sagas[o].status = "refunded" => SaysRefunded(o)
    BY DEF Settled, SaysRefunded
  <2> QED BY <2>1, <2>2, <2>3 DEF OutcomeInv, CompensationInv, MoneyByPhase
<1> QED
  BY <1>1, <1>2, <1>3, InitType, InitKey, InitOutcome, InitMarked, NextType, NextKey,
     NextOutcome, NextMarked, PTL DEF Spec

(***************************************************************************)
(* Errors.                                                                 *)
(***************************************************************************)
\* A call that was told "error" is over and holds no money.
ErrorsPaidBack ==
  \A c \in Calls : reply[c].code = "error" =>
    pc[c] = "returned" /\ payments[c] # "charged"

\* A call ends with an error before it charges, or when it has just marked
\* its saga failed or refunded (order.go:73-77, 92-93, 99-106).
LEMMA ErrorEnds ==
  ASSUME TypeOK, [Next]_vars, NEW c \in Calls,
         reply[c].code # "error", reply'[c].code = "error"
  PROVE  /\ pc[c] \in {"insert", "select", "markFailed", "markRefunded"}
         /\ pc'[c] = "returned"
<1> USE DEF TypeOK
<1>1. reply' # reply
  OBVIOUS
<1>2. ASSUME NEW d \in Calls, NEW code, NEW x, Return(d, code, x)
      PROVE  d = c /\ code = "error" /\ pc'[c] = "returned"
  BY <1>2 DEF Return, Goto
<1>3. ASSUME NEW d \in Calls, Receive(d) \/ RefuseEmptyKey(d) \/ Answer(d) PROVE FALSE
  BY <1>1, <1>2, <1>3 DEF Receive, RefuseEmptyKey, Answer
<1>4. ASSUME NEW d \in Calls, StartInsert(d) \/ StartSelect(d)
      PROVE  /\ d = c /\ pc[c] \in {"insert", "select"}
             /\ pc'[c] = "returned"
  BY <1>1, <1>2, <1>4 DEF StartInsert, StartSelect
<1>5. ASSUME NEW d \in Calls, Mark(d)
      PROVE  /\ d = c /\ pc[c] \in {"markFailed", "markRefunded"}
             /\ pc'[c] = "returned"
  <2>1. pc[d] \in {"markFailed", "markRefunded", "markSucceeded"}
    BY <1>5 DEF Mark, MarkLabels, FinalStatus
  <2>2. pc[d] # "markSucceeded" /\ Return(d, "error", None)
    BY <1>2, <1>5 DEF Mark
  <2> QED BY <1>2, <2>1, <2>2
<1>6. ASSUME NEW d \in Calls,
             \/ Log(d) \/ GiveUp(d) \/ AttemptSucceeds(d) \/ AttemptErrs(d) \/ Cancel(d)
             \/ \E l \in WriteLabels : LandLate(l, d)
      PROVE  FALSE
  BY <1>1, <1>6 DEF Log, GiveUp, AttemptSucceeds, AttemptErrs, Cancel, LandLate, callVars
<1>7. ~Crash /\ ~UNCHANGED vars
  BY <1>1 DEF Crash, vars, callVars
<1> QED BY <1>3, <1>4, <1>5, <1>6, <1>7 DEF Next, Step, Finished

\* A call that is over stays over.
LEMMA ReturnedStays ==
  ASSUME TypeOK, KeyInv, [Next]_vars, NEW c \in Calls, pc[c] = "returned"
  PROVE  pc'[c] = "returned"
  BY NextMoves, ScriptFacts DEF Moves, Moved

\* Every step leaves calls with an error without money.
LEMMA NextErrors ==
  ASSUME ErrorsMeanNothingRan, TypeOK, KeyInv, OutcomeInv, CompensationInv,
         ErrorsPaidBack, [Next]_vars
  PROVE  ErrorsPaidBack'
<1> SUFFICES ASSUME NEW c \in Calls, reply'[c].code = "error"
             PROVE  pc'[c] = "returned" /\ payments'[c] # "charged"
  BY DEF ErrorsPaidBack
<1>1. /\ pc[c] \in {"returned", "insert", "select", "markFailed", "markRefunded"}
      /\ pc'[c] = "returned"
  BY ErrorEnds, ReturnedStays DEF ErrorsPaidBack
<1>2. payments[c] # "charged"
  <2>1. MoneyByPhase(c) /\ (SaysRefunded(c) => payments[c] = "refunded")
    BY DEF CompensationInv, OutcomeInv
  <2>2. CASE reply[c].code = "error"
    BY <2>2 DEF ErrorsPaidBack
  <2>3. CASE reply[c].code # "error"
    <3>1. pc[c] \in {"insert", "select", "markFailed", "markRefunded"}
      BY <2>3, ErrorEnds
    <3> QED BY <2>1, <3>1 DEF MoneyByPhase, SaysFailed, SaysRefunded, Uncharged
  <2> QED BY <2>2, <2>3
<1>3. payments'[c] = payments[c]
  BY <1>1, MoneyMoves DEF AttemptSucceeds, ClientLabels
<1> QED BY <1>1, <1>2, <1>3

\* Unless callers leave, or a charge or an assignment that errs ran all the
\* same, or a refund fails: a call that returned an error keeps no money, at
\* that moment or later, however its saga's rows and its status fared
\* (order.go:96, README.md:10).
THEOREM ErrorsKeepNoMoney == ASSUME ErrorsMeanNothingRan PROVE Spec => []ErrorMeansNoCharge
<1>1. Init => CompensationInv /\ ErrorsPaidBack
  BY InitCompensation DEF Init, ErrorsPaidBack
<1>2. TypeOK /\ KeyInv /\ OutcomeInv /\ MarkedOnce /\ CompensationInv /\ [Next]_vars
        => CompensationInv'
  BY NextCompensation
<1>3. TypeOK /\ KeyInv /\ OutcomeInv /\ CompensationInv /\ ErrorsPaidBack /\ [Next]_vars
        => ErrorsPaidBack'
  BY NextErrors
<1>4. ErrorsPaidBack => ErrorMeansNoCharge
  BY DEF ErrorsPaidBack, ErrorMeansNoCharge
<1> QED
  BY <1>1, <1>2, <1>3, <1>4, InitType, InitKey, InitOutcome, InitMarked, NextType, NextKey,
     NextOutcome, NextMarked, PTL DEF Spec

=============================================================================
