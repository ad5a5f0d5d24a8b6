----------------------- MODULE ServerLifecycleProofs -----------------------
(***************************************************************************)
(* Theorems about ServerLifecycle, for any number of calls and any set of  *)
(* environments: the counters agree with the handlers, the stores outlive  *)
(* the work that needs them and not the process, and the process serves    *)
(* only when it is configured.                                             *)
(***************************************************************************)
EXTENDS ServerLifecycle, FiniteSetTheorems, TLAPS

(***************************************************************************)
(* Start-up.                                                               *)
(***************************************************************************)
Setup == {"redis", "ping", "history", "schema", "orders", "builder",
          "listen", "config", "observe"}

Serving == {"select", "notServing", "snapshot", "mark", "stop", "drain"}

Closing == {"closeOrders", "closeLocations", "exited"}

\* Where a step of the start-up leads when it succeeds.
Order ==
  {<<"redis", "ping">>, <<"ping", "history">>, <<"history", "schema">>,
   <<"schema", "orders">>, <<"orders", "builder">>, <<"builder", "listen">>,
   <<"listen", "config">>, <<"config", "observe">>, <<"observe", "select">>}

\* Setup, serving and closing are all the phases of main.go.
LEMMA PhaseFacts == Phases = Setup \cup Serving \cup Closing
<1>1. {SetupSteps[i] : i \in DOMAIN SetupSteps} = Setup
  <2>1. DOMAIN SetupSteps = 1 .. 9
    BY DEF SetupSteps
  <2>2. ASSUME NEW i \in 1 .. 9 PROVE SetupSteps[i] \in Setup
    <3>1. i \in {1, 2, 3, 4, 5, 6, 7, 8, 9}
      OBVIOUS
    <3> QED BY <3>1 DEF SetupSteps, Setup
  <2>3. ASSUME NEW p \in Setup PROVE \E i \in 1 .. 9 : p = SetupSteps[i]
    BY DEF SetupSteps, Setup
  <2> QED BY <2>1, <2>2, <2>3
<1> QED BY <1>1 DEF Phases, Serving, Closing

\* A step of the start-up succeeds, and the next follows, or it fails.
LEMMA SetupCases ==
  ASSUME SetupStep
  PROVE  /\ phase \in Setup
         /\ \/ /\ Loads(phase) /\ <<phase, phase'>> \in Order
               /\ open' = open \cup Opens(phase)
               /\ env' = IF phase' = "select" THEN Forgotten ELSE env
            \/ SetupFails
<1>1. DOMAIN SetupSteps = 1 .. 9 /\ Len(SetupSteps) = 9
  BY DEF SetupSteps
<1>2. PICK i \in 1 .. 9 : phase = SetupSteps[i] /\ (SetupSucceeds(i) \/ SetupFails)
  BY <1>1 DEF SetupStep
<1>3. i \in {1, 2, 3, 4, 5, 6, 7, 8, 9}
  OBVIOUS
<1>4. phase \in Setup
  BY <1>2, <1>3 DEF SetupSteps, Setup
<1>5. ASSUME SetupSucceeds(i) PROVE <<phase, phase'>> \in Order
  <2>1. phase' = IF i = 9 THEN "select" ELSE SetupSteps[i + 1]
    BY <1>1, <1>5 DEF SetupSucceeds
  <2> QED BY <1>2, <1>3, <2>1 DEF SetupSteps, Order
<1> QED BY <1>2, <1>4, <1>5 DEF SetupSucceeds

-----------------------------------------------------------------------------
(***************************************************************************)
(* The inductive invariant, beside MetricsAgree.                           *)
(***************************************************************************)
\* What is open when, and what is not.
StoresByPhase ==
  /\ phase = "redis" => open \cap Stores = {}
  /\ phase \in {"ping", "history", "schema", "orders"} => "orders" \notin open
  /\ phase \in {"ping", "history"} => "redis" \in open
  /\ phase \in {"schema", "orders"} => {"redis", "history"} \subseteq open
  /\ phase \in {"builder", "listen", "config", "observe"} \cup Serving => Stores \subseteq open
  /\ phase = "closeLocations" => "orders" \notin open
  /\ phase = "exited" => open \cap Stores = {}

\* When there may be calls: none before the process serves, no new ones once
\* it stops, and none at all after a stop on a signal.
CallsByPhase ==
  /\ phase \in Setup => (\A c \in Calls : call[c] = "none") /\ ~serveErr
  /\ accepting => phase \in Serving \ {"drain"} /\ ~serveErr
  /\ mark # -1 => phase \in {"stop", "drain"} \cup Closing
  /\ phase \in Closing /\ (~serveErr \/ mark # -1) => \A c \in Calls : Idle(c)

\* TypeOK, but for the counters, whose bounds follow from what they count.
Typed ==
  /\ env = Forgotten \/ env \in Environment
  /\ phase \in Phases
  /\ open \subseteq Stores \cup {"listen", "observe"}
  /\ {signalled, serveErr, accepting, serving} \subseteq BOOLEAN
  /\ seen \in 0 .. Cardinality(Calls)
  /\ call \in [Calls -> {"none", "arrived", "limited", "working", "returned", "done"}]
  /\ failed \subseteq Calls
  /\ mark \in -1 .. Cardinality(Calls)

\* Every step keeps the types.
LEMMA NextTyped == TypeOK /\ [Next]_vars => Typed'
<1> SUFFICES ASSUME TypeOK, [Next]_vars PROVE Typed'
  OBVIOUS
<1> USE DEF TypeOK, Typed
<1>1. CASE SetupStep
  <2>1. phase' \in Phases
    BY <1>1, SetupCases, PhaseFacts
    DEF Order, Setup, Serving, Closing, SetupFails, AfterFailure
  <2>2. open' \subseteq Stores \cup {"listen", "observe"}
    BY <1>1, SetupCases DEF SetupFails, Opens, Stores
  <2>3. env' = Forgotten \/ env' \in Environment
    BY <1>1, SetupCases DEF SetupFails
  <2> QED BY <1>1, <2>1, <2>2, <2>3 DEF SetupStep, metrics
<1>2. CASE Signal \/ ServeFails
  BY <1>2 DEF Signal, ServeFails, metrics
<1>3. CASE \/ Select \/ NotServing \/ ReadInFlight \/ RecordShutdown
           \/ StopAccepting \/ StopObserving \/ CloseOrders \/ CloseLocations
  <2>1. phase' \in Phases
    BY <1>3, PhaseFacts DEF Serving, Closing, Select, NotServing, ReadInFlight,
       RecordShutdown, StopAccepting, StopObserving, CloseOrders, CloseLocations
  <2>2. seen' \in 0 .. Cardinality(Calls)
    BY <1>3 DEF Select, NotServing, ReadInFlight, RecordShutdown,
       StopAccepting, StopObserving, CloseOrders, CloseLocations
  <2>3. mark' = mark \/ mark' = seen
    BY <1>3 DEF Select, NotServing, ReadInFlight, RecordShutdown, MarkShutdown,
       StopAccepting, StopObserving, CloseOrders, CloseLocations, metrics
  <2>4. mark' \in -1 .. Cardinality(Calls)
    BY <2>3, FS_CardinalityType, LifecycleAssumption
  <2> QED
    BY <1>3, <2>1, <2>2, <2>4 DEF Select, NotServing, ReadInFlight, RecordShutdown,
       StopAccepting, StopObserving, CloseOrders, CloseLocations
<1>4. ASSUME NEW c \in Calls, Handler(c) PROVE Typed'
  BY <1>4 DEF Handler, Arrive, StartSpan, Admit, Refuse, Return, Finish, Move, EndSpan,
     Start, End, main, metrics
<1>5. CASE UNCHANGED vars
  BY <1>5 DEF vars, main, metrics
<1> QED BY <1>1, <1>2, <1>3, <1>4, <1>5 DEF Next, Main, Exited

\* Every step keeps the stores with the phase they belong to.
LEMMA NextStores == TypeOK /\ StoresByPhase /\ [Next]_vars => StoresByPhase'
<1> SUFFICES ASSUME TypeOK, StoresByPhase, [Next]_vars PROVE StoresByPhase'
  OBVIOUS
<1> USE DEF StoresByPhase, Stores, Serving
<1>1. CASE SetupStep
  <2>1. CASE SetupFails
    <3>1. /\ phase \in Setup /\ open' = open \ Undo(phase)
          /\ phase' = AfterFailure(phase)
      BY <1>1, <2>1, SetupCases DEF SetupFails
    <3>2. CASE phase = "redis"
      BY <3>1, <3>2 DEF Undo, AfterFailure
    <3>3. CASE phase \in {"ping", "history", "schema"}
      BY <3>1, <3>3 DEF Undo, AfterFailure
    <3>4. CASE phase \in {"orders", "builder"}
      BY <3>1, <3>4 DEF Undo, AfterFailure
    <3>5. CASE phase \in {"listen", "config", "observe"}
      BY <3>1, <3>5 DEF AfterFailure
    <3> QED BY <3>1, <3>2, <3>3, <3>4, <3>5 DEF Setup
  <2>2. CASE <<phase, phase'>> \in Order /\ open' = open \cup Opens(phase)
    <3>1. CASE phase \in {"redis", "ping", "history"}
      BY <2>2, <3>1 DEF Order, Opens
    <3>2. CASE phase = "schema" \/ phase = "orders"
      <4>1. phase' = "orders" \/ phase' = "builder"
        BY <2>2, <3>2 DEF Order
      <4>2. phase' = "orders" => open' = open
        BY <2>2, <3>2, <4>1 DEF Order, Opens
      <4>3. phase' = "builder" => {"redis", "history", "orders"} \subseteq open'
        BY <2>2, <3>2, <4>1 DEF Order, Opens
      <4> QED BY <3>2, <4>1, <4>2, <4>3
    <3>3. CASE phase = "builder"
      BY <2>2, <3>3 DEF Order
    <3>4. CASE phase \in {"listen", "config", "observe"}
      BY <2>2, <3>4 DEF Order, Opens
    <3> QED BY <2>2, <3>1, <3>2, <3>3, <3>4 DEF Order
  <2> QED BY <1>1, <2>1, <2>2, SetupCases
<1>2. CASE Signal \/ ServeFails
  BY <1>2 DEF Signal, ServeFails
<1>3. CASE \/ Select \/ NotServing \/ ReadInFlight \/ RecordShutdown
           \/ StopAccepting \/ StopObserving \/ CloseOrders \/ CloseLocations
  BY <1>3 DEF Select, NotServing, ReadInFlight, RecordShutdown,
     StopAccepting, StopObserving, CloseOrders, CloseLocations
<1>4. ASSUME NEW c \in Calls, Handler(c) PROVE StoresByPhase'
  BY <1>4 DEF Handler, Arrive, StartSpan, Admit, Refuse, Return, Finish, main
<1>5. CASE UNCHANGED vars
  BY <1>5 DEF vars, main
<1> QED BY <1>1, <1>2, <1>3, <1>4, <1>5 DEF Next, Main, Exited

\* Every step keeps the calls with the phase they belong to.
LEMMA NextCalls == TypeOK /\ CallsByPhase /\ [Next]_vars => CallsByPhase'
<1> SUFFICES ASSUME TypeOK, CallsByPhase, [Next]_vars PROVE CallsByPhase'
  OBVIOUS
<1> USE DEF TypeOK, CallsByPhase, Setup, Serving, Closing, Idle
<1>1. CASE SetupStep
  <2>1. phase' \in Setup \cup {"select"} \cup Closing /\ accepting' = (phase' = "select")
    BY <1>1, SetupCases DEF SetupStep, Order, SetupFails, AfterFailure
  <2> QED BY <1>1, <2>1, SetupCases DEF SetupStep, metrics
<1>2. CASE Signal \/ ServeFails
  BY <1>2 DEF Signal, ServeFails, metrics
<1>3. CASE NotServing \/ ReadInFlight \/ RecordShutdown
  BY <1>3 DEF NotServing, ReadInFlight, RecordShutdown, MarkShutdown, metrics
<1>8. CASE Select
  <2>1. mark = -1 /\ UNCHANGED <<serveErr, accepting, call, mark>>
    BY <1>8 DEF Select, metrics
  <2> QED BY <1>8, <2>1 DEF Select
<1>7. CASE StopAccepting \/ CloseOrders \/ CloseLocations
  BY <1>7 DEF StopAccepting, CloseOrders, CloseLocations, metrics
<1>4. CASE StopObserving
  BY <1>4 DEF StopObserving, Drained, metrics
<1>5. ASSUME NEW c \in Calls, Handler(c) PROVE CallsByPhase'
  <2>1. UNCHANGED <<main, mark>>
    BY <1>5 DEF Handler, Arrive, StartSpan, Admit, Refuse, Return, Finish, EndSpan, Start,
       End, metrics
  <2>2. phase \notin Setup
    BY <1>5 DEF Handler, Arrive, StartSpan, Admit, Refuse, Return, Finish, Move
  <2>3. phase \in Closing => ~Idle(c)
    BY <1>5 DEF Handler, Arrive, StartSpan, Admit, Refuse, Return, Finish, Move
  <2> QED BY <2>1, <2>2, <2>3 DEF main
<1>6. CASE UNCHANGED vars
  BY <1>6 DEF vars, main, metrics
<1> QED BY <1>1, <1>2, <1>3, <1>4, <1>5, <1>6, <1>7, <1>8 DEF Next, Main, Exited

-----------------------------------------------------------------------------
(***************************************************************************)
(* The counters.                                                           *)
(***************************************************************************)
\* Calls with an open span, those that are counted, and those in error.
Active == {c \in Calls \ Untracked : call[c] \in {"limited", "working", "returned"}}

Ended == {c \in Calls \ Untracked : call[c] \in {"done"}}

Errored == Ended \cap failed

\* A call more, or a call less.
LEMMA CountOne ==
  ASSUME NEW S \in SUBSET Calls, NEW c \in Calls
  PROVE  /\ Cardinality(S) \in 0 .. Cardinality(Calls)
         /\ c \notin S => Cardinality(S \cup {c}) = Cardinality(S) + 1
         /\ c \in S => Cardinality(S \ {c}) = Cardinality(S) - 1
  BY LifecycleAssumption, FS_Subset, FS_CardinalityType, FS_AddElement, FS_RemoveElement

\* The bounds of the counters follow from what they count.
LEMMA CountersTyped == Typed /\ MetricsAgree => TypeOK
<1> SUFFICES ASSUME Typed, MetricsAgree PROVE TypeOK
  OBVIOUS
<1>1. /\ Active \in SUBSET Calls /\ Ended \in SUBSET Calls /\ Errored \in SUBSET Ended
      /\ inFlight = Cardinality(Active) /\ count = Cardinality(Ended)
      /\ errors = Cardinality(Errored)
  BY DEF MetricsAgree, Active, Ended, Errored
<1>2. IsFiniteSet(Active) /\ IsFiniteSet(Ended) /\ IsFiniteSet(Errored) /\ IsFiniteSet(Calls)
  BY <1>1, LifecycleAssumption, FS_Subset
<1>3. /\ Cardinality(Active) \in Nat /\ Cardinality(Active) <= Cardinality(Calls)
      /\ Cardinality(Ended) \in Nat /\ Cardinality(Ended) <= Cardinality(Calls)
      /\ Cardinality(Errored) \in Nat /\ Cardinality(Errored) <= Cardinality(Ended)
      /\ Cardinality(Calls) \in Nat
  BY <1>1, <1>2, FS_Subset, FS_CardinalityType
<1> QED BY <1>1, <1>3 DEF Typed, TypeOK

\* A span that is opened is closed once, on every path of the interceptors.
LEMMA NextMetrics == TypeOK /\ MetricsAgree /\ [Next]_vars => MetricsAgree'
<1> SUFFICES ASSUME TypeOK, MetricsAgree, [Next]_vars PROVE MetricsAgree'
  OBVIOUS
<1>1. /\ Active \in SUBSET Calls /\ Ended \in SUBSET Calls /\ Errored \in SUBSET Calls
      /\ inFlight = Cardinality(Active) /\ count = Cardinality(Ended)
      /\ errors = Cardinality(Errored)
  BY DEF MetricsAgree, Active, Ended, Errored
<1> SUFFICES /\ inFlight' = Cardinality(Active') /\ count' = Cardinality(Ended')
             /\ errors' = Cardinality(Errored')
  BY DEF MetricsAgree, Active, Ended, Errored
<1>2. CASE UNCHANGED <<call, failed, inFlight, count, errors>>
  BY <1>1, <1>2 DEF Active, Ended, Errored
<1>3. CASE Main \/ Signal \/ ServeFails \/ UNCHANGED vars
  <2>1. UNCHANGED <<call, failed, inFlight, count, errors>>
    BY <1>3 DEF Main, SetupStep, Select, NotServing, ReadInFlight, RecordShutdown,
       MarkShutdown, StopAccepting, StopObserving, CloseOrders, CloseLocations,
       Signal, ServeFails, vars, metrics
  <2> QED BY <1>2, <2>1
<1>4. ASSUME NEW c \in Calls, Arrive(c) \/ Admit(c) \/ Return(c)
      PROVE  Active' = Active /\ Ended' = Ended /\ Errored' = Errored /\ UNCHANGED metrics
  BY <1>4 DEF Arrive, Admit, Return, Move, TypeOK, Active, Ended, Errored
<1>5. ASSUME NEW c \in Calls, StartSpan(c)
      PROVE  /\ inFlight' = Cardinality(Active') /\ count' = Cardinality(Ended')
             /\ errors' = Cardinality(Errored')
  <2>1. Ended' = Ended /\ Errored' = Errored /\ count' = count /\ errors' = errors
    BY <1>5 DEF StartSpan, Move, TypeOK, Start, metrics, Ended, Errored
  <2>2. CASE c \in Untracked
    <3>1. Active' = Active /\ inFlight' = inFlight
      BY <1>5, <2>2 DEF StartSpan, Move, TypeOK, metrics, Active
    <3> QED BY <1>1, <2>1, <3>1
  <2>3. CASE c \notin Untracked
    <3>1. c \notin Active /\ Active' = Active \cup {c} /\ inFlight' = inFlight + 1
      BY <1>5, <2>3 DEF StartSpan, Move, TypeOK, Start, Active
    <3> QED BY <1>1, <2>1, <3>1, CountOne
  <2> QED BY <2>2, <2>3
<1>6. ASSUME NEW c \in Calls, Refuse(c) \/ Finish(c)
      PROVE  /\ inFlight' = Cardinality(Active') /\ count' = Cardinality(Ended')
             /\ errors' = Cardinality(Errored')
  <2>1. /\ call[c] \in {"limited", "returned"} /\ call' = [call EXCEPT ![c] = "done"]
        /\ failed' \in {failed, failed \cup {c}}
        /\ EndSpan(c, c \in failed')
    BY <1>6 DEF Refuse, Finish, Move
  <2>2. CASE c \in Untracked
    <3>1. /\ Active' = Active /\ Ended' = Ended /\ Errored' = Errored
          /\ UNCHANGED metrics
      BY <2>1, <2>2 DEF TypeOK, EndSpan, Active, Ended, Errored
    <3> QED BY <1>1, <3>1 DEF metrics
  <2>3. CASE c \notin Untracked
    <3>1. /\ inFlight' = inFlight - 1 /\ count' = count + 1
          /\ errors' = IF c \in failed' THEN errors + 1 ELSE errors
      BY <2>1, <2>3 DEF EndSpan, End
    <3>2. /\ c \in Active /\ Active' = Active \ {c}
          /\ c \notin Ended /\ Ended' = Ended \cup {c}
      BY <2>1, <2>3 DEF TypeOK, Active, Ended
    <3>3. c \notin Errored /\ Errored' = IF c \in failed' THEN Errored \cup {c} ELSE Errored
      BY <2>1, <3>2 DEF Errored
    <3> QED BY <1>1, <3>1, <3>2, <3>3, CountOne
  <2> QED BY <2>2, <2>3
<1> QED
  BY <1>1, <1>3, <1>4, <1>5, <1>6 DEF Next, Exited, Handler, metrics

-----------------------------------------------------------------------------
(***************************************************************************)
(* The theorems.                                                           *)
(***************************************************************************)
LifecycleInv == TypeOK /\ MetricsAgree /\ StoresByPhase /\ CallsByPhase

\* The process starts with nothing open and no call.
LEMMA InitLifecycle == Init => LifecycleInv
<1> SUFFICES ASSUME Init PROVE LifecycleInv
  OBVIOUS
<1>1. Active = {} /\ Ended = {} /\ Errored = {}
  BY DEF Init, Active, Ended, Errored
<1>2. MetricsAgree
  BY <1>1, FS_EmptySet DEF Init, InitMetrics, MetricsAgree, Active, Ended, Errored
<1>3. phase \in Phases
  BY PhaseFacts DEF Init, Setup
<1>4. Typed
  <2>1. Cardinality(Calls) \in Nat
    BY LifecycleAssumption, FS_CardinalityType
  <2>2. 0 \in 0 .. Cardinality(Calls) /\ -1 \in -1 .. Cardinality(Calls)
    BY <2>1
  <2> QED BY <1>3, <2>2, LifecycleAssumption DEF Init, InitMetrics, Typed
<1>5. StoresByPhase
  BY DEF Init, StoresByPhase, Serving
<1>6. CallsByPhase
  BY DEF Init, InitMetrics, CallsByPhase, Closing
<1> QED BY <1>2, <1>4, <1>5, <1>6, CountersTyped DEF LifecycleInv

\* The invariant is inductive, so it holds throughout.
LEMMA LifecycleCorrect == Spec => []LifecycleInv
<1>1. LifecycleInv /\ [Next]_vars
        => Typed' /\ MetricsAgree' /\ StoresByPhase' /\ CallsByPhase'
  BY NextTyped, NextMetrics, NextStores, NextCalls DEF LifecycleInv
<1> QED BY <1>1, InitLifecycle, CountersTyped, PTL DEF Spec, LifecycleInv

\* The variables keep their types.
THEOREM LifecycleTyped == Spec => []TypeOK
  BY LifecycleCorrect, PTL DEF LifecycleInv

\* The counters agree with the handlers at every moment, on every path of
\* the interceptors (grpc_middleware.go:32-80, metrics.go:69-90, 155-172).
THEOREM CountersAgree == Spec => []MetricsAgree
  BY LifecycleCorrect, PTL DEF LifecycleInv

\* Once run has returned its stores are closed, wherever it failed
\* (location_store.go:62-95, builder.go:32-53, main.go:57, 68).
THEOREM NothingLeftOpen == Spec => []StoresReleased
<1>1. LifecycleInv => StoresReleased
  BY DEF LifecycleInv, StoresByPhase, StoresReleased
<1> QED BY <1>1, LifecycleCorrect, PTL

\* A process that stops on a signal has answered every call it accepted
\* (main.go:112-119).
THEOREM SignalAnswersAll == Spec => []SignalLeavesNoCall
<1>1. LifecycleInv => SignalLeavesNoCall
  BY DEF LifecycleInv, CallsByPhase, Closing, SignalLeavesNoCall
<1> QED BY <1>1, LifecycleCorrect, PTL

\* A handler that works has its stores open, unless Serve failed: they are
\* opened before the first call and closed after the last (main.go:119-128).
THEOREM WorkersHaveStores == Spec => []WorkHasStores
<1>1. LifecycleInv => WorkHasStores
  <2> SUFFICES ASSUME LifecycleInv, ~serveErr, NEW c \in Calls, call[c] = "working",
                      phase # "exited"
               PROVE  Stores \subseteq open
    BY DEF WorkHasStores
  <2>1. phase \in Serving
    BY PhaseFacts DEF LifecycleInv, TypeOK, CallsByPhase, Closing, Idle
  <2> QED BY <2>1 DEF LifecycleInv, StoresByPhase
<1> QED BY <1>1, LifecycleCorrect, PTL

-----------------------------------------------------------------------------
(***************************************************************************)
(* The environment.                                                        *)
(***************************************************************************)
\* What was read stays read: the environment is the one that was found.
ConfigByPhase ==
  /\ phase \in Setup \ {"redis"} => Loads("redis")
  /\ phase \in {"orders", "builder", "listen", "config", "observe"} => Loads("schema")
  /\ phase \in {"listen", "config", "observe"} => Loads("builder")
  /\ phase = "observe" => Loads("config")

\* Every step of the start-up adds what it has read.
LEMMA NextConfig == TypeOK /\ ConfigByPhase /\ [Next]_vars => ConfigByPhase'
<1> SUFFICES ASSUME TypeOK, ConfigByPhase, [Next]_vars PROVE ConfigByPhase'
  OBVIOUS
<1>1. ASSUME NEW p, env' = env, Loads(p) PROVE Loads(p)'
  BY <1>1 DEF Loads
<1>2. CASE phase' \notin Setup
  BY <1>2 DEF ConfigByPhase, Setup
<1>3. CASE SetupStep /\ phase' \in Setup
  <2>1. /\ Loads(phase) /\ <<phase, phase'>> \in Order /\ env' = env
    <3>1. ~SetupFails
      BY <1>3 DEF SetupFails, AfterFailure, Setup
    <3> QED BY <1>3, <3>1, SetupCases DEF Setup
  <2>2. phase' \in Setup \ {"redis"} => Loads("redis")'
    BY <1>1, <2>1 DEF ConfigByPhase, Order, Setup
  <2>3. phase' \in {"orders", "builder", "listen", "config", "observe"} => Loads("schema")'
    BY <1>1, <2>1 DEF ConfigByPhase, Order
  <2>4. phase' \in {"listen", "config", "observe"} => Loads("builder")'
    BY <1>1, <2>1 DEF ConfigByPhase, Order
  <2>5. phase' = "observe" => Loads("config")'
    BY <1>1, <2>1 DEF Order
  <2> QED BY <2>2, <2>3, <2>4, <2>5 DEF ConfigByPhase
<1>4. CASE phase' = phase /\ env' = env
  BY <1>1, <1>4 DEF ConfigByPhase
<1>5. CASE Main /\ ~SetupStep
  BY <1>2, <1>5 DEF Main, Select, NotServing, ReadInFlight, RecordShutdown,
     StopAccepting, StopObserving, CloseOrders, CloseLocations, Setup
<1>6. ASSUME NEW c \in Calls, Handler(c) PROVE phase' = phase /\ env' = env
  BY <1>6 DEF Handler, Arrive, StartSpan, Admit, Refuse, Return, Finish, main
<1>7. CASE Signal \/ ServeFails \/ UNCHANGED vars
  BY <1>4, <1>7 DEF Signal, ServeFails, vars, main
<1> QED BY <1>2, <1>3, <1>4, <1>5, <1>6, <1>7 DEF Next, Main, Exited

\* What the loaders accept together.
Configured ==
  /\ \A n \in RequiredStrings \cup RequiredNumbers : env[n] # "unset"
  /\ \A n \in RedisOptional \cup RequiredNumbers \cup Flags :
       env[n] \notin {"junk", "negative"}
  /\ \A n \in TLSFiles : env[n] \in {"unset", "good"}
  /\ Cardinality({n \in {"REDIS_TLS_CERT_FILE", "REDIS_TLS_KEY_FILE"} :
                    env[n] = "unset"}) # 1

\* What the four loaders accept is a complete configuration (config.go).
LEMMA LoadersDemand ==
  ASSUME Loads("redis"), Loads("builder"), Loads("config"), Loads("observe")
  PROVE  Configured
<1>1. /\ LoadRedis(env) /\ env["DATABASE_URL"] # "unset"
      /\ LoadReliability(env) /\ LoadGRPC(env) /\ LoadObservability(env)
  BY DEF Loads
<1>2. \A n \in RequiredNumbers : RequiredNumber(env[n])
  BY <1>1 DEF RequiredNumbers, LoadRedis, LoadReliability, LoadGRPC
<1>3. \A n \in RequiredStrings : env[n] # "unset"
  BY <1>1 DEF RequiredStrings, LoadRedis, LoadObservability, RequiredString
<1>4. \A n \in RedisOptional : OptionalNumber(env[n])
  BY <1>1 DEF LoadRedis
<1>5. \A n \in Flags : OptionalBool(env[n])
  BY <1>1 DEF Flags, LoadRedis, LoadTLS
<1>6. \A n \in TLSFiles : env[n] \in {"unset", "good"}
  BY <1>1 DEF LoadRedis, LoadTLS, OptionalFile
<1>7. Cardinality({n \in {"REDIS_TLS_CERT_FILE", "REDIS_TLS_KEY_FILE"} :
                     env[n] = "unset"}) # 1
  <2> DEFINE U == {n \in {"REDIS_TLS_CERT_FILE", "REDIS_TLS_KEY_FILE"} : env[n] = "unset"}
  <2>1. env["REDIS_TLS_CERT_FILE"] = "unset" <=> env["REDIS_TLS_KEY_FILE"] = "unset"
    BY <1>1 DEF LoadRedis, LoadTLS
  <2>2. U = {} \/ U = {"REDIS_TLS_CERT_FILE"} \cup {"REDIS_TLS_KEY_FILE"}
    BY <2>1
  <2>3. /\ IsFiniteSet({"REDIS_TLS_CERT_FILE"})
        /\ Cardinality({"REDIS_TLS_CERT_FILE"}) = 1
    BY FS_Singleton
  <2>4. Cardinality({"REDIS_TLS_CERT_FILE"} \cup {"REDIS_TLS_KEY_FILE"}) = 2
    BY <2>3, FS_AddElement
  <2>5. Cardinality({}) = 0
    BY FS_EmptySet
  <2> QED BY <2>2, <2>4, <2>5
<1> QED
  BY <1>2, <1>3, <1>4, <1>5, <1>6, <1>7
  DEF Configured, RequiredNumber, OptionalNumber, OptionalBool

\* Whatever step of the start-up reads what, the process serves only when all
\* it runs on was there and well-formed (config.go:44-175,
\* reliability_config.go:22-79, main.go:53-103).
THEOREM ServesConfigured == Spec => ServesOnlyConfigured
<1>1. Init => ConfigByPhase
  BY DEF Init, ConfigByPhase, Setup
<1>2. Spec => []ConfigByPhase
  BY <1>1, NextConfig, LifecycleTyped, PTL DEF Spec
<1>3. ConfigByPhase /\ [Next]_vars => (phase # "select" /\ phase' = "select" => Configured)
  <2> SUFFICES ASSUME ConfigByPhase, Next, phase # "select", phase' = "select"
               PROVE  Configured
    BY DEF vars, main
  <2>1. SetupStep
    BY DEF Next, Main, Select, NotServing, ReadInFlight, RecordShutdown,
       StopAccepting, StopObserving, CloseOrders, CloseLocations, Signal, ServeFails,
       Exited, Handler, Arrive, StartSpan, Admit, Refuse, Return, Finish, vars, main
  <2>2. ~SetupFails
    BY DEF SetupFails, AfterFailure
  <2>3. phase = "observe" /\ Loads("observe")
    BY <2>1, <2>2, SetupCases DEF Order
  <2> QED BY <2>3, LoadersDemand DEF ConfigByPhase, Setup
<1>4. ConfigByPhase /\ [Next]_vars
        => [phase # "select" /\ phase' = "select" =>
             /\ \A n \in RequiredStrings \cup RequiredNumbers : env[n] # "unset"
             /\ \A n \in RedisOptional \cup RequiredNumbers \cup Flags :
                  env[n] \notin {"junk", "negative"}
             /\ \A n \in TLSFiles : env[n] \in {"unset", "good"}
             /\ Cardinality({n \in {"REDIS_TLS_CERT_FILE", "REDIS_TLS_KEY_FILE"} :
                               env[n] = "unset"}) # 1]_vars
  BY <1>3 DEF Configured
<1> QED BY <1>2, <1>4, PTL DEF Spec, ServesOnlyConfigured
=============================================================================
