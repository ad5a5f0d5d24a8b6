-------------------------- MODULE ServerLifecycle --------------------------
(***************************************************************************)
(* The server process of cmd/server: run opens the stores one after        *)
(* another, serves, and on a signal stops gracefully; deferred functions   *)
(* close the stores again.  Meanwhile the interceptors of                  *)
(* grpc_middleware.go count the calls that handlers work on.               *)
(***************************************************************************)
EXTENDS Metrics, Config, FiniteSets, Sequences

CONSTANTS
  Unary,         \* CreateOrder calls
  Streams,       \* UpdateLocation calls
  Untracked,     \* those of the reflection service, which are not counted
  SetupMayFail,  \* may a step of the start-up err
  ServeMayFail,  \* may Serve return an error
  Environments,  \* the environments the process may be started in
  Forgotten      \* no environment

Calls == Unary \cup Streams

ASSUME LifecycleAssumption ==
  /\ IsFiniteSet(Calls) /\ Unary \cap Streams = {}
  /\ Untracked \subseteq Calls
  /\ SetupMayFail \in BOOLEAN /\ ServeMayFail \in BOOLEAN
  /\ Environments \subseteq Environment /\ Forgotten \notin Environments

VARIABLES
  env,        \* the environment, Forgotten when run has read all of it
  phase,      \* what run does next
  open,       \* what is open
  signalled,  \* the context of main is done
  serveErr,   \* errCh holds the error of Serve
  accepting,  \* Serve starts handlers for new calls
  serving,    \* the health service reports SERVING
  seen,       \* the InFlight that run read from Snapshot
  call,       \* call[c]: where the handler of call c is
  failed      \* calls whose handler returned an error

main == <<env, phase, open, signalled, serveErr, accepting, serving, seen>>
vars == <<main, call, failed, metrics>>

-----------------------------------------------------------------------------
(***************************************************************************)
(* Start-up.  Each step may open something; one that fails closes what its *)
(* builder has opened so far, then the deferred functions run.             *)
(***************************************************************************)
SetupSteps ==
  <<"redis", "ping", "history", "schema",  \* buildLocationStore
    "orders", "builder",                   \* BuildOrderService
    "listen", "config", "observe">>        \* run

Opens(p) == {p} \cap {"redis", "history", "orders", "listen", "observe"}

\* Mutant: a builder that fails closes nothing.
UndoNothing(p) == {}

Undo(p) ==
  CASE p \in {"ping", "history", "schema"} -> {"redis", "history"}
    [] p = "builder"                       -> {"orders"}
    [] OTHER                               -> {}

AfterFailure(p) ==
  CASE p \in {"redis", "ping", "history", "schema"} -> "exited"
    [] p \in {"orders", "builder"}                  -> "closeLocations"
    [] OTHER                                        -> "closeOrders"

\* What step p wants of the environment.  A data source name is parsed when
\* the first connection is opened, by the schema.
Loads(p) ==
  CASE p = "redis"   -> /\ LoadRedis(env) /\ env["REDIS_URL"] = "good"
                        /\ env["DATABASE_URL"] # "unset"
    [] p = "schema"  -> env["DATABASE_URL"] = "good"
    [] p = "builder" -> LoadReliability(env)
    [] p = "config"  -> LoadGRPC(env)
    [] p = "observe" -> LoadObservability(env)
    [] OTHER         -> TRUE

\* The steps that use the context of main, which a signal ends.
UsesContext == {"ping", "schema", "builder"}

SetupSucceeds(i) ==
  /\ Loads(phase)
  /\ phase \in UsesContext => ~signalled
  /\ open' = open \cup Opens(phase)
  /\ phase' = IF i = Len(SetupSteps) THEN "select" ELSE SetupSteps[i + 1]
  /\ env' = IF phase' = "select" THEN Forgotten ELSE env

SetupFails ==
  /\ \/ SetupMayFail
     \/ ~Loads(phase)
     \/ phase \in UsesContext /\ signalled
  /\ open' = open \ Undo(phase)
  /\ phase' = AfterFailure(phase)
  /\ UNCHANGED env

SetupStep ==
  /\ \E i \in DOMAIN SetupSteps :
       phase = SetupSteps[i] /\ (SetupSucceeds(i) \/ SetupFails)
  /\ accepting' = (phase' = "select")
  /\ serving' = (phase' = "select")
  /\ UNCHANGED <<signalled, serveErr, seen, call, failed, metrics>>

\* SIGINT or SIGTERM.
Signal ==
  /\ ~signalled
  /\ signalled' = TRUE
  /\ UNCHANGED <<env, phase, open, serveErr, accepting, serving, seen, call, failed, metrics>>

\* Accept fails for good: Serve closes the listener and returns.  Handlers
\* it started keep running.
ServeFails ==
  /\ ServeMayFail /\ accepting
  /\ accepting' = FALSE /\ serveErr' = TRUE
  /\ open' = open \ {"listen"}
  /\ UNCHANGED <<env, phase, signalled, serving, seen, call, failed, metrics>>

\* Mutant: the signal is not waited for.
SelectErrorOnly ==
  /\ phase = "select"
  /\ serveErr /\ phase' = "closeOrders"
  /\ UNCHANGED <<env, open, signalled, serveErr, accepting, serving, seen, call, failed, metrics>>

\* The select statement: with both ready, either case.
Select ==
  /\ phase = "select"
  /\ \/ signalled /\ phase' = "notServing"
     \/ serveErr /\ phase' = "closeOrders"
  /\ UNCHANGED <<env, open, signalled, serveErr, accepting, serving, seen, call, failed, metrics>>

NotServing ==
  /\ phase = "notServing"
  /\ serving' = FALSE
  /\ phase' = "snapshot"
  /\ UNCHANGED <<env, open, signalled, serveErr, accepting, seen, call, failed, metrics>>

\* MarkShutdown(Snapshot().InFlight) locks twice.
ReadInFlight ==
  /\ phase = "snapshot"
  /\ seen' = inFlight
  /\ phase' = "mark"
  /\ UNCHANGED <<env, open, signalled, serveErr, accepting, serving, call, failed, metrics>>

RecordShutdown ==
  /\ phase = "mark"
  /\ MarkShutdown(seen)
  /\ phase' = "stop"
  /\ UNCHANGED <<env, open, signalled, serveErr, accepting, serving, seen, call, failed>>

\* Mutant: new calls are still accepted.
StopKeepsAccepting ==
  /\ phase = "stop"
  /\ phase' = "drain"
  /\ UNCHANGED <<env, open, accepting, signalled, serveErr, serving, seen, call, failed, metrics>>

\* GracefulStop refuses new calls, then waits for the handlers.
StopAccepting ==
  /\ phase = "stop"
  /\ accepting' = FALSE
  /\ open' = open \ {"listen"}
  /\ phase' = "drain"
  /\ UNCHANGED <<env, signalled, serveErr, serving, seen, call, failed, metrics>>

Idle(c) == call[c] \in {"none", "done"}

\* Mutant: Stop instead of GracefulStop, waiting for nobody.
DrainedAtOnce == TRUE

Drained == \A c \in Calls : Idle(c)

StopObserving ==
  /\ phase = "drain" /\ Drained
  /\ open' = open \ {"observe"}
  /\ phase' = "closeOrders"
  /\ UNCHANGED <<env, signalled, serveErr, accepting, serving, seen, call, failed, metrics>>

\* The deferred functions, last in first out.
CloseOrders ==
  /\ phase = "closeOrders"
  /\ open' = open \ {"orders"}
  /\ phase' = "closeLocations"
  /\ UNCHANGED <<env, signalled, serveErr, accepting, serving, seen, call, failed, metrics>>

CloseLocations ==
  /\ phase = "closeLocations"
  /\ open' = open \ {"redis", "history"}
  /\ phase' = "exited"
  /\ UNCHANGED <<env, signalled, serveErr, accepting, serving, seen, call, failed, metrics>>

Main ==
  \/ SetupStep \/ Select \/ NotServing \/ ReadInFlight \/ RecordShutdown
  \/ StopAccepting \/ StopObserving \/ CloseOrders \/ CloseLocations

-----------------------------------------------------------------------------
(***************************************************************************)
(* The handlers, behind the interceptors.  main's return ends them all.    *)
(***************************************************************************)
Move(c, from, to) ==
  /\ phase # "exited"
  /\ call[c] = from
  /\ call' = [call EXCEPT ![c] = to]

\* The server starts a handler goroutine.
Arrive(c) ==
  /\ accepting
  /\ Move(c, "none", "arrived")
  /\ UNCHANGED <<main, failed, metrics>>

\* The interceptor opens a span.  A unary call waits for the limiter next;
\* a stream waits for it in each RecvMsg.
StartSpan(c) ==
  /\ Move(c, "arrived", IF c \in Unary THEN "limited" ELSE "working")
  /\ IF c \in Untracked THEN UNCHANGED metrics ELSE Start
  /\ UNCHANGED <<main, failed>>

Admit(c) ==
  /\ Move(c, "limited", "working")
  /\ UNCHANGED <<main, failed, metrics>>

EndSpan(c, err) == IF c \in Untracked THEN UNCHANGED metrics ELSE End(err)

\* Mutants: a call the limiter refuses goes on; or leaves its span open.
RefuseGoesOn(c) ==
  /\ Move(c, "limited", "working")
  /\ failed' = failed \cup {c}
  /\ EndSpan(c, TRUE)
  /\ UNCHANGED main

RefuseNoEnd(c) ==
  /\ Move(c, "limited", "done")
  /\ failed' = failed \cup {c}
  /\ UNCHANGED <<main, metrics>>

\* The caller's context ends while it waits for the limiter.
Refuse(c) ==
  /\ Move(c, "limited", "done")
  /\ failed' = failed \cup {c}
  /\ EndSpan(c, TRUE)
  /\ UNCHANGED main

\* The handler returns: a unary call when it is done, a stream when its
\* client ends it or something goes wrong.
Return(c) ==
  /\ Move(c, "working", "returned")
  /\ \/ /\ c \in Unary => "orders" \in open
        /\ UNCHANGED failed
     \/ failed' = failed \cup {c}
  /\ UNCHANGED <<main, metrics>>

Finish(c) ==
  /\ Move(c, "returned", "done")
  /\ EndSpan(c, c \in failed)
  /\ UNCHANGED <<main, failed>>

Handler(c) ==
  Arrive(c) \/ StartSpan(c) \/ Admit(c) \/ Refuse(c) \/ Return(c) \/ Finish(c)

\* The process is gone.
Exited == phase = "exited" /\ UNCHANGED vars

Init ==
  /\ env \in Environments
  /\ phase = "redis" /\ open = {}
  /\ signalled = FALSE /\ serveErr = FALSE
  /\ accepting = FALSE /\ serving = FALSE
  /\ seen = 0
  /\ call = [c \in Calls |-> "none"]
  /\ failed = {}
  /\ InitMetrics

Next == Main \/ Signal \/ ServeFails \/ Exited \/ \E c \in Calls : Handler(c)

Spec == Init /\ [][Next]_vars

\* run and the handlers keep going, and the stores and the limiter answer;
\* a stream ends only when its client likes.
FairSpec ==
  /\ Spec
  /\ WF_vars(Main)
  /\ \A c \in Calls : WF_vars(StartSpan(c)) /\ WF_vars(Admit(c)) /\ WF_vars(Finish(c))
  /\ \A c \in Unary : WF_vars(Return(c))

-----------------------------------------------------------------------------
Phases ==
  {SetupSteps[i] : i \in DOMAIN SetupSteps} \cup
  {"select", "notServing", "snapshot", "mark", "stop", "drain",
   "closeOrders", "closeLocations", "exited"}

Stores == {"redis", "history", "orders"}

TypeOK ==
  /\ env = Forgotten \/ env \in Environment
  /\ phase \in Phases
  /\ open \subseteq Stores \cup {"listen", "observe"}
  /\ {signalled, serveErr, accepting, serving} \subseteq BOOLEAN
  /\ seen \in 0 .. Cardinality(Calls)
  /\ call \in [Calls -> {"none", "arrived", "limited", "working", "returned", "done"}]
  /\ failed \subseteq Calls
  /\ inFlight \in 0 .. Cardinality(Calls)
  /\ count \in 0 .. Cardinality(Calls)
  /\ errors \in 0 .. count
  /\ mark \in -1 .. Cardinality(Calls)

\* The counters agree with the handlers at every moment: a span that was
\* opened is in flight until it is counted, on every path of the
\* interceptors, and errors are those of the calls that failed
\* (grpc_middleware.go:32-80, metrics.go:69-90, 155-172).
MetricsAgree ==
  LET Tracked(states) == {c \in Calls \ Untracked : call[c] \in states} IN
  /\ inFlight = Cardinality(Tracked({"limited", "working", "returned"}))
  /\ count = Cardinality(Tracked({"done"}))
  /\ errors = Cardinality(Tracked({"done"}) \cap failed)

\* Once run has returned its stores are closed, wherever it failed
\* (location_store.go:62-95, builder.go:32-53, main.go:57, 68).
StoresReleased == phase = "exited" => open \cap Stores = {}

\* A process that stops on a signal answers every call it accepted, those
\* that came after the shutdown was recorded included (main.go:112-119).
SignalLeavesNoCall ==
  mark # -1 /\ phase \in {"closeOrders", "closeLocations", "exited"} =>
    \A c \in Calls : Idle(c)

\* Unless Serve fails, a handler that works has its stores open, whenever
\* the signal comes (main.go:119-128).
WorkHasStores ==
  ~serveErr => \A c \in Calls :
    call[c] = "working" /\ phase # "exited" => Stores \subseteq open

\* Whatever step of the start-up reads what, the process serves only when
\* no number it runs on is missing, malformed or negative, and when Redis is
\* either asked for without TLS or with all of the TLS that is asked for
\* (config.go:44-175, reliability_config.go:22-79, main.go:53-103).
ServesOnlyConfigured ==
  [][phase # "select" /\ phase' = "select" =>
       /\ \A n \in RequiredStrings \cup RequiredNumbers : env[n] # "unset"
       /\ \A n \in RedisOptional \cup RequiredNumbers \cup Flags :
            env[n] \notin {"junk", "negative"}
       /\ \A n \in TLSFiles : env[n] \in {"unset", "good"}
       /\ Cardinality({n \in {"REDIS_TLS_CERT_FILE", "REDIS_TLS_KEY_FILE"} :
                         env[n] = "unset"}) # 1]_vars

\* A signal leads to the end of the process, whenever it comes, or to a wait
\* for a stream that its client keeps open: nothing else holds up the stop
\* (main.go:110-128).
ShutdownCompletes ==
  signalled ~>
    \/ phase = "exited"
    \/ phase = "drain" /\ \E c \in Streams : call[c] = "working"
=============================================================================
