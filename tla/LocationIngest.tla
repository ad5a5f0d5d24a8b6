--------------------------- MODULE LocationIngest ---------------------------
(***************************************************************************)
(* Driver locations: the UpdateLocation streams of internal/adapters/grpc  *)
(* /server.go, each storing what it receives, one location after another,  *)
(* in two stores that share nothing: first a row in Postgres, then a       *)
(* pipeline of Redis commands (internal/ingest/multi_store.go).            *)
(*                                                                         *)
(* Location l is the l-th that any stream received, so numbers follow the  *)
(* time of arrival.  A pipeline is a batch and no transaction: Redis runs  *)
(* its commands one by one among those of others, also behind one that it  *)
(* refuses, and go-redis sends the batch again when the connection fails.  *)
(***************************************************************************)
EXTENDS Naturals, Sequences, FiniteSetsExt

CONSTANTS
  Streams,       \* executions of UpdateLocation
  Drivers,       \* non-empty driver ids
  NaNs,          \* may a coordinate be a NaN: a set of Booleans
  HasTTL,        \* RedisLocationStore.ttl > 0
  MaxRetries,    \* the MaxRetries of the Redis client
  Faults,        \* what may go wrong, a subset of FaultKinds
  MaxLocations   \* bound: locations received in all

\* "history", "pipe": the row, or a batch, errs in the client.  "linger":
\* it may then still run later.  "refuse": Redis answers a command with an
\* error.  "cancel": a client goes away.
FaultKinds == {"history", "pipe", "linger", "refuse", "cancel", "crash"}

ASSUME IngestAssumption ==
  /\ NaNs \subseteq BOOLEAN /\ HasTTL \in BOOLEAN
  /\ MaxRetries \in Nat /\ MaxLocations \in Nat
  /\ Faults \subseteq FaultKinds

VARIABLES
  sent,      \* sent[l]: location l, its stream and driver, and is it a NaN
  pc,        \* pc[s]: where stream s is
  gone,      \* streams whose context has ended
  errs,      \* streams whose current location the history store refused
  reply,     \* reply[s]: what UpdateLocation returned
  next,      \* next[s]: the command of s's batch that Redis runs next
  refused,   \* streams of whose batch Redis has refused a command
  attempt,   \* attempt[s]: batches of the current location that failed
  history,   \* table driver_locations
  latest,    \* the hash of each driver, 0 when there is none
  expiring,  \* drivers whose hash has a time to live
  events,    \* locations with an event, or two, in the Redis stream
  lateRows,  \* rows given up on that may still be inserted
  lateCmds,  \* batches given up on that Redis may still run, from next on
  refusedTTL \* drivers whose hash a late batch could not set to expire

stream == <<pc, errs, reply, next, refused, attempt>>
redis  == <<latest, expiring, events>>
late   == <<lateRows, lateCmds, refusedTTL>>
vars   == <<sent, stream, gone, history, redis, late>>

Locations == 1 .. Len(sent)

SentBy(s) == {l \in Locations : sent[l].stream = s}

\* The location that stream s is storing.
Current(s) == Max(SentBy(s))

-----------------------------------------------------------------------------
(***************************************************************************)
(* The commands of a batch, and how Redis runs one.                        *)
(***************************************************************************)
\* Mutant: the time to live is set before the hash.
CommandsExpireFirst == <<"expire", "hset", "xadd">>

Commands == IF HasTTL THEN <<"hset", "expire", "xadd">> ELSE <<"hset", "xadd">>

Run(cmd, l) ==
  LET d == sent[l].driver IN
  \/ /\ cmd = "hset"
     /\ latest' = [latest EXCEPT ![d] = l]
     /\ UNCHANGED <<expiring, events>>
  \/ /\ cmd = "expire"
     /\ expiring' = IF latest[d] = 0 THEN expiring ELSE expiring \cup {d}
     /\ UNCHANGED <<latest, events>>
  \/ /\ cmd = "xadd"
     /\ events' = events \cup {l}
     /\ UNCHANGED <<latest, expiring>>

-----------------------------------------------------------------------------
Goto(s, l) == pc' = [pc EXCEPT ![s] = l]

\* The context of a stream ends with its handler.
Return(s, r) ==
  /\ Goto(s, "done")
  /\ gone' = gone \cup {s}
  /\ reply' = [reply EXCEPT ![s] = r]

\* Recv returns a location that NewLocation accepts.  Its comparisons
\* accept a NaN coordinate too (location.go:21-27).
Receive(s) ==
  /\ pc[s] = "recv" /\ s \notin gone
  /\ Len(sent) < MaxLocations
  /\ \E d \in Drivers, nan \in NaNs :
       sent' = Append(sent, [stream |-> s, driver |-> d, nan |-> nan])
  /\ Goto(s, "history")
  /\ UNCHANGED <<errs, reply, next, refused, attempt>>
  /\ UNCHANGED <<gone, history, redis, late>>

\* Recv returns something else: an invalid location or timestamp, the end
\* of the stream, or an error: of a context that ended (also while waiting
\* for the ingress limiter), or of a message that cannot be read.
ReceiveOther(s) ==
  /\ pc[s] = "recv"
  /\ \/ s \notin gone /\ Return(s, "invalid")
     \/ s \notin gone /\ Return(s, "ok")
     \/ Return(s, "internal")
  /\ UNCHANGED <<errs, next, refused, attempt, sent, history, redis, late>>

\* PostgresLocationStore.Update.  MultiLocationStore remembers an error and
\* goes on with the next store.
StoreHistory(s) ==
  /\ pc[s] = "history"
  /\ \/ /\ s \notin gone
        /\ history' = history \cup {Current(s)}
        /\ UNCHANGED <<errs, lateRows>>
     \/ /\ s \in gone \/ "history" \in Faults
        /\ errs' = errs \cup {s}
        /\ UNCHANGED <<history, lateRows>>
     \/ /\ s \notin gone /\ "history" \in Faults
        /\ errs' = errs \cup {s}
        /\ history' = history \cup {Current(s)}
        /\ UNCHANGED lateRows
     \/ /\ s \notin gone /\ {"history", "linger"} \subseteq Faults
        /\ errs' = errs \cup {s}
        /\ lateRows' = lateRows \cup {Current(s)}
        /\ UNCHANGED history
  /\ Goto(s, "redis")
  /\ UNCHANGED <<reply, next, refused, attempt>>
  /\ UNCHANGED <<sent, gone, redis, lateCmds, refusedTTL>>

\* What Update kept of the location.
Forget(s) ==
  /\ errs' = errs \ {s}
  /\ next' = [next EXCEPT ![s] = 1]
  /\ refused' = refused \ {s}
  /\ attempt' = [attempt EXCEPT ![s] = 0]

\* Mutant: an error of a store is logged and forgotten.
FinishUnchecked(s, failed) ==
  /\ Goto(s, "recv") /\ UNCHANGED <<reply, gone>>
  /\ Forget(s)

\* Update returns, joining the errors; FanoutPublisher then marshals the
\* location to JSON, which refuses a NaN; on an error the stream ends.
Finish(s, failed) ==
  /\ IF failed \/ s \in errs \/ sent[Current(s)].nan
     THEN Return(s, "internal")
     ELSE Goto(s, "recv") /\ UNCHANGED <<reply, gone>>
  /\ Forget(s)

\* RedisLocationStore.Update looks at the context, then sends its batch.
StartBatch(s) ==
  /\ pc[s] = "redis"
  /\ \/ s \in gone /\ Finish(s, TRUE)
     \/ /\ s \notin gone /\ Goto(s, "batch")
        /\ UNCHANGED <<errs, reply, next, refused, attempt, gone>>
  /\ UNCHANGED <<sent, history, redis, late>>

\* Mutant: a batch that is sent again is the first one of its stream.
RunFirstAgain(s) ==
  /\ pc[s] = "batch" /\ next[s] <= Len(Commands)
  /\ Run(Commands[next[s]], IF attempt[s] = 0 THEN Current(s) ELSE Min(SentBy(s)))
  /\ next' = [next EXCEPT ![s] = @ + 1]
  /\ UNCHANGED <<pc, errs, reply, refused, attempt, sent, gone, history, late>>

RunCommand(s) ==
  /\ pc[s] = "batch" /\ next[s] <= Len(Commands)
  /\ Run(Commands[next[s]], Current(s))
  /\ next' = [next EXCEPT ![s] = @ + 1]
  /\ UNCHANGED <<pc, errs, reply, refused, attempt, sent, gone, history, late>>

\* Redis refuses a command; the next ones of the batch run all the same.
RefuseCommand(s) ==
  /\ pc[s] = "batch" /\ next[s] <= Len(Commands) /\ "refuse" \in Faults
  /\ next' = [next EXCEPT ![s] = @ + 1]
  /\ refused' = refused \cup {s}
  /\ UNCHANGED <<pc, errs, reply, attempt, sent, gone, history, redis, late>>

\* Exec returns nil: every command of the batch has run.
BatchDone(s) ==
  /\ pc[s] = "batch" /\ next[s] > Len(Commands) /\ s \notin refused
  /\ Finish(s, FALSE)
  /\ UNCHANGED <<sent, history, redis, late>>

\* Mutant: one retry too many.
RetryOnceMore(s) == attempt[s] <= MaxRetries /\ s \notin gone

MayRetry(s) == attempt[s] < MaxRetries /\ s \notin gone

\* go-redis sends the whole batch again.
SendAgain(s) ==
  /\ MayRetry(s)
  /\ next' = [next EXCEPT ![s] = 1]
  /\ refused' = refused \ {s}
  /\ attempt' = [attempt EXCEPT ![s] = @ + 1]
  /\ UNCHANGED <<pc, errs, reply, gone>>

\* Exec returns the error of a command that Redis refused; some refusals,
\* a server that is loading its data or read-only, are tried again.
BatchRefused(s) ==
  /\ pc[s] = "batch" /\ next[s] > Len(Commands) /\ s \in refused
  /\ SendAgain(s) \/ Finish(s, TRUE)
  /\ UNCHANGED <<sent, history, redis, late>>

\* The rest of s's batch.
Rest(s) == [loc |-> Current(s), attempt |-> attempt[s], next |-> next[s]]

\* The connection fails, whatever Redis has run of the batch.  go-redis
\* sends the whole batch again, or gives up.
BatchErrs(s) ==
  /\ pc[s] = "batch" /\ "pipe" \in Faults
  /\ \/ UNCHANGED lateCmds
     \/ /\ "linger" \in Faults /\ next[s] <= Len(Commands)
        /\ lateCmds' = lateCmds \cup {Rest(s)}
  /\ \/ SendAgain(s)
     \/ ~MayRetry(s) /\ Finish(s, TRUE)
  /\ UNCHANGED <<sent, history, redis, lateRows, refusedTTL>>

Ingest(s) ==
  \/ StoreHistory(s) \/ StartBatch(s)
  \/ RunCommand(s) \/ RefuseCommand(s)
  \/ BatchDone(s) \/ BatchRefused(s) \/ BatchErrs(s)

-----------------------------------------------------------------------------
InsertLateRow(l) ==
  /\ l \in lateRows
  /\ history' = history \cup {l}
  /\ lateRows' = lateRows \ {l}
  /\ UNCHANGED <<sent, stream, gone, redis, lateCmds, refusedTTL>>

\* Nobody hears of a command that Redis refuses now.
RunLateCommand(b) ==
  /\ b \in lateCmds
  /\ \/ /\ Run(Commands[b.next], b.loc)
        /\ UNCHANGED refusedTTL
     \/ /\ "refuse" \in Faults
        /\ refusedTTL' = refusedTTL \cup
             (IF Commands[b.next] = "expire" THEN {sent[b.loc].driver} ELSE {})
        /\ UNCHANGED redis
  /\ lateCmds' = (lateCmds \ {b}) \cup
       (IF b.next < Len(Commands) THEN {[b EXCEPT !.next = @ + 1]} ELSE {})
  /\ UNCHANGED <<sent, stream, gone, history, lateRows>>

\* The time to live of a hash passes.
Expire(d) ==
  /\ d \in expiring
  /\ latest' = [latest EXCEPT ![d] = 0]
  /\ expiring' = expiring \ {d}
  /\ refusedTTL' = refusedTTL \ {d}
  /\ UNCHANGED <<sent, stream, gone, history, events, lateRows, lateCmds>>

Cancel(s) ==
  /\ "cancel" \in Faults
  /\ s \notin gone
  /\ gone' = gone \cup {s}
  /\ UNCHANGED <<sent, stream, history, redis, late>>

\* All contexts end with the process, and what Update kept is lost.
Crash ==
  /\ "crash" \in Faults
  /\ \E s \in Streams : pc[s] \notin {"done", "dead"}
  /\ pc' = [s \in Streams |-> IF pc[s] = "done" THEN "done" ELSE "dead"]
  /\ gone' = Streams
  /\ errs' = {} /\ refused' = {}
  /\ next' = [s \in Streams |-> 1]
  /\ attempt' = [s \in Streams |-> 0]
  /\ UNCHANGED <<sent, reply, history, redis, late>>

\* Every stream has ended: nothing has to happen any more.
Finished ==
  /\ \A s \in Streams : pc[s] \in {"done", "dead"}
  /\ UNCHANGED vars

Init ==
  /\ sent = <<>>
  /\ pc = [s \in Streams |-> "recv"]
  /\ gone = {} /\ errs = {} /\ refused = {}
  /\ reply = [s \in Streams |-> "none"]
  /\ next = [s \in Streams |-> 1]
  /\ attempt = [s \in Streams |-> 0]
  /\ history = {}
  /\ latest = [d \in Drivers |-> 0]
  /\ expiring = {}
  /\ events = {}
  /\ lateRows = {} /\ lateCmds = {} /\ refusedTTL = {}

Next ==
  \/ \E s \in Streams : Receive(s) \/ ReceiveOther(s) \/ Ingest(s) \/ Cancel(s)
  \/ \E l \in Locations : InsertLateRow(l)
  \/ \E b \in lateCmds : RunLateCommand(b)
  \/ \E d \in Drivers : Expire(d)
  \/ Crash
  \/ Finished

Spec == Init /\ [][Next]_vars

-----------------------------------------------------------------------------
TypeOK ==
  /\ sent \in Seq([stream : Streams, driver : Drivers, nan : BOOLEAN])
  /\ pc \in [Streams -> {"recv", "history", "redis", "batch", "done", "dead"}]
  /\ gone \subseteq Streams
  /\ errs \subseteq Streams /\ refused \subseteq Streams
  /\ reply \in [Streams -> {"none", "ok", "invalid", "internal"}]
  /\ next \in [Streams -> 1 .. Len(Commands) + 1]
  /\ attempt \in [Streams -> 0 .. MaxRetries]
  /\ history \subseteq Locations
  /\ latest \in [Drivers -> 0 .. Len(sent)]
  /\ expiring \subseteq {d \in Drivers : latest[d] # 0}
  /\ events \subseteq Locations
  /\ lateRows \subseteq Locations
  /\ lateCmds \subseteq [loc : Locations, attempt : 0 .. MaxRetries,
                         next : 1 .. Len(Commands)]
  /\ refusedTTL \subseteq Drivers

Stored(l) == l \in history /\ l \in events

\* A stream that is acknowledged has all its locations in both stores,
\* whatever was sent again or lingered, and none of them is a NaN
\* (server.go:36-60, multi_store.go:19-27, fanout_publisher.go:45-48).
AckMeansStored ==
  \A s \in Streams : reply[s] = "ok" =>
    \A l \in SentBy(s) : Stored(l) /\ ~sent[l].nan

\* The stores of one stream differ in its last location at most: nothing is
\* stored, in either, after a location that one of them lacks.
NoGaps ==
  \A l, m \in Locations :
    /\ l < m /\ sent[l].stream = sent[m].stream
    /\ m \in history \cup events
    => Stored(l)

\* Only a batch that was given up on can take a driver's hash back from one
\* location of a stream to an earlier one of the same stream; a batch that
\* is sent again cannot (redis_store.go:55-81).
LatestMovesForward ==
  [][\A d \in Drivers :
       latest[d] # 0 /\ latest'[d] # 0
         => \/ latest[d] <= latest'[d]
            \/ sent[latest[d]].stream # sent[latest'[d]].stream
            \/ \E b \in lateCmds \ lateCmds' : b.loc = latest'[d]]_vars

\* With a time to live set, a hash that would never expire is one that a
\* batch is still working on, or the remains of a batch that failed or of a
\* process that died (redis_store.go:56-64); or Redis refused the EXPIRE of
\* a late batch.
StaleHashesExpire ==
  HasTTL => \A d \in Drivers : latest[d] # 0 /\ d \notin expiring =>
    \/ \E s \in Streams : /\ \E l \in SentBy(s) : sent[l].driver = d
                          /\ pc[s] \in {"batch", "dead"} \/ reply[s] = "internal"
    \/ \E b \in lateCmds : sent[b.loc].driver = d
    \/ d \in refusedTTL

\* "stores latest locations in Redis" (redis_store.go:9): once nothing is
\* being stored, a driver's hash is the newest location stored for it.
LatestIsNewest ==
  (\A s \in Streams : pc[s] \in {"recv", "done"}) =>
    \A d \in Drivers, l \in events :
      sent[l].driver = d /\ latest[d] # 0 => l <= latest[d]

=============================================================================
