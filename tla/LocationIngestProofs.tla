------------------------ MODULE LocationIngestProofs ------------------------
(***************************************************************************)
(* Theorems about LocationIngest, for any number of streams, drivers,      *)
(* locations and retries, and whatever may fail: what is acknowledged is   *)
(* stored, nothing is stored behind a gap, and what may take a hash back   *)
(* or leave it for good is named.                                          *)
(***************************************************************************)
EXTENDS LocationIngest, SequenceTheorems, TLAPS

(***************************************************************************)
(* Batches.                                                                *)
(***************************************************************************)
\* A batch sets the hash first, its time to live next if there is one, and
\* ends with the event.
LEMMA CommandFacts ==
  /\ Len(Commands) \in Nat /\ Len(Commands) >= 2
  /\ \A i \in 1 .. Len(Commands) : Commands[i] \in {"hset", "expire", "xadd"}
  /\ Commands[1] = "hset" /\ Commands[Len(Commands)] = "xadd"
  /\ HasTTL => Len(Commands) = 3 /\ Commands[2] = "expire"
  BY IngestAssumption DEF Commands

(***************************************************************************)
(* What a stream has sent.                                                 *)
(***************************************************************************)
\* Everything but a Receive leaves alone what was sent, and all that is
\* computed from it.
LEMMA SentStays ==
  ASSUME UNCHANGED sent
  PROVE  /\ Locations' = Locations
         /\ \A s : SentBy(s)' = SentBy(s)
         /\ \A s : Current(s)' = Current(s)
  BY DEF Locations, SentBy, Current

Location == [stream : Streams, driver : Drivers, nan : BOOLEAN]

\* A location that is received is the newest of its stream; no other changes.
LEMMA SentGrows ==
  ASSUME NEW r \in Location, sent \in Seq(Location), sent' = Append(sent, r)
  PROVE  /\ sent' \in Seq(Location)
         /\ Len(sent) \in Nat /\ Len(sent') = Len(sent) + 1
         /\ Locations \subseteq Locations'
         /\ \A l \in Locations : sent'[l] = sent[l]
         /\ SentBy(r.stream)' = SentBy(r.stream) \cup {Len(sent')}
         /\ \A s : s # r.stream => SentBy(s)' = SentBy(s) /\ Current(s)' = Current(s)
         /\ Current(r.stream)' = Len(sent')
<1>1. /\ sent' \in Seq(Location)
      /\ Len(sent) \in Nat /\ Len(sent') = Len(sent) + 1
      /\ \A l \in 1 .. Len(sent) : sent'[l] = sent[l]
      /\ sent'[Len(sent) + 1] = r
  OBVIOUS
<1>2. Locations \subseteq Locations' /\ Locations' = Locations \cup {Len(sent')}
  BY <1>1 DEF Locations
<1>3. SentBy(r.stream)' = SentBy(r.stream) \cup {Len(sent')}
  BY <1>1, <1>2 DEF SentBy, Locations
<1>4. \A s : s # r.stream => SentBy(s)' = SentBy(s)
  BY <1>1, <1>2 DEF SentBy, Locations
<1>5. \A s : s # r.stream => Current(s)' = Current(s)
  BY <1>4 DEF Current
<1>6. /\ Len(sent') \in SentBy(r.stream)'
      /\ \A m \in SentBy(r.stream)' : m \in Nat /\ Len(sent') >= m
  BY <1>1, <1>3 DEF SentBy, Locations
<1>7. \A n \in SentBy(r.stream)' :
        (\A m \in SentBy(r.stream)' : n >= m) => n = Len(sent')
  BY <1>1, <1>6
<1>8. Current(r.stream)' = Len(sent')
  BY <1>6, <1>7 DEF Current, Max
<1> QED BY <1>1, <1>2, <1>3, <1>4, <1>5, <1>8 DEF Locations

-----------------------------------------------------------------------------
(***************************************************************************)
(* The inductive invariant.                                                *)
(***************************************************************************)
Busy(s) == pc[s] \in {"history", "redis", "batch"}

IsNewest(s, l) == l \in SentBy(s) /\ \A m \in SentBy(s) : m <= l

\* A stream that stores a location stores the last one it received.
StoresNewest(s) == Busy(s) => IsNewest(s, Current(s))

\* Only a stream that is over has an answer.
EndIsAnswered(s) == reply[s] # "none" => pc[s] = "done"

\* What is known to be stored when the stores have answered so far.
BatchProgress(s) ==
  /\ pc[s] \in {"recv", "history", "redis"} => next[s] = 1
  /\ pc[s] \in {"redis", "batch"} /\ s \notin errs => Current(s) \in history
  /\ pc[s] = "batch" /\ next[s] > Len(Commands) /\ s \notin refused
       => Current(s) \in events

\* A stream that died or was told of an error.
Failed(s) == pc[s] = "dead" \/ reply[s] = "internal"

\* A location of a stream that goes on, or that ended well, is in both
\* stores; but for the last one, as long as it is being stored and when the
\* stream failed.
PastIsStored(s) ==
  \A l \in SentBy(s) : \/ Stored(l) /\ ~sent[l].nan
                       \/ IsNewest(s, l) /\ (Busy(s) \/ Failed(s))

StreamInv(s) ==
  StoresNewest(s) /\ EndIsAnswered(s) /\ BatchProgress(s) /\ PastIsStored(s)

IngestInv == \A s \in Streams : StreamInv(s)

\* Nothing has been sent at first.
LEMMA InitIngest == Init => TypeOK /\ IngestInv
<1> SUFFICES ASSUME Init PROVE TypeOK /\ IngestInv
  OBVIOUS
<1>1. Locations = {} /\ \A s : SentBy(s) = {}
  BY DEF Init, Locations, SentBy
<1>2. 1 \in 1 .. Len(Commands) + 1 /\ 0 \in 0 .. MaxRetries
  BY CommandFacts, IngestAssumption
<1>3. TypeOK
  BY <1>1, <1>2, CommandFacts DEF Init, TypeOK
<1>4. IngestInv
  BY <1>1, <1>2 DEF Init, IngestInv, StreamInv, StoresNewest, EndIsAnswered,
     BatchProgress, PastIsStored, Busy
<1> QED BY <1>3, <1>4

-----------------------------------------------------------------------------
(***************************************************************************)
(* Types.                                                                  *)
(***************************************************************************)
\* A command keeps the types of the three tables in Redis.
LEMMA RunType ==
  ASSUME TypeOK, NEW cmd, NEW l \in Locations, Run(cmd, l)
  PROVE  /\ latest' \in [Drivers -> 0 .. Len(sent)]
         /\ expiring' \subseteq {d \in Drivers : latest'[d] # 0}
         /\ events' \subseteq Locations
         /\ events \subseteq events'
         /\ cmd = "xadd" => l \in events'
<1>1. sent \in Seq(Location) /\ Len(sent) \in Nat
  BY DEF TypeOK, Location
<1>2. sent[l] \in Location
  BY <1>1, ElementOfSeq DEF Locations
<1>3. sent[l].driver \in Drivers /\ l \in 0 .. Len(sent) /\ l # 0
  BY <1>1, <1>2 DEF Locations, Location
<1>t. /\ latest \in [Drivers -> 0 .. Len(sent)]
      /\ expiring \subseteq {d \in Drivers : latest[d] # 0}
      /\ events \subseteq Locations
  BY DEF TypeOK
<1>4. CASE cmd = "hset"
  <2>1. /\ latest' = [latest EXCEPT ![sent[l].driver] = l]
        /\ UNCHANGED <<expiring, events>>
    BY <1>4 DEF Run
  <2> QED BY <1>3, <1>4, <1>t, <2>1
<1>5. CASE cmd = "expire"
  BY <1>3, <1>5 DEF Run, TypeOK
<1>6. CASE cmd = "xadd"
  BY <1>6, <1>t DEF Run
<1> QED BY <1>4, <1>5, <1>6 DEF Run

\* What a stream that is done with a location sets keeps its type.
LEMMA FinishType ==
  ASSUME TypeOK, NEW s \in Streams, NEW failed, Finish(s, failed)
  PROVE  /\ pc' \in [Streams -> {"recv", "history", "redis", "batch", "done", "dead"}]
         /\ reply' \in [Streams -> {"none", "ok", "invalid", "internal"}]
         /\ gone' \subseteq Streams
         /\ errs' \subseteq Streams /\ refused' \subseteq Streams
         /\ next' \in [Streams -> 1 .. Len(Commands) + 1]
         /\ attempt' \in [Streams -> 0 .. MaxRetries]
<1>1. 1 \in 1 .. Len(Commands) + 1 /\ 0 \in 0 .. MaxRetries
  BY CommandFacts, IngestAssumption
<1> QED BY <1>1 DEF Finish, Forget, Return, Goto, TypeOK

\* So does what a batch that is sent again sets.
LEMMA SendAgainType ==
  ASSUME TypeOK, NEW s \in Streams, SendAgain(s)
  PROVE  /\ refused' \subseteq Streams
         /\ next' \in [Streams -> 1 .. Len(Commands) + 1]
         /\ attempt' \in [Streams -> 0 .. MaxRetries]
         /\ UNCHANGED <<pc, errs, reply, gone>>
<1>1. attempt[s] + 1 \in 0 .. MaxRetries /\ 1 \in 1 .. Len(Commands) + 1
  BY IngestAssumption, CommandFacts DEF SendAgain, MayRetry, TypeOK
<1> QED BY <1>1 DEF SendAgain, TypeOK

\* Every step keeps the types; a stream only stores a location that was sent.
LEMMA NextType == TypeOK /\ IngestInv /\ [Next]_vars => TypeOK'
<1> SUFFICES ASSUME TypeOK, IngestInv, [Next]_vars PROVE TypeOK'
  OBVIOUS
<1> USE DEF TypeOK
<1>0. \A s \in Streams : Busy(s) => Current(s) \in Locations
  BY DEF IngestInv, StreamInv, StoresNewest, IsNewest, SentBy
<1>1. ASSUME NEW s \in Streams, Receive(s) PROVE TypeOK'
  <2>1. PICK d \in Drivers, nan \in NaNs :
          sent' = Append(sent, [stream |-> s, driver |-> d, nan |-> nan])
    BY <1>1 DEF Receive
  <2>2. [stream |-> s, driver |-> d, nan |-> nan] \in Location
    BY IngestAssumption DEF Location
  <2>3. /\ sent' \in Seq(Location)
        /\ Len(sent) \in Nat /\ Len(sent') = Len(sent) + 1
        /\ Locations \subseteq Locations'
    BY <2>1, <2>2, SentGrows DEF Location
  <2>4. latest \in [Drivers -> 0 .. Len(sent')]
    BY <2>3
  <2> QED BY <1>1, <2>3, <2>4 DEF Receive, Goto, Location, redis, late
<1>2. ASSUME NEW s \in Streams, ReceiveOther(s) PROVE TypeOK'
  BY <1>2, SentStays DEF ReceiveOther, Return, Goto, redis, late
<1>3. ASSUME NEW s \in Streams, StoreHistory(s) PROVE TypeOK'
  BY <1>0, <1>3, SentStays DEF StoreHistory, Busy, Goto, redis
<1>4. ASSUME NEW s \in Streams, StartBatch(s) PROVE TypeOK'
  <2>1. CASE Finish(s, TRUE)
    BY <1>4, <2>1, FinishType, SentStays DEF StartBatch, redis, late
  <2>2. CASE Goto(s, "batch") /\ UNCHANGED <<errs, reply, next, refused, attempt, gone>>
    BY <1>4, <2>2, SentStays DEF StartBatch, redis, late, Goto
  <2> QED BY <1>4, <2>1, <2>2 DEF StartBatch
<1>5. ASSUME NEW s \in Streams, RunCommand(s) PROVE TypeOK'
  <2>1. next[s] + 1 \in 1 .. Len(Commands) + 1
    BY <1>5, CommandFacts DEF RunCommand
  <2> QED BY <1>0, <1>5, <2>1, RunType, SentStays DEF RunCommand, Busy, late
<1>6. ASSUME NEW s \in Streams, BatchDone(s) PROVE TypeOK'
  BY <1>6, FinishType, SentStays DEF BatchDone, redis, late
<1>7. ASSUME NEW s \in Streams, BatchErrs(s) PROVE TypeOK'
  <2>1. next[s] <= Len(Commands) =>
          Rest(s) \in [loc : Locations, attempt : 0 .. MaxRetries, next : 1 .. Len(Commands)]
    BY <1>0, <1>7, CommandFacts DEF BatchErrs, Rest, Busy
  <2>2. lateCmds' \subseteq [loc : Locations', attempt : 0 .. MaxRetries,
                             next : 1 .. Len(Commands)]
    BY <1>7, <2>1, SentStays DEF BatchErrs
  <2>3. CASE Finish(s, TRUE)
    BY <1>7, <2>2, <2>3, FinishType, SentStays DEF BatchErrs, redis
  <2>4. CASE SendAgain(s)
    BY <1>7, <2>2, <2>4, SendAgainType, SentStays DEF BatchErrs, redis
  <2> QED BY <1>7, <2>3, <2>4 DEF BatchErrs
<1>8. ASSUME NEW s \in Streams, Cancel(s) PROVE TypeOK'
  BY <1>8, SentStays DEF Cancel, stream, redis, late
<1>9. ASSUME NEW l \in Locations, InsertLateRow(l) PROVE TypeOK'
  BY <1>9, SentStays DEF InsertLateRow, stream, redis
<1>10. ASSUME NEW b \in lateCmds, RunLateCommand(b) PROVE TypeOK'
  <2>1. b.next < Len(Commands) =>
          [b EXCEPT !.next = @ + 1] \in [loc : Locations, attempt : 0 .. MaxRetries,
                                         next : 1 .. Len(Commands)]
    <3>1. PICK l \in Locations, a \in 0 .. MaxRetries, n \in 1 .. Len(Commands) :
            b = [loc |-> l, attempt |-> a, next |-> n]
      OBVIOUS
    <3>2. n < Len(Commands) => n + 1 \in 1 .. Len(Commands)
      BY CommandFacts
    <3> QED BY <3>1, <3>2
  <2>2. lateCmds' \subseteq [loc : Locations', attempt : 0 .. MaxRetries,
                             next : 1 .. Len(Commands)]
    BY <1>10, <2>1, SentStays DEF RunLateCommand
  <2>3. sent[b.loc].driver \in Drivers
    <3>1. sent \in Seq(Location) /\ b.loc \in Locations
      BY DEF Location
    <3>2. sent[b.loc] \in Location
      BY <3>1, ElementOfSeq DEF Locations
    <3> QED BY <3>2 DEF Location
  <2> QED BY <1>10, <2>2, <2>3, RunType, SentStays DEF RunLateCommand, stream, redis
<1>11. ASSUME NEW d \in Drivers, Expire(d) PROVE TypeOK'
  BY <1>11, SentStays DEF Expire, stream
<1>12. CASE Crash
  BY <1>12, SentStays, CommandFacts, IngestAssumption DEF Crash, redis, late
<1>13. CASE UNCHANGED vars
  BY <1>13, SentStays DEF vars, stream, redis, late
<1>14. ASSUME NEW s \in Streams, RefuseCommand(s) PROVE TypeOK'
  <2>1. next[s] + 1 \in 1 .. Len(Commands) + 1
    BY <1>14, CommandFacts DEF RefuseCommand
  <2> QED BY <1>14, <2>1, SentStays DEF RefuseCommand, redis, late
<1>15. ASSUME NEW s \in Streams, BatchRefused(s) PROVE TypeOK'
  BY <1>15, FinishType, SendAgainType, SentStays DEF BatchRefused, redis, late
<1> QED
  BY <1>1, <1>2, <1>3, <1>4, <1>5, <1>6, <1>7, <1>8, <1>9, <1>10, <1>11, <1>12, <1>13,
     <1>14, <1>15
  DEF Next, Ingest, Finished

-----------------------------------------------------------------------------
(***************************************************************************)
(* Steps keep the invariant.                                               *)
(***************************************************************************)
\* Stores only gain.
LEMMA NextKeeps ==
  ASSUME TypeOK, IngestInv, [Next]_vars
  PROVE  history \subseteq history' /\ events \subseteq events'
<1> USE DEF TypeOK
<1>0. \A s \in Streams : Busy(s) => Current(s) \in Locations
  BY DEF IngestInv, StreamInv, StoresNewest, IsNewest, SentBy
<1>1. ASSUME NEW s \in Streams, RunCommand(s)
      PROVE  history \subseteq history' /\ events \subseteq events'
  BY <1>0, <1>1, RunType DEF RunCommand, Busy
<1>2. ASSUME NEW b \in lateCmds, RunLateCommand(b)
      PROVE  history \subseteq history' /\ events \subseteq events'
  BY <1>2, RunType DEF RunLateCommand, redis
<1>3. ASSUME NEW s \in Streams,
             \/ Receive(s) \/ ReceiveOther(s) \/ StoreHistory(s) \/ StartBatch(s)
             \/ RefuseCommand(s) \/ BatchDone(s) \/ BatchRefused(s) \/ BatchErrs(s)
             \/ Cancel(s)
      PROVE  history \subseteq history' /\ events' = events
  BY <1>3 DEF Receive, ReceiveOther, StoreHistory, StartBatch,
     RefuseCommand, BatchDone, BatchRefused, BatchErrs, Cancel, redis
<1>4. ASSUME \/ \E l \in Locations : InsertLateRow(l)
             \/ \E d \in Drivers : Expire(d)
             \/ Crash \/ UNCHANGED vars
      PROVE  history \subseteq history' /\ events' = events
  BY <1>4 DEF InsertLateRow, Expire, Crash, vars, redis
<1> QED BY <1>1, <1>2, <1>3, <1>4 DEF Next, Ingest, Finished

\* The stream does not move, but may die with the process.
Stays(s) ==
  /\ \/ pc'[s] = "dead" /\ pc[s] # "done"
     \/ pc'[s] = "done" /\ pc[s] = "done"
     \/ /\ pc'[s] = pc[s] /\ next'[s] = next[s]
        /\ s \in errs' <=> s \in errs
        /\ s \in refused' <=> s \in refused
  /\ reply'[s] = reply[s]
  /\ SentBy(s)' = SentBy(s) /\ Current(s)' = Current(s)
  /\ \A l \in SentBy(s) : sent'[l] = sent[l]

\* A stream only moves by itself, or with the process.
LEMMA OthersStay ==
  ASSUME TypeOK, NEW t \in Streams,
         \/ \E s \in Streams \ {t} : Receive(s) \/ ReceiveOther(s) \/ Ingest(s)
         \/ \E s \in Streams : Cancel(s)
         \/ \E l \in Locations : InsertLateRow(l)
         \/ \E b \in lateCmds : RunLateCommand(b)
         \/ \E d \in Drivers : Expire(d)
         \/ Crash \/ UNCHANGED vars
  PROVE  Stays(t)
<1> USE DEF TypeOK
<1>1. ASSUME NEW s \in Streams \ {t}, Receive(s) PROVE Stays(t)
  <2>1. PICK d \in Drivers, nan \in NaNs :
          sent' = Append(sent, [stream |-> s, driver |-> d, nan |-> nan])
    BY <1>1 DEF Receive
  <2>2. /\ [stream |-> s, driver |-> d, nan |-> nan] \in Location
        /\ sent \in Seq(Location)
    BY IngestAssumption DEF Location
  <2>3. /\ \A l \in Locations : sent'[l] = sent[l]
        /\ \A u : u # s => SentBy(u)' = SentBy(u) /\ Current(u)' = Current(u)
    BY <2>1, <2>2, SentGrows
  <2> QED BY <1>1, <2>3 DEF Receive, Goto, Stays, SentBy
<1>2. ASSUME NEW s \in Streams \ {t}, ReceiveOther(s) \/ Ingest(s) PROVE Stays(t)
  BY <1>2, SentStays DEF ReceiveOther, Ingest, StoreHistory, StartBatch, RunCommand,
     RefuseCommand, BatchDone, BatchRefused, BatchErrs, SendAgain, Finish, Forget,
     Return, Goto, Stays, stream
<1>3. ASSUME \/ \E s \in Streams : Cancel(s)
             \/ \E l \in Locations : InsertLateRow(l)
             \/ \E b \in lateCmds : RunLateCommand(b)
             \/ \E d \in Drivers : Expire(d)
             \/ Crash \/ UNCHANGED vars
      PROVE  Stays(t)
  BY <1>3, SentStays DEF Cancel, Crash, vars, InsertLateRow, RunLateCommand, Expire,
     Stays, stream
<1> QED BY <1>1, <1>2, <1>3

\* What others store does not disturb a stream.
LEMMA QuietStream ==
  ASSUME NEW s \in Streams, Stays(s), StreamInv(s),
         history \subseteq history', events \subseteq events'
  PROVE  StreamInv(s)'
<1> USE DEF Stays
<1>1. StoresNewest(s)' /\ EndIsAnswered(s)'
  BY DEF StreamInv, StoresNewest, EndIsAnswered, Busy, IsNewest
<1>2. BatchProgress(s)'
  BY DEF StreamInv, BatchProgress
<1>3. ASSUME NEW l \in SentBy(s)'
      PROVE  \/ Stored(l)' /\ ~sent'[l].nan
             \/ IsNewest(s, l)' /\ (Busy(s)' \/ Failed(s)')
  <2>1. CASE Stored(l) /\ ~sent[l].nan
    BY <2>1, <1>3 DEF Stored
  <2>2. CASE IsNewest(s, l) /\ (Busy(s) \/ Failed(s))
    BY <2>2 DEF IsNewest, Busy, Failed, StreamInv, EndIsAnswered
  <2> QED BY <1>3, <2>1, <2>2 DEF StreamInv, PastIsStored
<1> QED BY <1>1, <1>2, <1>3 DEF StreamInv, PastIsStored

\* All but the last location of a stream are stored.
LEMMA OnlyNewest ==
  ASSUME NEW s \in Streams, StreamInv(s), Busy(s), NEW l \in SentBy(s),
         l # Current(s)
  PROVE  Stored(l) /\ ~sent[l].nan
<1>1. IsNewest(s, Current(s))
  BY DEF StreamInv, StoresNewest
<1>2. \A m \in SentBy(s) : m \in Int
  BY DEF SentBy, Locations
<1> QED BY <1>1, <1>2 DEF IsNewest, StreamInv, PastIsStored

\* The stream whose location it is goes on after the stores, or fails.
LEMMA FinishStream ==
  ASSUME TypeOK, NEW s \in Streams, StreamInv(s), Busy(s),
         NEW failed \in BOOLEAN, Finish(s, failed),
         ~failed /\ s \notin errs => Stored(Current(s)),
         UNCHANGED <<sent, history, events>>
  PROVE  StreamInv(s)'
<1> USE DEF TypeOK
<1>1. /\ next'[s] = 1
      /\ \/ pc'[s] = "done" /\ reply'[s] = "internal"
         \/ /\ pc'[s] = "recv" /\ reply'[s] = "none"
            /\ Stored(Current(s)) /\ ~sent[Current(s)].nan
  BY DEF Finish, Forget, Return, Goto, StreamInv, EndIsAnswered, Busy
<1>2. /\ SentBy(s)' = SentBy(s) /\ \A l : Stored(l)' = Stored(l)
      /\ \A l : IsNewest(s, l)' = IsNewest(s, l)
  BY SentStays DEF Stored, IsNewest
<1>3. StoresNewest(s)' /\ EndIsAnswered(s)' /\ BatchProgress(s)'
  BY <1>1 DEF StoresNewest, EndIsAnswered, BatchProgress, Busy
<1>4. PastIsStored(s)'
  <2>1. IsNewest(s, Current(s))
    BY DEF StreamInv, StoresNewest
  <2>2. \A l \in SentBy(s) : l = Current(s) \/ (Stored(l) /\ ~sent[l].nan)
    BY OnlyNewest
  <2>3. Failed(s)' \/ (Stored(Current(s)) /\ ~sent[Current(s)].nan)
    BY <1>1 DEF Failed
  <2> QED BY <1>2, <2>1, <2>2, <2>3 DEF PastIsStored
<1> QED BY <1>3, <1>4 DEF StreamInv

\* A stream takes the next location when all it sent before is stored.
LEMMA ReceiveStream ==
  ASSUME TypeOK, IngestInv, NEW s \in Streams, Receive(s),
         history \subseteq history', events \subseteq events'
  PROVE  StreamInv(s)'
<1> USE DEF TypeOK
<1>1. PICK d \in Drivers, nan \in NaNs :
        sent' = Append(sent, [stream |-> s, driver |-> d, nan |-> nan])
  BY DEF Receive
<1>2. /\ [stream |-> s, driver |-> d, nan |-> nan] \in Location
      /\ sent \in Seq(Location)
  BY IngestAssumption DEF Location
<1>3. /\ Len(sent) \in Nat /\ Len(sent') = Len(sent) + 1
      /\ \A l \in Locations : sent'[l] = sent[l]
      /\ SentBy(s)' = SentBy(s) \cup {Len(sent')}
      /\ Current(s)' = Len(sent')
  BY <1>1, <1>2, SentGrows
<1>4. \A l \in SentBy(s) : l \in Locations /\ l \in Nat /\ l <= Len(sent)
  BY <1>3 DEF SentBy, Locations
<1>5. StreamInv(s)
  BY DEF IngestInv
<1>6. pc[s] = "recv" /\ reply[s] = "none" /\ pc'[s] = "history" /\ reply'[s] = "none"
  BY <1>5 DEF Receive, Goto, StreamInv, EndIsAnswered
<1>7. \A l \in SentBy(s) : Stored(l) /\ ~sent[l].nan
  BY <1>5, <1>6 DEF StreamInv, PastIsStored, Busy, Failed
<1>8. Len(sent') \in SentBy(s)' /\ \A m \in SentBy(s)' : m <= Len(sent')
  BY <1>3, <1>4
<1>9. StoresNewest(s)' /\ EndIsAnswered(s)' /\ BatchProgress(s)'
  BY <1>3, <1>5, <1>6, <1>8
  DEF Receive, StreamInv, StoresNewest, IsNewest, EndIsAnswered, BatchProgress
<1>10. ASSUME NEW l \in SentBy(s)'
       PROVE  \/ Stored(l)' /\ ~sent'[l].nan
              \/ IsNewest(s, l)' /\ (Busy(s)' \/ Failed(s)')
  <2>1. CASE l \in SentBy(s)
    BY <1>3, <1>4, <1>7, <2>1 DEF Stored
  <2>2. CASE l = Len(sent')
    <3>1. \A m \in SentBy(s)' : m <= l
      BY <1>8, <2>2
    <3> QED BY <1>6, <1>10, <3>1 DEF IsNewest, Busy
  <2> QED BY <1>3, <1>10, <2>1, <2>2
<1> QED BY <1>9, <1>10 DEF StreamInv, PastIsStored

\* A stream that goes on storing: its last location stays unsettled.
LEMMA BusyStream ==
  ASSUME TypeOK, NEW s \in Streams, StreamInv(s), Busy(s), Busy(s)',
         UNCHANGED sent, reply'[s] = reply[s], BatchProgress(s)',
         history \subseteq history', events \subseteq events'
  PROVE  StreamInv(s)'
<1>1. /\ SentBy(s)' = SentBy(s) /\ Current(s)' = Current(s)
      /\ \A l : Stored(l) => Stored(l)'
      /\ \A l : IsNewest(s, l)' = IsNewest(s, l)
  BY SentStays DEF Stored, IsNewest
<1>2. StoresNewest(s)' /\ EndIsAnswered(s)'
  BY <1>1 DEF StreamInv, StoresNewest, EndIsAnswered, Busy
<1>3. PastIsStored(s)'
  BY <1>1 DEF StreamInv, PastIsStored
<1> QED BY <1>2, <1>3 DEF StreamInv

\* A batch that is sent again starts anew.
LEMMA SendAgainStream ==
  ASSUME TypeOK, NEW s \in Streams, StreamInv(s), pc[s] = "batch", SendAgain(s),
         UNCHANGED <<sent, history, events>>
  PROVE  StreamInv(s)'
<1>1. pc' = pc /\ UNCHANGED <<errs, reply>> /\ next'[s] = 1
  BY DEF SendAgain, TypeOK
<1>2. Busy(s) /\ Busy(s)'
  BY <1>1 DEF Busy
<1>3. BatchProgress(s)'
  BY <1>1, SentStays, CommandFacts DEF StreamInv, BatchProgress
<1> QED BY <1>1, <1>2, <1>3, BusyStream

\* Every step keeps what is known of a stream: its own, by what the step of its
\* pipeline does; another's, or the environment's, because stores only gain.
LEMMA NextStream ==
  ASSUME TypeOK, IngestInv, [Next]_vars, NEW t \in Streams
  PROVE  StreamInv(t)'
<1> USE DEF TypeOK
<1>0. /\ StreamInv(t)
      /\ history \subseteq history' /\ events \subseteq events'
  BY NextKeeps DEF IngestInv
<1>1. CASE Receive(t)
  BY <1>0, <1>1, ReceiveStream
<1>2. CASE Stays(t)
  BY <1>0, <1>2, QuietStream
<1>3. ASSUME ReceiveOther(t) PROVE StreamInv(t)'
  <2>1. /\ pc[t] = "recv" /\ pc'[t] = "done" /\ reply'[t] \in {"ok", "invalid", "internal"}
        /\ UNCHANGED <<sent, history, events>>
    BY <1>3 DEF ReceiveOther, Return, Goto, redis
  <2>2. \A l \in SentBy(t) : Stored(l) /\ ~sent[l].nan
    BY <1>0, <2>1 DEF StreamInv, PastIsStored, Busy, Failed, EndIsAnswered
  <2> QED
    BY <2>1, <2>2, SentStays DEF StreamInv, StoresNewest, EndIsAnswered, BatchProgress,
       PastIsStored, Busy, Stored
<1>4. ASSUME StoreHistory(t) PROVE StreamInv(t)'
  <2>1. Busy(t) /\ Busy(t)' /\ pc[t] = "history" /\ pc'[t] = "redis"
    BY <1>4 DEF StoreHistory, Goto, Busy
  <2>2. BatchProgress(t)'
    BY <1>0, <1>4, <2>1, SentStays DEF StoreHistory, StreamInv, BatchProgress
  <2> QED BY <1>0, <1>4, <2>1, <2>2, BusyStream DEF StoreHistory
<1>5. ASSUME StartBatch(t) PROVE StreamInv(t)'
  <2>1. Busy(t) /\ pc[t] = "redis" /\ UNCHANGED <<sent, history, events>>
    BY <1>5 DEF StartBatch, Busy, redis
  <2>2. CASE Finish(t, TRUE)
    BY <1>0, <2>1, <2>2, FinishStream
  <2>3. CASE Goto(t, "batch") /\ UNCHANGED <<errs, reply, next, refused, attempt, gone>>
    <3>1. Busy(t)' /\ pc'[t] = "batch"
      BY <2>3 DEF Goto, Busy
    <3>2. BatchProgress(t)'
      BY <1>0, <2>1, <2>3, <3>1, SentStays, CommandFacts DEF StreamInv, BatchProgress
    <3> QED BY <1>0, <2>1, <2>3, <3>1, <3>2, BusyStream
  <2> QED BY <1>5, <2>2, <2>3 DEF StartBatch
<1>6. ASSUME RunCommand(t) PROVE StreamInv(t)'
  <2>1. Busy(t) /\ Busy(t)' /\ pc[t] = "batch" /\ Current(t) \in Locations
    BY <1>0, <1>6 DEF RunCommand, Busy, StreamInv, StoresNewest, IsNewest, SentBy
  <2>2. next'[t] > Len(Commands) => Commands[next[t]] = "xadd"
    BY <1>6, CommandFacts DEF RunCommand
  <2>3. next'[t] > Len(Commands) => Current(t) \in events'
    BY <1>6, <2>1, <2>2, RunType DEF RunCommand
  <2>4. BatchProgress(t)'
    BY <1>0, <1>6, <2>1, <2>3, SentStays DEF RunCommand, StreamInv, BatchProgress
  <2> QED BY <1>0, <1>6, <2>1, <2>4, BusyStream DEF RunCommand
<1>7. ASSUME BatchDone(t) PROVE StreamInv(t)'
  <2>1. Busy(t) /\ UNCHANGED <<sent, history, events>> /\ Finish(t, FALSE)
    BY <1>7 DEF BatchDone, Busy, redis
  <2>2. t \notin errs => Stored(Current(t))
    BY <1>0, <1>7 DEF BatchDone, StreamInv, BatchProgress, Stored
  <2> QED BY <1>0, <2>1, <2>2, FinishStream
<1>8. ASSUME BatchErrs(t) PROVE StreamInv(t)'
  <2>1. Busy(t) /\ pc[t] = "batch" /\ UNCHANGED <<sent, history, events>>
    BY <1>8 DEF BatchErrs, Busy, redis
  <2>2. CASE Finish(t, TRUE)
    BY <1>0, <2>1, <2>2, FinishStream
  <2>3. CASE SendAgain(t)
    BY <1>0, <2>1, <2>3, SendAgainStream
  <2> QED BY <1>8, <2>2, <2>3 DEF BatchErrs
<1>8a. ASSUME RefuseCommand(t) PROVE StreamInv(t)'
  <2>1. Busy(t) /\ Busy(t)' /\ pc[t] = "batch" /\ UNCHANGED <<sent, history, events>>
    BY <1>8a DEF RefuseCommand, Busy, redis
  <2>2. BatchProgress(t)'
    BY <1>0, <1>8a, <2>1, SentStays DEF RefuseCommand, StreamInv, BatchProgress
  <2> QED BY <1>0, <1>8a, <2>1, <2>2, BusyStream DEF RefuseCommand
<1>8b. ASSUME BatchRefused(t) PROVE StreamInv(t)'
  <2>1. Busy(t) /\ pc[t] = "batch" /\ UNCHANGED <<sent, history, events>>
    BY <1>8b DEF BatchRefused, Busy, redis
  <2> QED BY <1>0, <1>8b, <2>1, FinishStream, SendAgainStream DEF BatchRefused
<1>9. CASE \/ \E s \in Streams \ {t} : Receive(s) \/ ReceiveOther(s) \/ Ingest(s)
           \/ \E s \in Streams : Cancel(s)
           \/ \E l \in Locations : InsertLateRow(l)
           \/ \E b \in lateCmds : RunLateCommand(b)
           \/ \E d \in Drivers : Expire(d)
           \/ Crash \/ UNCHANGED vars
  BY <1>2, <1>9, OthersStay
<1> QED
  BY <1>1, <1>3, <1>4, <1>5, <1>6, <1>7, <1>8, <1>8a, <1>8b, <1>9
  DEF Next, Ingest, Finished

\* The invariant is inductive.
LEMMA NextIngest == TypeOK /\ IngestInv /\ [Next]_vars => IngestInv'
  BY NextStream DEF IngestInv

\* The variables keep their types.
THEOREM IngestTyped == Spec => []TypeOK
  BY InitIngest, NextType, NextIngest, PTL DEF Spec

\* So it holds throughout.
LEMMA IngestCorrect == Spec => []IngestInv
  BY InitIngest, NextType, NextIngest, PTL DEF Spec

\* A stream that is acknowledged has all its locations in both stores, and
\* none of them is a NaN (server.go:36-60, multi_store.go:19-27,
\* fanout_publisher.go:45-48).
THEOREM AcknowledgedIsStored == Spec => []AckMeansStored
<1>1. TypeOK /\ IngestInv => AckMeansStored
  BY DEF IngestInv, StreamInv, EndIsAnswered, PastIsStored, Busy, Failed, AckMeansStored
<1> QED BY <1>1, IngestTyped, IngestCorrect, PTL

\* Nothing is stored after a location of the same stream that a store lacks
\* (server.go:53-57, multi_store.go:19-27).
THEOREM StoredWithoutGaps == Spec => []NoGaps
<1>1. TypeOK /\ IngestInv => NoGaps
  <2> SUFFICES ASSUME TypeOK, IngestInv, NEW l \in Locations, NEW m \in Locations,
                      l < m, sent[l].stream = sent[m].stream
               PROVE  Stored(l)
    BY DEF NoGaps
  <2>1. sent \in Seq(Location)
    BY DEF TypeOK, Location
  <2>2. sent[l] \in Location
    BY <2>1, ElementOfSeq DEF Locations
  <2>3. PICK s \in Streams : l \in SentBy(s) /\ m \in SentBy(s)
    BY <2>2 DEF SentBy, Location
  <2>4. ~IsNewest(s, l)
    BY <2>3 DEF IsNewest, Locations
  <2> QED BY <2>3, <2>4 DEF IngestInv, StreamInv, PastIsStored
<1> QED BY <1>1, IngestTyped, IngestCorrect, PTL

-----------------------------------------------------------------------------
(***************************************************************************)
(* The hash of a driver.                                                   *)
(***************************************************************************)
\* Only a batch that was given up on takes a hash back within a stream: a
\* stream sets the hash to its newest location, sent again or not
\* (redis_store.go:55-81).
THEOREM HashMovesForward == Spec => LatestMovesForward
<1>1. ASSUME TypeOK, IngestInv, [Next]_vars, NEW d \in Drivers,
             latest[d] # 0, latest'[d] # 0
      PROVE  \/ latest[d] <= latest'[d]
             \/ sent[latest[d]].stream # sent[latest'[d]].stream
             \/ \E b \in lateCmds \ lateCmds' : b.loc = latest'[d]
  <2> USE DEF TypeOK
  <2>0. Len(sent) \in Nat /\ latest[d] \in Locations
    BY <1>1 DEF Locations
  <2>1. CASE latest'[d] = latest[d]
    BY <2>0, <2>1 DEF Locations
  <2>2. ASSUME NEW s \in Streams, RunCommand(s), latest'[d] # latest[d]
        PROVE  latest[d] <= latest'[d] \/ sent[latest[d]].stream # sent[latest'[d]].stream
    <3>1. latest'[d] = Current(s) /\ IsNewest(s, Current(s))
      BY <1>1, <2>2 DEF RunCommand, Run, IngestInv, StreamInv, StoresNewest, Busy
    <3> QED BY <2>0, <3>1 DEF IsNewest, SentBy
  <2>3. ASSUME NEW b \in lateCmds, RunLateCommand(b), latest'[d] # latest[d]
        PROVE  b \notin lateCmds' /\ b.loc = latest'[d]
    <3>1. b.loc = latest'[d]
      BY <1>1, <2>3 DEF RunLateCommand, Run, redis
    <3>2. [b EXCEPT !.next = @ + 1] # b
      <4>1. PICK l \in Locations, a \in 0 .. MaxRetries, n \in 1 .. Len(Commands) :
              b = [loc |-> l, attempt |-> a, next |-> n]
        BY <1>1
      <4> QED BY <4>1
    <3> QED BY <2>3, <3>1, <3>2 DEF RunLateCommand
  <2>4. ASSUME NEW e \in Drivers, Expire(e) PROVE latest'[d] = latest[d]
    BY <1>1, <2>4 DEF Expire
  <2>5. ASSUME NEW s \in Streams,
               \/ Receive(s) \/ ReceiveOther(s) \/ StoreHistory(s) \/ StartBatch(s)
               \/ RefuseCommand(s) \/ BatchDone(s) \/ BatchRefused(s) \/ BatchErrs(s)
               \/ Cancel(s)
        PROVE  latest' = latest
    BY <2>5 DEF Receive, ReceiveOther, StoreHistory, StartBatch, RefuseCommand,
       BatchDone, BatchRefused, BatchErrs, Cancel, redis
  <2>6. ASSUME (\E l \in Locations : InsertLateRow(l)) \/ Crash \/ UNCHANGED vars
        PROVE  latest' = latest
    BY <2>6 DEF InsertLateRow, Crash, vars, redis
  <2> QED BY <1>1, <2>1, <2>2, <2>3, <2>4, <2>5, <2>6 DEF Next, Ingest, Finished
<1>2. TypeOK /\ IngestInv /\ [Next]_vars =>
        [\A d \in Drivers :
           latest[d] # 0 /\ latest'[d] # 0
             => \/ latest[d] <= latest'[d]
                \/ sent[latest[d]].stream # sent[latest'[d]].stream
                \/ \E b \in lateCmds \ lateCmds' : b.loc = latest'[d]]_vars
  BY <1>1
<1> QED BY <1>2, IngestTyped, IngestCorrect, PTL DEF Spec, LatestMovesForward

\* Stream s has still to set the time to live of d's hash, or is about to
\* hear of a refusal; or it failed.
Working(s, d) ==
  /\ pc[s] = "batch" /\ sent[Current(s)].driver = d
  /\ next[s] <= 2 \/ s \in refused

Abandoned(s, d) == Failed(s) /\ \E l \in SentBy(s) : sent[l].driver = d

\* So has a batch that was given up on.
Pending(b, d) == b.next <= 2 /\ sent[b.loc].driver = d

\* Somebody set the hash that does not expire, and is named.
HashInv ==
  HasTTL => \A d \in Drivers : latest[d] # 0 /\ d \notin expiring =>
    \/ \E s \in Streams : Working(s, d) \/ Abandoned(s, d)
    \/ \E b \in lateCmds : Pending(b, d)
    \/ d \in refusedTTL

\* A stream that does not move is accountable for a hash as before.
LEMMA StaysAccountable ==
  ASSUME NEW t \in Streams, StreamInv(t), Stays(t), NEW d
  PROVE  /\ Working(t, d) => Working(t, d)' \/ Abandoned(t, d)'
         /\ Abandoned(t, d) => Abandoned(t, d)'
<1>1. ASSUME Working(t, d) PROVE Working(t, d)' \/ Abandoned(t, d)'
  <2>1. Current(t) \in SentBy(t)
    BY <1>1 DEF Working, StreamInv, StoresNewest, IsNewest, Busy
  <2>2. sent'[Current(t)].driver = d
    BY <1>1, <2>1 DEF Working, Stays
  <2> QED BY <1>1, <2>1, <2>2 DEF Working, Abandoned, Failed, Stays
<1>2. ASSUME Abandoned(t, d) PROVE Abandoned(t, d)'
  BY <1>2 DEF Abandoned, Failed, Stays, StreamInv, EndIsAnswered
<1> QED BY <1>1, <1>2

\* What is left of a batch after a command.
LEMMA NextCommand ==
  ASSUME NEW l, NEW a, NEW n, NEW b, b = [loc |-> l, attempt |-> a, next |-> n]
  PROVE  [b EXCEPT !.next = @ + 1] = [loc |-> l, attempt |-> a, next |-> n + 1]
  OBVIOUS

\* A command that is not about a driver's hash leaves it alone.
LEMMA RunElsewhere ==
  ASSUME NEW cmd, NEW l, NEW d \in Drivers, Run(cmd, l), DOMAIN latest = Drivers,
         sent[l].driver # d \/ cmd = "xadd"
  PROVE  latest'[d] = latest[d] /\ (d \in expiring' <=> d \in expiring)
  BY DEF Run

\* Setting a hash makes its stream, or batch, accountable for it until its
\* time to live is set; other hashes keep who is accountable for them.
LEMMA NextHash == TypeOK /\ IngestInv /\ HashInv /\ [Next]_vars => HashInv'
<1> SUFFICES ASSUME TypeOK, IngestInv, HashInv, [Next]_vars, HasTTL,
                    NEW d \in Drivers, latest'[d] # 0, d \notin expiring'
             PROVE  \/ \E s \in Streams : Working(s, d)' \/ Abandoned(s, d)'
                    \/ \E b \in lateCmds' : Pending(b, d)'
                    \/ d \in refusedTTL'
  BY DEF HashInv
<1> DEFINE Accountable == \/ \E s \in Streams : Working(s, d) \/ Abandoned(s, d)
                          \/ \E b \in lateCmds : Pending(b, d)
                          \/ d \in refusedTTL
           Accountable2 == \/ \E s \in Streams : Working(s, d)' \/ Abandoned(s, d)'
                           \/ \E b \in lateCmds' : Pending(b, d)'
                           \/ d \in refusedTTL'
<1>0. Len(Commands) = 3 /\ Commands = <<"hset", "expire", "xadd">>
  BY DEF Commands
<1>t. /\ sent \in Seq(Location)
      /\ pc \in [Streams -> {"recv", "history", "redis", "batch", "done", "dead"}]
      /\ next \in [Streams -> 1 .. 4]
      /\ reply \in [Streams -> {"none", "ok", "invalid", "internal"}]
      /\ latest \in [Drivers -> 0 .. Len(sent)]
      /\ lateCmds \subseteq [loc : Locations, attempt : 0 .. MaxRetries, next : 1 .. 3]
  BY <1>0 DEF TypeOK, Location
<1>1. latest[d] # 0 /\ d \notin expiring => Accountable
  BY DEF HashInv
<1>2. \A s \in Streams : StreamInv(s)
  BY DEF IngestInv
<1>3. ASSUME NEW t \in Streams, Stays(t), Working(t, d) \/ Abandoned(t, d)
      PROVE  Accountable2
  BY <1>2, <1>3, StaysAccountable
<1>4. \A b \in lateCmds : Pending(b, d) => Pending(b, d)'
  <2> SUFFICES ASSUME NEW b \in lateCmds, Pending(b, d) PROVE sent'[b.loc] = sent[b.loc]
    BY DEF Pending
  <2>1. b.loc \in Locations
    BY <1>t
  <2>2. ASSUME NEW s \in Streams, Receive(s) PROVE sent'[b.loc] = sent[b.loc]
    <3>1. PICK e \in Drivers, nan \in NaNs :
            sent' = Append(sent, [stream |-> s, driver |-> e, nan |-> nan])
      BY <2>2 DEF Receive
    <3> QED BY <1>t, <2>1, <3>1 DEF Locations
  <2>3. (\A s \in Streams : ~Receive(s)) => sent' = sent
    BY DEF Next, ReceiveOther, Ingest, StoreHistory, StartBatch, RunCommand,
       RefuseCommand, BatchDone, BatchRefused, BatchErrs, Cancel, InsertLateRow,
       RunLateCommand, Expire, Crash, Finished, vars
  <2> QED BY <2>2, <2>3
<1>5. ASSUME NEW s \in Streams,
             \/ Receive(s) \/ ReceiveOther(s) \/ StoreHistory(s) \/ StartBatch(s)
             \/ RefuseCommand(s) \/ BatchDone(s) \/ BatchRefused(s) \/ BatchErrs(s)
             \/ Cancel(s)
      PROVE  Accountable2
  <2>1. /\ latest' = latest /\ expiring' = expiring
        /\ lateCmds \subseteq lateCmds' /\ refusedTTL' = refusedTTL
    BY <1>5 DEF Receive, ReceiveOther, StoreHistory, StartBatch, RefuseCommand,
       BatchDone, BatchRefused, BatchErrs, Cancel, redis, late
  <2>2. Accountable
    BY <1>1, <2>1
  <2>3. \A t \in Streams \ {s} : Stays(t)
    BY <1>5, OthersStay DEF Ingest
  <2>4. ASSUME Working(s, d) \/ Abandoned(s, d) PROVE Accountable2
    <3>1. pc[s] \in {"batch", "dead", "done"} /\ ~BatchDone(s)
      <4>1. Abandoned(s, d) => pc[s] \in {"dead", "done"}
        BY <1>2 DEF Abandoned, Failed, StreamInv, EndIsAnswered
      <4>2. Working(s, d) => pc[s] = "batch"
        BY DEF Working
      <4>3. Working(s, d) => ~(next[s] > Len(Commands) /\ s \notin refused)
        <5>1. next[s] <= 2 => ~(next[s] > 3)
          <6>1. next[s] \in 1 .. 4
            BY <1>t
          <6> QED BY <6>1
        <5> QED BY <1>0, <5>1 DEF Working
      <4> QED BY <2>4, <4>1, <4>2, <4>3 DEF BatchDone
    <3>2. CASE Cancel(s)
      BY <1>3, <2>4, <3>2, OthersStay
    <3>3. CASE RefuseCommand(s) \/ BatchRefused(s) \/ BatchErrs(s)
      <4>1. /\ pc[s] = "batch" /\ UNCHANGED sent
            /\ Current(s) \in SentBy(s) /\ sent[Current(s)].driver = d
            /\ Current(s)' = Current(s) /\ SentBy(s)' = SentBy(s)
        BY <1>2, <2>4, <3>3, SentStays DEF RefuseCommand, BatchRefused, BatchErrs, Working,
           Abandoned, Failed, StreamInv, EndIsAnswered, StoresNewest, IsNewest, Busy
      <4>2. CASE Finish(s, TRUE)
        <5>1. reply'[s] = "internal"
          BY <1>t, <4>2 DEF Finish, Return
        <5> QED BY <4>1, <5>1 DEF Abandoned, Failed
      <4>3. CASE SendAgain(s)
        <5>1. pc'[s] = "batch" /\ next'[s] = 1
          BY <1>t, <4>1, <4>3 DEF SendAgain
        <5> QED BY <4>1, <5>1 DEF Working
      <4>4. CASE RefuseCommand(s)
        <5>1. pc'[s] = "batch" /\ s \in refused'
          BY <1>t, <4>1, <4>4 DEF RefuseCommand
        <5> QED BY <4>1, <5>1 DEF Working
      <4> QED BY <3>3, <4>2, <4>3, <4>4 DEF BatchRefused, BatchErrs
    <3> QED BY <1>5, <3>1, <3>2, <3>3 DEF Receive, ReceiveOther, StoreHistory, StartBatch
  <2> QED BY <1>3, <1>4, <2>1, <2>2, <2>3, <2>4
<1>6. ASSUME NEW s \in Streams, RunCommand(s) PROVE Accountable2
  <2>1. /\ pc[s] = "batch" /\ pc'[s] = "batch" /\ Current(s) \in Locations
        /\ next[s] \in 1 .. 3 /\ next'[s] = next[s] + 1
        /\ UNCHANGED <<sent, lateCmds, refused, refusedTTL>> /\ Current(s)' = Current(s)
    <3>1. /\ pc[s] = "batch" /\ pc' = pc /\ next[s] <= 3
          /\ next' = [next EXCEPT ![s] = @ + 1]
          /\ UNCHANGED <<sent, lateCmds, refused, refusedTTL>>
      BY <1>0, <1>6 DEF RunCommand, late
    <3>2. Current(s) \in Locations
      BY <1>2, <3>1 DEF StreamInv, StoresNewest, IsNewest, Busy, SentBy
    <3> QED BY <1>t, <3>1, <3>2, SentStays
  <2>2. sent[Current(s)].driver \in Drivers
    <3>1. sent[Current(s)] \in Location
      BY <1>t, <2>1, ElementOfSeq DEF Locations
    <3> QED BY <3>1 DEF Location
  <2>3. CASE sent[Current(s)].driver = d /\ next[s] = 1
    BY <2>1, <2>3 DEF Working
  <2>4. CASE sent[Current(s)].driver = d /\ next[s] = 2
    <3>1. Run("expire", Current(s))
      BY <1>0, <1>6, <2>4 DEF RunCommand
    <3> QED BY <2>4, <3>1 DEF Run
  <2>5. CASE sent[Current(s)].driver # d \/ next[s] = 3
    <3>1. latest'[d] = latest[d] /\ (d \in expiring' <=> d \in expiring)
      BY <1>0, <1>6, <1>t, <2>5, RunElsewhere DEF RunCommand
    <3>2. Working(s, d) => Working(s, d)'
      BY <2>1, <2>5 DEF Working
    <3>3. ~Abandoned(s, d)
      BY <1>2, <2>1 DEF Abandoned, Failed, StreamInv, EndIsAnswered
    <3>4. \A t \in Streams \ {s} : Stays(t)
      BY <1>6, OthersStay DEF Ingest
    <3> QED BY <1>1, <1>3, <1>4, <2>1, <3>1, <3>2, <3>3, <3>4
  <2> QED BY <2>1, <2>3, <2>4, <2>5
<1>7. ASSUME NEW b \in lateCmds, RunLateCommand(b) PROVE Accountable2
  <2>1. PICK l \in Locations, a \in 0 .. MaxRetries, n \in 1 .. 3 :
          b = [loc |-> l, attempt |-> a, next |-> n]
    BY <1>t
  <2>2. /\ \/ Run(Commands[n], l) /\ UNCHANGED refusedTTL
           \/ /\ UNCHANGED redis /\ refusedTTL \subseteq refusedTTL'
              /\ n = 2 => sent[l].driver \in refusedTTL'
        /\ UNCHANGED sent
        /\ n < 3 => [loc |-> l, attempt |-> a, next |-> n + 1] \in lateCmds'
        /\ \A c \in lateCmds : c # b => c \in lateCmds'
    <3>1. b.next = n /\ b.loc = l
      BY <2>1
    <3>2. [b EXCEPT !.next = @ + 1] = [loc |-> l, attempt |-> a, next |-> n + 1]
      BY <2>1, NextCommand
    <3>3. /\ \/ Run(Commands[n], l) /\ UNCHANGED refusedTTL
             \/ /\ UNCHANGED redis /\ refusedTTL \subseteq refusedTTL'
                /\ n = 2 => sent[l].driver \in refusedTTL'
          /\ UNCHANGED sent
          /\ lateCmds' = (lateCmds \ {b}) \cup
               (IF n < 3 THEN {[loc |-> l, attempt |-> a, next |-> n + 1]} ELSE {})
      <4>1. Len(Commands) = 3
        BY <1>0
      <4>2. n = 2 => Commands[n] = "expire"
        BY <1>0
      <4> QED BY <1>7, <3>1, <3>2, <4>1, <4>2 DEF RunLateCommand
    <3> QED BY <3>3
  <2>3. sent[l].driver \in Drivers
    <3>1. sent[l] \in Location
      BY <1>t, <2>1, ElementOfSeq DEF Locations
    <3> QED BY <3>1 DEF Location
  <2>4. CASE sent[l].driver = d /\ n = 1
    <3>1. [loc |-> l, attempt |-> a, next |-> 2] \in lateCmds'
      BY <2>2, <2>4
    <3>2. Pending([loc |-> l, attempt |-> a, next |-> 2], d)'
      BY <2>2, <2>4 DEF Pending
    <3> QED BY <3>1, <3>2
  <2>5. CASE sent[l].driver = d /\ n = 2
    <3>1. Commands[n] = "expire"
      BY <1>0, <2>5
    <3>2. CASE UNCHANGED redis
      BY <2>2, <2>5, <3>1, <3>2 DEF Run
    <3>3. CASE Run("expire", l)
      BY <2>5, <3>3 DEF Run
    <3> QED BY <2>2, <2>5, <3>1, <3>2, <3>3
  <2>6. CASE sent[l].driver # d \/ n = 3
    <3>1. latest'[d] = latest[d] /\ (d \in expiring' <=> d \in expiring)
      <4>1. CASE UNCHANGED redis
        BY <4>1 DEF redis
      <4>2. CASE Run(Commands[n], l)
        BY <1>0, <1>t, <2>6, <4>2, RunElsewhere
      <4> QED BY <2>2, <4>1, <4>2
    <3>2. ~Pending(b, d)
      BY <2>1, <2>6 DEF Pending
    <3>3. \A t \in Streams : Stays(t)
      BY <1>7, OthersStay
    <3> QED BY <1>1, <1>3, <1>4, <2>2, <3>1, <3>2, <3>3
  <2> QED BY <2>1, <2>4, <2>5, <2>6
<1>8. ASSUME \/ Crash \/ UNCHANGED vars
             \/ \E l \in Locations : InsertLateRow(l)
             \/ \E e \in Drivers : Expire(e)
      PROVE  Accountable2
  <2>1. /\ latest[d] # 0 /\ d \notin expiring /\ lateCmds' = lateCmds
        /\ d \in refusedTTL => d \in refusedTTL'
    BY <1>8, <1>t DEF Crash, vars, InsertLateRow, Expire, redis, late
  <2>2. \A t \in Streams : Stays(t)
    BY <1>8, OthersStay
  <2> QED BY <1>1, <1>3, <1>4, <2>1, <2>2
<1> QED BY <1>5, <1>6, <1>7, <1>8 DEF Next, Ingest, Finished

\* With a time to live set, a hash that would never expire is still worked
\* on, or the remains of a failure (redis_store.go:56-64).
THEOREM HashesExpire == Spec => []StaleHashesExpire
<1>1. Init => HashInv
  BY DEF Init, HashInv
<1>2. Spec => []HashInv
  BY <1>1, NextHash, IngestTyped, IngestCorrect, PTL DEF Spec
<1>3. IngestInv /\ HashInv => StaleHashesExpire
  <2> SUFFICES ASSUME IngestInv, HashInv, HasTTL, NEW d \in Drivers,
                      latest[d] # 0, d \notin expiring
               PROVE  \/ \E s \in Streams :
                           /\ \E l \in SentBy(s) : sent[l].driver = d
                           /\ pc[s] \in {"batch", "dead"} \/ reply[s] = "internal"
                      \/ \E b \in lateCmds : sent[b.loc].driver = d
                      \/ d \in refusedTTL
    BY DEF StaleHashesExpire
  <2>1. \A s \in Streams : Working(s, d) => Current(s) \in SentBy(s)
    BY DEF IngestInv, StreamInv, StoresNewest, IsNewest, Busy, Working
  <2> QED BY <2>1 DEF HashInv, Working, Abandoned, Failed, Pending
<1> QED BY <1>2, <1>3, IngestCorrect, PTL

-----------------------------------------------------------------------------
(***************************************************************************)
(* The newest location.  The comment of RedisLocationStore promises the    *)
(* latest location of a driver.  Two streams of one driver can undo it, so *)
(* can a batch that runs late, and an HSET that Redis refuses before it    *)
(* accepts the XADD of the same batch.  Where none of the three happens    *)
(* the hash is never behind an event.                                      *)
(***************************************************************************)
\* No two streams store locations of one driver at the same moment.
OneAtATime ==
  \A s, t \in Streams :
    Busy(s) /\ Busy(t) /\ sent[Current(s)].driver = sent[Current(t)].driver => s = t

\* What a stream stores is the newest location of its driver.
NewestHeld(s) ==
  Busy(s) => \A l \in Locations :
               sent[l].driver = sent[Current(s)].driver => l <= Current(s)

\* Behind the first command of a batch its location is the hash, if there
\* still is one.
HashIsCurrent(s) ==
  pc[s] = "batch" /\ next[s] > 1
    => latest[sent[Current(s)].driver] \in {0, Current(s)}

\* No event is newer than the hash of its driver.
EventsBehind ==
  \A l \in events :
    latest[sent[l].driver] # 0 => l <= latest[sent[l].driver]

NewestInv ==
  /\ lateCmds = {}
  /\ \A s \in Streams : NewestHeld(s) /\ HashIsCurrent(s)
  /\ EventsBehind

\* What was sent names a driver, and what a stream stores was sent.
LEMMA SentFacts ==
  ASSUME TypeOK, IngestInv
  PROVE  /\ \A l \in Locations : l \in Nat /\ l # 0 /\ sent[l].driver \in Drivers
         /\ events \subseteq Locations
         /\ \A s \in Streams : Busy(s) => Current(s) \in Locations
<1>1. sent \in Seq(Location) /\ events \subseteq Locations
  BY DEF TypeOK, Location
<1>2. \A l \in Locations : sent[l] \in Location
  BY <1>1, ElementOfSeq DEF Locations
<1>3. \A l \in Locations : l \in Nat /\ l # 0 /\ sent[l].driver \in Drivers
  BY <1>1, <1>2 DEF Locations, Location
<1>4. events \subseteq Locations
  BY <1>1
<1>5. \A s \in Streams : Busy(s) => Current(s) \in Locations
  BY DEF IngestInv, StreamInv, StoresNewest, IsNewest, SentBy
<1> QED BY <1>3, <1>4, <1>5

\* A step that receives nothing and runs no command keeps the invariant,
\* though a hash may expire.
LEMMA QuietNewest ==
  ASSUME TypeOK, IngestInv, NewestInv, UNCHANGED <<sent, events, lateCmds>>,
         \A d \in Drivers : latest'[d] \in {0, latest[d]},
         \A s \in Streams : Busy(s)' => Busy(s),
         \A s \in Streams : pc'[s] = "batch" /\ next'[s] > 1
                              => pc[s] = "batch" /\ next[s] > 1
  PROVE  NewestInv'
<1>1. Locations' = Locations /\ \A s : Current(s)' = Current(s)
  BY SentStays
<1>2. ASSUME NEW s \in Streams PROVE NewestHeld(s)'
  BY <1>1 DEF NewestInv, NewestHeld
<1>3. ASSUME NEW s \in Streams PROVE HashIsCurrent(s)'
  <2> SUFFICES ASSUME pc'[s] = "batch", next'[s] > 1
               PROVE  latest'[sent[Current(s)].driver] \in {0, Current(s)}
    BY <1>1 DEF HashIsCurrent
  <2>1. latest[sent[Current(s)].driver] \in {0, Current(s)}
    BY DEF NewestInv, HashIsCurrent
  <2>2. sent[Current(s)].driver \in Drivers
    BY SentFacts DEF Busy
  <2> QED BY <2>1, <2>2
<1>4. EventsBehind'
  BY SentFacts DEF NewestInv, EventsBehind
<1> QED BY <1>2, <1>3, <1>4 DEF NewestInv

\* A location that is received is newer than all others; no other stream
\* stores one of its driver.
LEMMA ReceiveNewest ==
  ASSUME TypeOK, IngestInv, NewestInv, OneAtATime', NEW t \in Streams, Receive(t)
  PROVE  NewestInv'
<1>1. PICK e \in Drivers, nan \in NaNs :
        sent' = Append(sent, [stream |-> t, driver |-> e, nan |-> nan])
  BY DEF Receive
<1>2. /\ [stream |-> t, driver |-> e, nan |-> nan] \in Location
      /\ sent \in Seq(Location)
  BY IngestAssumption DEF TypeOK, Location
<1>3. /\ Len(sent) \in Nat /\ Len(sent') = Len(sent) + 1
      /\ \A l \in Locations : sent'[l] = sent[l]
      /\ \A s : s # t => Current(s)' = Current(s)
      /\ Current(t)' = Len(sent')
  BY <1>1, <1>2, SentGrows
<1>4. Locations' = Locations \cup {Len(sent')} /\ sent'[Len(sent')].driver = e
  BY <1>1, <1>2, <1>3 DEF Locations
<1>5. /\ pc' = [pc EXCEPT ![t] = "history"] /\ pc'[t] = "history"
      /\ UNCHANGED <<next, latest, events, lateCmds>>
  BY DEF Receive, Goto, redis, late, TypeOK
<1>6. ASSUME NEW s \in Streams, Busy(s)', s # t
      PROVE  /\ Busy(s) /\ Current(s) \in Locations /\ Current(s)' = Current(s)
             /\ sent'[Current(s)] = sent[Current(s)] /\ sent[Current(s)].driver # e
  <2>1. pc'[s] = pc[s] /\ Busy(s)
    BY <1>5, <1>6 DEF Busy, TypeOK
  <2>2. Current(s) \in Locations
    BY <2>1, SentFacts
  <2>3. Busy(t)'
    BY <1>5 DEF Busy
  <2> QED BY <1>3, <1>4, <1>6, <2>1, <2>2, <2>3 DEF OneAtATime
<1>7. ASSUME NEW s \in Streams PROVE NewestHeld(s)'
  <2> SUFFICES ASSUME Busy(s)', NEW l \in Locations',
                      sent'[l].driver = sent'[Current(s)'].driver
               PROVE  l <= Current(s)'
    BY DEF NewestHeld
  <2>1. CASE s = t
    BY <1>3, <1>4, <2>1 DEF Locations
  <2>2. CASE s # t
    <3>1. l \in Locations /\ sent[l].driver = sent[Current(s)].driver
      BY <1>3, <1>4, <1>6, <2>2
    <3> QED BY <1>6, <2>2, <3>1 DEF NewestInv, NewestHeld
  <2> QED BY <2>1, <2>2
<1>8. ASSUME NEW s \in Streams PROVE HashIsCurrent(s)'
  <2> SUFFICES ASSUME pc'[s] = "batch", next'[s] > 1
               PROVE  latest'[sent'[Current(s)'].driver] \in {0, Current(s)'}
    BY DEF HashIsCurrent
  <2>1. s # t /\ Busy(s)' /\ pc[s] = "batch" /\ next[s] > 1
    BY <1>5 DEF Busy, TypeOK
  <2> QED BY <1>5, <1>6, <2>1 DEF NewestInv, HashIsCurrent
<1>9. EventsBehind'
  BY <1>3, <1>5, SentFacts DEF NewestInv, EventsBehind
<1> QED BY <1>5, <1>7, <1>8, <1>9 DEF NewestInv

\* A command is about the newest location of its driver, and no other
\* stream's batch is about that driver.
LEMMA CommandNewest ==
  ASSUME TypeOK, IngestInv, NewestInv, OneAtATime, NEW t \in Streams, RunCommand(t)
  PROVE  NewestInv'
<1> DEFINE l == Current(t)
           e == sent[l].driver
<1>1. /\ pc' = pc /\ pc[t] = "batch" /\ next[t] \in 1 .. Len(Commands)
      /\ next' = [next EXCEPT ![t] = @ + 1]
      /\ UNCHANGED <<sent, lateCmds>> /\ Run(Commands[next[t]], l)
  BY CommandFacts DEF RunCommand, TypeOK, late
<1>2. Locations' = Locations /\ \A s : Current(s)' = Current(s)
  BY <1>1, SentStays
<1>3. Busy(t) /\ l \in Locations /\ l \in Nat /\ l # 0 /\ e \in Drivers
  BY <1>1, SentFacts DEF Busy
<1>4. \A m \in Locations : sent[m].driver = e => m <= l
  BY <1>3 DEF NewestInv, NewestHeld
<1>5. /\ \A d \in Drivers : d # e => latest'[d] = latest[d]
      /\ latest'[e] \in {latest[e], l}
      /\ next[t] = 1 => latest'[e] = l
      /\ events' = events \/ (events' = events \cup {l} /\ next[t] > 1)
  <2>1. DOMAIN latest = Drivers
    BY DEF TypeOK
  <2>2. next[t] = 1 => Commands[next[t]] = "hset"
    BY CommandFacts
  <2>3. CASE Commands[next[t]] = "hset"
    BY <1>1, <1>3, <2>1, <2>3 DEF Run
  <2>4. CASE Commands[next[t]] # "hset"
    <3>1. next[t] # 1 /\ latest' = latest /\ (events' = events \/ events' = events \cup {l})
      BY <1>1, <2>2, <2>4 DEF Run
    <3> QED BY <1>1, <3>1, CommandFacts
  <2> QED BY <2>3, <2>4
<1>6. latest'[e] \in {0, l}
  <2>1. CASE next[t] = 1
    BY <1>5, <2>1
  <2>2. CASE next[t] > 1
    <3>1. latest[e] \in {0, l}
      BY <1>1, <2>2 DEF NewestInv, HashIsCurrent
    <3> QED BY <1>5, <3>1
  <2> QED BY <1>1, <2>1, <2>2, CommandFacts
<1>7. ASSUME NEW s \in Streams PROVE NewestHeld(s)'
  BY <1>1, <1>2 DEF NewestInv, NewestHeld, Busy
<1>8. ASSUME NEW s \in Streams PROVE HashIsCurrent(s)'
  <2> SUFFICES ASSUME pc[s] = "batch", next'[s] > 1
               PROVE  latest'[sent[Current(s)].driver] \in {0, Current(s)}
    BY <1>1, <1>2 DEF HashIsCurrent
  <2>1. CASE s = t
    BY <1>6, <2>1
  <2>2. CASE s # t
    <3>1. Busy(s) /\ next[s] > 1
      BY <1>1, <2>2 DEF Busy, TypeOK
    <3>2. sent[Current(s)].driver \in Drivers \ {e}
      BY <1>3, <2>2, <3>1, SentFacts DEF OneAtATime
    <3> QED BY <1>5, <3>1, <3>2 DEF NewestInv, HashIsCurrent
  <2> QED BY <2>1, <2>2
<1>9. EventsBehind'
  <2> SUFFICES ASSUME NEW m \in events', latest'[sent[m].driver] # 0
               PROVE  m <= latest'[sent[m].driver]
    BY <1>1 DEF EventsBehind
  <2>1. m \in events \/ m = l
    BY <1>5
  <2>2. m \in Locations /\ sent[m].driver \in Drivers
    BY <1>3, <2>1, SentFacts
  <2>3. CASE sent[m].driver = e
    BY <1>4, <1>6, <2>2, <2>3
  <2>4. CASE sent[m].driver # e
    BY <1>5, <2>1, <2>2, <2>4 DEF NewestInv, EventsBehind
  <2> QED BY <2>3, <2>4
<1> QED BY <1>1, <1>7, <1>8, <1>9 DEF NewestInv

\* Every step keeps the invariant while one stream at a time stores
\* locations of a driver.
LEMMA NextNewest ==
  ASSUME Faults \cap {"linger", "refuse"} = {}, TypeOK, IngestInv, NewestInv,
         OneAtATime, OneAtATime', [Next]_vars
  PROVE  NewestInv'
<1>t. /\ pc \in [Streams -> {"recv", "history", "redis", "batch", "done", "dead"}]
      /\ next \in [Streams -> 1 .. Len(Commands) + 1]
      /\ latest \in [Drivers -> 0 .. Len(sent)]
  BY DEF TypeOK
<1>1. ASSUME NEW s \in Streams,
             \/ ReceiveOther(s) \/ StoreHistory(s) \/ StartBatch(s) \/ BatchDone(s)
             \/ BatchRefused(s) \/ BatchErrs(s) \/ Cancel(s)
      PROVE  NewestInv'
  <2>1. UNCHANGED <<sent, events, latest, lateCmds>>
    BY <1>1 DEF ReceiveOther, StoreHistory, StartBatch, BatchDone, BatchRefused,
       BatchErrs, Cancel, redis, late
  <2>2. \A t \in Streams : t # s => pc'[t] = pc[t] /\ next'[t] = next[t]
    BY <1>t, <1>1 DEF ReceiveOther, StoreHistory, StartBatch, BatchDone, BatchRefused,
       BatchErrs, Cancel, SendAgain, Finish, Forget, Return, Goto, stream
  <2>3. Busy(s)' => Busy(s)
    BY <1>t, <1>1 DEF ReceiveOther, StoreHistory, StartBatch, BatchDone, BatchRefused,
       BatchErrs, Cancel, SendAgain, Finish, Forget, Return, Goto, stream, Busy
  <2>4. pc'[s] = "batch" /\ next'[s] > 1 => pc[s] = "batch" /\ next[s] > 1
    <3>1. CASE StartBatch(s)
      <4>1. pc[s] = "redis" /\ next[s] = 1
        BY <3>1 DEF StartBatch, IngestInv, StreamInv, BatchProgress
      <4>2. next'[s] = 1
        BY <1>t, <3>1, <4>1 DEF StartBatch, Finish, Forget
      <4> QED BY <4>2
    <3>2. CASE BatchErrs(s) \/ BatchRefused(s) \/ BatchDone(s)
      <4>1. next'[s] = 1
        BY <1>t, <3>2 DEF BatchErrs, BatchRefused, BatchDone, SendAgain, Finish, Forget
      <4> QED BY <4>1
    <3>3. CASE ReceiveOther(s) \/ StoreHistory(s) \/ Cancel(s)
      BY <1>t, <3>3 DEF ReceiveOther, StoreHistory, Cancel, Return, Goto, stream
    <3> QED BY <1>1, <3>1, <3>2, <3>3
  <2>5. \A t \in Streams : Busy(t)' => Busy(t)
    BY <2>2, <2>3 DEF Busy
  <2> QED BY <2>1, <2>2, <2>4, <2>5, QuietNewest
<1>2. CASE (\E l \in Locations : InsertLateRow(l)) \/ UNCHANGED vars
  BY <1>2, QuietNewest DEF InsertLateRow, vars, stream, redis, late, Busy
<1>3. ASSUME NEW e \in Drivers, Expire(e) PROVE NewestInv'
  <2>1. \A d \in Drivers : latest'[d] \in {0, latest[d]}
    BY <1>t, <1>3 DEF Expire
  <2> QED BY <1>3, <2>1, QuietNewest DEF Expire, stream, Busy
<1>4. CASE Crash
  <2>1. \A s \in Streams : pc'[s] \in {"done", "dead"}
    BY <1>4 DEF Crash
  <2>2. \A s \in Streams : ~Busy(s)' /\ pc'[s] # "batch"
    BY <2>1 DEF Busy
  <2> QED BY <1>4, <2>2, QuietNewest DEF Crash, redis, late
<1>5. \A b \in lateCmds : ~RunLateCommand(b)
  BY DEF NewestInv
<1>6. \A s \in Streams : ~RefuseCommand(s)
  BY DEF RefuseCommand
<1> QED
  BY <1>1, <1>2, <1>3, <1>4, <1>5, <1>6, ReceiveNewest, CommandNewest
  DEF Next, Ingest, Finished

\* "stores latest locations in Redis" (redis_store.go:9): at every moment,
\* also while a stream stores and after a crash, no event is newer than the
\* hash of its driver, if no batch that erred runs later, Redis refuses no
\* command, and two streams never store locations of one driver at once.
\* A batch may be sent again, given up on or cut by a crash, the history may
\* fail, clients may go away, and hashes may expire.
THEOREM LatestIsKept ==
  ASSUME Faults \cap {"linger", "refuse"} = {}
  PROVE  Spec /\ []OneAtATime => []EventsBehind /\ []LatestIsNewest
<1>1. Init => NewestInv
  BY DEF Init, NewestInv, NewestHeld, HashIsCurrent, EventsBehind, Busy
<1>2. TypeOK /\ IngestInv /\ NewestInv /\ OneAtATime /\ OneAtATime' /\ [Next]_vars
        => NewestInv'
  BY NextNewest
<1>3. NewestInv => EventsBehind /\ LatestIsNewest
  BY DEF NewestInv, EventsBehind, LatestIsNewest
<1> QED BY <1>1, <1>2, <1>3, IngestTyped, IngestCorrect, PTL DEF Spec
=============================================================================
