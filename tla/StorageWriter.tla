--------------------------- MODULE StorageWriter ---------------------------
(***************************************************************************)
(* The single storage writer (crates/storage/src/lib.rs,                   *)
(* `spawn_single_writer`, `apply_write_op`, `flush_batch`), its write-ahead*)
(* log (crates/storage/src/wal.rs), the sequencer that numbers the events  *)
(* (crates/event-log/src/lib.rs) and the event part of `InMemoryStorage`.  *)
(*                                                                         *)
(* One process at a time runs the writer; it may be killed at any step and *)
(* started again on what the disk holds.  An event is its sequence id and  *)
(* a payload; payloads are numbered in the order the queue accepted them.  *)
(* Where two events have one sequence id, the index is ordered by source   *)
(* and hash, which may agree too, and have nothing to do with acceptance.  *)
(***************************************************************************)
EXTENDS Integers, Sequences, FiniteSets, SequencesExt

CONSTANTS
    MaxEvents,       \* bound: events accepted in all lives of the process
    QueueCapacity,   \* StorageWriterConfig::queue_capacity
    FlushBatchSize,  \* StorageWriterConfig::flush_batch_size
    EventCapacity,   \* StorageConfig::event_capacity
    SinkMayFail,     \* whether a flush to ClickHouse may return an error
    DiskMayFail,     \* whether a WAL write or removal may return an error
    MayCrash,        \* whether the process may be killed
    SourceAndHash,   \* the rest of the order key of a payload: source_id, primary_hash
    None

Event == [seq_id : Nat, payload : 1..MaxEvents]

ASSUME WriterAssumption ==
    /\ MaxEvents \in Nat
    /\ QueueCapacity \in Nat \ {0}
    /\ FlushBatchSize \in Nat \ {0}
    /\ EventCapacity \in Nat \ {0}
    /\ {SinkMayFail, DiskMayFail, MayCrash} \subseteq BOOLEAN
    /\ SourceAndHash \in [1..MaxEvents -> Nat]
    /\ None \notin Event

VARIABLES
    phase,        \* "down", "idle", "flushing", "clearing" or "ended"
    closed,       \* every StorageWriteHandle has been dropped
    queue,        \* the mpsc channel: payloads, or Upsert for the other ops
    next_seq_id,  \* GlobalSequencer
    events,       \* InMemoryStorage::events, oldest first
    event_index,  \* InMemoryStorage::event_index, in deterministic order
    batch,        \* events not yet handed to the sink
    flushing,     \* the batch the sink is being given
    wal,          \* the segment files, oldest first, each a sequence of lines
    sink,         \* what ClickHouse has stored, in order of arrival
    unanswered,   \* batches given up without an answer that ClickHouse may yet store
    accepted,     \* history: number of events accepted by the queue
    life_start,   \* history: the value of accepted when this process started
    abandoned,    \* history: events of a failed flush or recovered at a start
    wal_intact    \* history: no append failed since the log was last empty

memory_vars == <<next_seq_id, events, event_index, batch>>
sink_vars == <<sink, unanswered>>
vars == <<phase, closed, queue, memory_vars, flushing, wal, sink_vars, accepted,
          life_start, abandoned, wal_intact>>

\* The queue entry of an op that carries no event.
Upsert == 0

----------------------------------------------------------------------------
(* The read model's event ring *)

\* `cmp_deterministic`.
Before(d, e) ==
    \/ d.seq_id < e.seq_id
    \/ /\ d.seq_id = e.seq_id
       /\ SourceAndHash[d.payload] < SourceAndHash[e.payload]

\* At the end unless the last event comes after e, and then before the first one
\* that does not come before e.
InsertSorted(index, e) ==
    LET k == IF index = <<>> \/ ~Before(e, Last(index))
             THEN Len(index)
             ELSE Cardinality({i \in DOMAIN index : Before(index[i], e)})
    IN  InsertAt(index, k + 1, e)

\* `append_event`: ring and index get the event; beyond the capacity the oldest
\* event of the ring leaves both.
StoreEvent(store, e) ==
    LET ring == Append(store.events, e)
        index == InsertSorted(store.event_index, e)
    IN  IF Len(ring) > EventCapacity
        THEN [events |-> Tail(ring), event_index |-> RemoveFirst(index, Head(ring))]
        ELSE [events |-> ring, event_index |-> index]

\* A fresh store to which the recovered events are appended one by one.
StoreAll(recovered) ==
    LET store[n \in 0..Len(recovered)] ==
          IF n = 0 THEN [events |-> <<>>, event_index |-> <<>>]
                   ELSE StoreEvent(store[n - 1], recovered[n])
    IN  store[Len(recovered)]

\* Faulty LatestSeqId: the oldest id.
OldestSeqId(index) == IF index = <<>> THEN 0 ELSE Head(index).seq_id

LatestSeqId(index) == IF index = <<>> THEN 0 ELSE Last(index).seq_id

----------------------------------------------------------------------------
(* The log.  A line is [event, ended]: the record it decodes to (None if it *)
(* does not decode) and whether its newline was written.                    *)

Line == [event : Event \cup {None}, ended : BOOLEAN]

\* What one `writeln!` leaves in the file: record and newline are two writes, and
\* each may be cut short by an error or by the end of the process.
WrittenAs(e, outcome) ==
    CASE outcome = "complete" -> <<[event |-> e, ended |-> TRUE]>>
      [] outcome = "unterminated" -> <<[event |-> e, ended |-> FALSE]>>
      [] outcome = "torn" -> <<[event |-> None, ended |-> FALSE]>>
      [] outcome = "nothing" -> <<>>

\* Appending to a file whose last line has no newline makes one undecodable line.
AppendToSegment(segment, written) ==
    IF written # <<>> /\ segment # <<>> /\ ~Last(segment).ended
    THEN Front(segment) \o <<[event |-> None, ended |-> written[1].ended]>>
    ELSE segment \o written

\* The logs an append may lead to.  Sizes are not modelled: any segment with
\* something in it may have reached segment_max_bytes, and then a new one is begun.
LogsAfter(e, outcome) ==
    LET written == WrittenAs(e, outcome)
        fresh == Append(wal, written)
    IN  IF wal = <<>> THEN {fresh}
        ELSE LET same == [wal EXCEPT ![Len(wal)] = AppendToSegment(@, written)]
             IN  IF Last(wal) = <<>> THEN {same} ELSE {same, fresh}

LogLines == UNION {Range(wal[i]) : i \in DOMAIN wal}

\* The complete records in the log.
LogEvents == {line.event : line \in LogLines} \ {None}

\* `recover_events` fails as a whole on one line that does not decode.
Recoverable == \A line \in LogLines : line.event # None

\* Faulty RecoverEvents: only the active segment is read.
RecoverLastSegment ==
    IF wal = <<>> THEN <<>> ELSE [i \in DOMAIN Last(wal) |-> Last(wal)[i].event]

\* All records of all segments, stably sorted by sequence id: a record has its place
\* after those with a smaller id, and after those with the same id before it.
RecoverEvents ==
    LET places == UNION {{i} \X DOMAIN wal[i] : i \in DOMAIN wal}
        record(p) == wal[p[1]][p[2]].event
        sooner(p, q) == \/ record(p).seq_id < record(q).seq_id
                        \/ /\ record(p).seq_id = record(q).seq_id
                           /\ p[1] < q[1] \/ (p[1] = q[1] /\ p[2] < q[2])
        rank(p) == Cardinality({q \in places : sooner(q, p)}) + 1
    IN  [k \in 1..Cardinality(places) |-> record(CHOOSE p \in places : rank(p) = k)]

----------------------------------------------------------------------------
Init ==
    /\ phase = "down"
    /\ closed = TRUE
    /\ queue = <<>>
    /\ next_seq_id = 1
    /\ events = <<>>
    /\ event_index = <<>>
    /\ batch = <<>>
    /\ flushing = <<>>
    /\ wal = <<>>
    /\ sink = <<>>
    /\ unanswered = {}
    /\ accepted = 0
    /\ life_start = 0
    /\ abandoned = {}
    /\ wal_intact = TRUE

\* `spawn_single_writer`: fill a fresh store from the log (or from nothing if
\* recovery fails), continue the numbering after it, open the channel.  The
\* recovered events are not put in a batch.
Start ==
    /\ phase = "down"
    /\ LET recovered == IF Recoverable THEN RecoverEvents ELSE <<>>
           store == StoreAll(recovered)
       IN  /\ events' = store.events
           /\ event_index' = store.event_index
           /\ next_seq_id' = LatestSeqId(store.event_index) + 1
    /\ abandoned' = abandoned \cup LogEvents
    /\ phase' = "idle"
    /\ closed' = FALSE
    /\ life_start' = accepted
    /\ UNCHANGED <<queue, batch, flushing, wal, sink_vars, accepted, wal_intact>>

\* `enqueue` and `try_enqueue` of AppendEvent or AppendPayload; on a full queue
\* the latter returns QueueFull and changes nothing.
EnqueueEvent ==
    /\ ~closed
    /\ Len(queue) < QueueCapacity
    /\ accepted < MaxEvents
    /\ queue' = Append(queue, accepted + 1)
    /\ accepted' = accepted + 1
    /\ UNCHANGED <<phase, closed, memory_vars, flushing, wal, sink_vars, life_start,
                   abandoned, wal_intact>>

\* The same for an op that only updates a projection; it shares the queue.
EnqueueUpsert ==
    /\ ~closed
    /\ Len(queue) < QueueCapacity
    /\ queue' = Append(queue, Upsert)
    /\ UNCHANGED <<phase, closed, memory_vars, flushing, wal, sink_vars, accepted,
                   life_start, abandoned, wal_intact>>

Close ==
    /\ ~closed
    /\ closed' = TRUE
    /\ UNCHANGED <<phase, queue, memory_vars, flushing, wal, sink_vars, accepted,
                   life_start, abandoned, wal_intact>>

----------------------------------------------------------------------------
(* The writer task *)

NextEvent == [seq_id |-> next_seq_id, payload |-> Head(queue)]

AppendOutcomes ==
    IF DiskMayFail THEN {"complete", "unterminated", "torn", "nothing"} ELSE {"complete"}

\* Take the batch for the sink.
BeginFlush(events_to_flush) ==
    /\ flushing' = events_to_flush
    /\ batch' = <<>>
    /\ phase' = "flushing"

\* `apply_write_op` on an event: number it, log it (an error is only reported),
\* store it, batch it; a full batch is flushed at once.
ApplyEvent(outcome) ==
    /\ phase = "idle"
    /\ queue # <<>>
    /\ Head(queue) # Upsert
    /\ wal' \in LogsAfter(NextEvent, outcome)
    /\ wal_intact' = (wal_intact /\ outcome = "complete")
    /\ LET store == StoreEvent([events |-> events, event_index |-> event_index], NextEvent)
           grown == Append(batch, NextEvent)
       IN  /\ events' = store.events
           /\ event_index' = store.event_index
           /\ IF Len(grown) >= FlushBatchSize
              THEN BeginFlush(grown)
              ELSE batch' = grown /\ UNCHANGED <<flushing, phase>>
    /\ next_seq_id' = next_seq_id + 1
    /\ queue' = Tail(queue)
    /\ UNCHANGED <<closed, sink_vars, accepted, life_start, abandoned>>

ApplyUpsert ==
    /\ phase = "idle"
    /\ queue # <<>>
    /\ Head(queue) = Upsert
    /\ queue' = Tail(queue)
    /\ UNCHANGED <<phase, closed, memory_vars, flushing, wal, sink_vars, accepted,
                   life_start, abandoned, wal_intact>>

\* Faulty Tick: the log is cleared before the sink has the batch.
TickClearingFirst ==
    /\ phase = "idle"
    /\ batch # <<>>
    /\ BeginFlush(batch)
    /\ wal' = <<>>
    /\ UNCHANGED <<closed, queue, next_seq_id, events, event_index, sink_vars,
                   accepted, life_start, abandoned, wal_intact>>

\* Faulty Tick: only full batches are flushed.
TickFullBatches ==
    /\ phase = "idle"
    /\ Len(batch) >= FlushBatchSize
    /\ BeginFlush(batch)
    /\ UNCHANGED <<closed, queue, next_seq_id, events, event_index, wal, sink_vars,
                   accepted, life_start, abandoned, wal_intact>>

\* The interval ticker fires.
Tick ==
    /\ phase = "idle"
    /\ batch # <<>>
    /\ BeginFlush(batch)
    /\ UNCHANGED <<closed, queue, next_seq_id, events, event_index, wal, sink_vars,
                   accepted, life_start, abandoned, wal_intact>>

\* Faulty Finish: the last batch is not flushed.
FinishWithoutFlush ==
    /\ phase = "idle"
    /\ closed
    /\ queue = <<>>
    /\ phase' = "ended"
    /\ batch' = <<>>
    /\ UNCHANGED <<closed, queue, next_seq_id, events, event_index, flushing, wal,
                   sink_vars, accepted, life_start, abandoned, wal_intact>>

\* Faulty Finish: the closed channel does not end the loop.
FinishNever ==
    /\ phase = "idle"
    /\ closed
    /\ queue = <<>>
    /\ UNCHANGED vars

\* The channel is closed and drained: a last flush, then the task ends.
Finish ==
    /\ phase = "idle"
    /\ closed
    /\ queue = <<>>
    /\ IF batch # <<>> THEN BeginFlush(batch)
                       ELSE phase' = "ended" /\ UNCHANGED <<batch, flushing>>
    /\ UNCHANGED <<closed, queue, next_seq_id, events, event_index, wal, sink_vars,
                   accepted, life_start, abandoned, wal_intact>>

FlushSucceeds ==
    /\ phase = "flushing"
    /\ sink' = sink \o flushing
    /\ flushing' = <<>>
    /\ phase' = "clearing"
    /\ UNCHANGED <<closed, queue, memory_vars, wal, unanswered, accepted, life_start,
                   abandoned, wal_intact>>

\* The client no longer waits for the INSERT of the batch, which may be under way.
GiveUp == unanswered' = unanswered \cup ({flushing} \ {<<>>})

\* Faulty FlushFails: the batch is kept and sent again.
FlushRetried ==
    /\ SinkMayFail
    /\ phase = "flushing"
    /\ GiveUp
    /\ batch' = flushing
    /\ flushing' = <<>>
    /\ phase' = "idle"
    /\ UNCHANGED <<closed, queue, next_seq_id, events, event_index, wal, sink,
                   accepted, life_start, abandoned, wal_intact>>

\* An error or the client's timeout of five seconds: the batch is gone, the log
\* stays, and the writer goes on with the next one.
FlushFails ==
    /\ SinkMayFail
    /\ phase = "flushing"
    /\ GiveUp
    /\ abandoned' = abandoned \cup Range(flushing)
    /\ flushing' = <<>>
    /\ phase' = "idle"
    /\ UNCHANGED <<closed, queue, memory_vars, wal, sink, accepted, life_start,
                   wal_intact>>

\* ClickHouse stores a batch whose answer nobody waits for: at once, after later
\* batches, or when the process that sent it is gone.
LateInsert(rows) ==
    /\ sink' = sink \o rows
    /\ unanswered' = unanswered \ {rows}
    /\ UNCHANGED <<phase, closed, queue, memory_vars, flushing, wal, accepted,
                   life_start, abandoned, wal_intact>>

\* `clear` removes the segments one by one, oldest first.
ClearSegment ==
    /\ phase = "clearing"
    /\ wal # <<>>
    /\ wal' = Tail(wal)
    /\ UNCHANGED <<phase, closed, queue, memory_vars, flushing, sink_vars, accepted,
                   life_start, abandoned, wal_intact>>

ClearDone ==
    /\ phase = "clearing"
    /\ wal = <<>>
    /\ wal_intact' = TRUE
    /\ phase' = "idle"
    /\ UNCHANGED <<closed, queue, memory_vars, flushing, wal, sink_vars, accepted,
                   life_start, abandoned>>

\* A segment cannot be removed: the rest of the log stays.
ClearFails ==
    /\ DiskMayFail
    /\ phase = "clearing"
    /\ wal # <<>>
    /\ phase' = "idle"
    /\ UNCHANGED <<closed, queue, memory_vars, flushing, wal, sink_vars, accepted,
                   life_start, abandoned, wal_intact>>

----------------------------------------------------------------------------
(* The end of the process *)

LoseMemory ==
    /\ phase' = "down"
    /\ closed' = TRUE
    /\ queue' = <<>>
    /\ next_seq_id' = 1
    /\ events' = <<>>
    /\ event_index' = <<>>
    /\ batch' = <<>>
    /\ flushing' = <<>>
    /\ UNCHANGED <<accepted, life_start, abandoned>>

\* Killed anywhere; a batch on its way has no one left to wait for it.
Crash ==
    /\ MayCrash
    /\ phase # "down"
    /\ LoseMemory
    /\ GiveUp
    /\ UNCHANGED <<wal, sink, wal_intact>>

\* Killed during the append of an event.
CrashInAppend(outcome) ==
    /\ MayCrash
    /\ phase = "idle"
    /\ queue # <<>>
    /\ Head(queue) # Upsert
    /\ LoseMemory
    /\ wal' \in LogsAfter(NextEvent, outcome)
    /\ wal_intact' = (wal_intact /\ outcome = "complete")
    /\ UNCHANGED sink_vars

Exit ==
    /\ phase = "ended"
    /\ LoseMemory
    /\ UNCHANGED <<wal, sink_vars, wal_intact>>

----------------------------------------------------------------------------
Producers == EnqueueEvent \/ EnqueueUpsert \/ Close

Writer ==
    \/ \E outcome \in AppendOutcomes : ApplyEvent(outcome)
    \/ ApplyUpsert
    \/ Finish
    \/ FlushSucceeds
    \/ FlushFails
    \/ ClearSegment
    \/ ClearDone
    \/ ClearFails

Process ==
    \/ Start
    \/ Crash
    \/ \E outcome \in {"complete", "unterminated", "torn"} : CrashInAppend(outcome)
    \/ Exit

Sink == \E rows \in unanswered : LateInsert(rows)

Next == Producers \/ Writer \/ Tick \/ Process \/ Sink

Spec == Init /\ [][Next]_vars

\* The writer task is scheduled, the sink answers within the client's timeout of
\* five seconds, and the ticker's branch of the select is not starved.
FairSpec == Spec /\ WF_vars(Writer) /\ WF_vars(Tick)

----------------------------------------------------------------------------
(* Properties *)

\* The cursor reads (`scan_events`, `latest_seq_id`) use the sorted index while
\* eviction follows the ring: after any mix of recovery, appends and evictions
\* they hold the same events, and the index is sorted.
IndexIsSortedRing ==
    /\ Len(event_index) = Len(events)
    /\ Range(event_index) = Range(events)
    /\ \A i \in 1..Len(event_index) - 1 : ~Before(event_index[i + 1], event_index[i])

Payloads(s) == {s[i].payload : i \in DOMAIN s}

\* ClickHouse stores no event twice, and it stores the rows of a batch in the order
\* the queue accepted them and after everything accepted before them, across failed
\* flushes, restarts and recoveries: only a batch that was given up unanswered may
\* come after a younger one.
SinkInOrder ==
    [][sink' # sink =>
         \E rows \in unanswered \cup {flushing} :
             /\ sink' = sink \o rows
             /\ \A i, j \in DOMAIN rows : i < j => rows[i].payload < rows[j].payload
             /\ Payloads(rows) \cap Payloads(sink) = {}
             /\ \/ rows \in unanswered
                \/ \A m \in Payloads(sink), n \in Payloads(rows) : m < n]_vars

\* While the process lives, every event its queue accepted is still waiting, in
\* the batch, on its way, stored by the sink or part of a flush that failed; so
\* when the task has ended after Close, every event was offered to the sink.
NothingUnaccounted ==
    phase # "down" =>
        (life_start + 1)..accepted \subseteq
            Range(queue) \cup Payloads(batch) \cup Payloads(flushing) \cup Payloads(sink)
              \cup {e.payload : e \in abandoned}

\* A record leaves the log only after the sink has stored its event, unless its
\* flush failed or it was recovered at an earlier start.
LoggedUntilDelivered ==
    [][wal_intact =>
         \A e \in LogEvents \ LogEvents' : e.payload \in Payloads(sink) \/ e \in abandoned]_vars

\* The numbering stays ahead of every event that memory or log holds, also after
\* a restart on a partly cleared log: no two of them share a sequence id.
IdsAhead ==
    /\ phase # "down" => \A e \in Range(events) : e.seq_id < next_seq_id
    /\ wal_intact => /\ phase # "down" => \A e \in LogEvents : e.seq_id < next_seq_id
                     /\ \A d, e \in LogEvents : d.seq_id = e.seq_id => d = e

\* A running process serves every event of an intact log from memory, through an
\* index that agrees with the ring, or holds EventCapacity younger ones.
ReadModelCoversLog ==
    /\ IndexIsSortedRing
    /\ wal_intact /\ phase # "down" =>
          \A e \in LogEvents \ Range(event_index) :
              Cardinality({d \in Range(event_index) : d.seq_id > e.seq_id}) = EventCapacity

\* Dropping the last handle makes the writer drain the queue, flush and end,
\* unless the process is killed.
ShutdownCompletes == (closed /\ phase # "down") ~> (phase \in {"ended", "down"})

\* An event does not wait in the batch for ever: the ticker flushes it.
BatchIsFlushed == (batch # <<>>) ~> (batch = <<>>)

\* wal_recovery.rs, `writer_recovers_unflushed_events_from_wal_on_restart`: as long
\* as appends succeed, an event the writer has stored and the sink never got is
\* in the log that the next start recovers.
UnflushedIsRecoverable ==
    wal_intact => \A e \in abandoned \cup Range(events) :
        e.payload \in Payloads(sink) \/ e \in LogEvents
=============================================================================
