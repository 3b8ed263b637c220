-------------------------- MODULE DashboardStream --------------------------
(***************************************************************************)
(* The dashboard's event stream: the producer task that turns stored       *)
(* events into deltas, the broadcaster with its replay window              *)
(* (crates/viz-api/src/stream_broadcast.rs) and one subscriber of          *)
(* `/dashboard/events-v1` (crates/viz-api/src/lib.rs), which takes a       *)
(* snapshot, connects, loses the connection and resumes from the id of the *)
(* last frame it got, as an EventSource does.                              *)
(*                                                                         *)
(* An event either concerns a transaction the dashboard shows ("tx") or    *)
(* not ("other"); its sequence id is its position.  A delta is known by    *)
(* the ids of its transactions.                                            *)
(***************************************************************************)
EXTENDS Integers, Sequences, FiniteSets

CONSTANTS
    MaxEvents,        \* bound: events stored
    MaxConnections,   \* bound: connections of the subscriber
    EventCapacity,    \* events the storage ring keeps
    ScanLimit,        \* events scanned per tick
    PageLimit,        \* transactions per delta
    SnapshotLimit,    \* transactions of a snapshot: its tx_limit, or what storage keeps
    ReplayCapacity,   \* deltas in the replay window
    ChannelCapacity   \* deltas buffered for a receiver

ASSUME StreamAssumption ==
    /\ {MaxEvents, MaxConnections} \subseteq Nat
    /\ {EventCapacity, ScanLimit, PageLimit, SnapshotLimit, ReplayCapacity, ChannelCapacity}
         \subseteq Nat \ {0}

VARIABLES
    events,          \* storage: the kind of every event stored
    producer,        \* the producer task
    replay,          \* the replay window
    latest_seq_id,   \* the broadcaster's watermark
    client,          \* the connection, its receiver and what the subscriber knows
    excused          \* history: transactions that slipped through a known window

stream_vars == <<events, producer, replay, latest_seq_id, client, excused>>

MaxOf(m, n) == IF m > n THEN m ELSE n
TxIds(from, to) == {i \in from..to : i \in DOMAIN events /\ events[i] = "tx"}

NoDelta == [since |-> 0, seq |-> 0, txs |-> {}, has_gap |-> FALSE]

\* The transactions a delta stands for: those it tells, and those evicted before it
\* could, for which its gap is flagged.
Subject(d) == TxIds(d.since + 1, d.seq)

StreamInit ==
    /\ events = <<>>
    /\ producer = [pc |-> "tick", after |-> 0, delta |-> NoDelta]
    /\ replay = <<>>
    /\ latest_seq_id = 0
    /\ client = [pc |-> "new", cursor |-> 0, pending |-> <<>>, queue |-> <<>>,
                 lagged |-> FALSE, known |-> {}, resync |-> 0, connections |-> 0]
    /\ excused = {}

StoreEvent ==
    /\ Len(events) < MaxEvents
    /\ \E kind \in {"tx", "other"} : events' = Append(events, kind)
    /\ UNCHANGED <<producer, replay, latest_seq_id, client, excused>>

----------------------------------------------------------------------------
(* The producer *)

Oldest == MaxOf(1, Len(events) - EventCapacity + 1)

\* The ids a scan after `after` returns: the first ScanLimit that are left.
ScanStart(after) == MaxOf(after + 1, Oldest)
ScanEnd(after) ==
    LET start == ScanStart(after)
    IN  IF start + ScanLimit - 1 > Len(events) THEN Len(events) ELSE start + ScanLimit - 1

\* A gap is flagged when events were evicted since the last delta, or when the
\* page overflows.
HasGap(after, txs) ==
    \/ after > 0 /\ ScanStart(after) > after + 1
    \/ Cardinality(txs) > PageLimit

\* `build_dashboard_events_v1_dispatch` finds something to tell.  At the very
\* first scan an eviction goes unnoticed.
BuildDispatch ==
    LET start == ScanStart(producer.after)
        end == ScanEnd(producer.after)
        txs == TxIds(start, end)
    IN
    /\ producer.pc = "tick"
    /\ txs # {}
    /\ producer' = [pc |-> "watermark", after |-> end,
                    delta |-> [since |-> producer.after, seq |-> end, txs |-> txs,
                               has_gap |-> HasGap(producer.after, txs)]]
    /\ excused' = IF producer.after = 0 THEN excused \cup TxIds(1, start - 1) ELSE excused
    /\ UNCHANGED <<events, replay, latest_seq_id, client>>

\* It finds nothing: no event, or none to tell.
BuildNothing ==
    /\ producer.pc = "tick"
    /\ TxIds(ScanStart(producer.after), ScanEnd(producer.after)) = {}
    /\ producer' = [producer EXCEPT !.pc = "skip"]
    /\ UNCHANGED <<events, replay, latest_seq_id, client, excused>>

\* Faulty SkipToLatest: the producer stays where it is.
SkipNothing ==
    /\ producer.pc = "skip"
    /\ producer' = [producer EXCEPT !.pc = "tick"]
    /\ UNCHANGED <<events, replay, latest_seq_id, client, excused>>

\* It goes on after the latest event: what was stored since the scan, was beyond
\* its limit, or was evicted before it, is never told.
SkipToLatest ==
    /\ producer.pc = "skip"
    /\ producer' = [producer EXCEPT !.pc = "tick", !.after = MaxOf(@, Len(events))]
    /\ excused' = excused \cup TxIds(producer.after + 1, Len(events))
    /\ UNCHANGED <<events, replay, latest_seq_id, client>>

\* `publish_event`, first step: the watermark.
PublishWatermark ==
    /\ producer.pc = "watermark"
    /\ latest_seq_id' = MaxOf(latest_seq_id, producer.delta.seq)
    /\ producer' = [producer EXCEPT !.pc = "replay"]
    /\ UNCHANGED <<events, replay, client, excused>>

\* Second step: the replay window.
PushReplay ==
    /\ producer.pc = "replay"
    /\ replay' = Append(IF Len(replay) >= ReplayCapacity THEN Tail(replay) ELSE replay,
                        producer.delta)
    /\ producer' = [producer EXCEPT !.pc = "send"]
    /\ UNCHANGED <<events, latest_seq_id, client, excused>>

\* Whoever has subscribed: waiting, or about to read the watermark for a keepalive
\* or for the reset of a receiver that lagged.
Subscribed == client.pc \in {"on", "beat", "lag"}

InPending(delta) ==
    \E i \in DOMAIN client.pending :
        client.pending[i].event = "delta" /\ client.pending[i].delta = delta

\* Third step: the broadcast.  A full receiver loses its oldest delta and is told
\* that it lags.  Who has copied the window and not subscribed yet misses it; who is
\* about to send a keepalive will send the watermark ahead of it.
BroadcastSend ==
    LET queue == Append(client.queue, producer.delta) IN
    /\ producer.pc = "send"
    /\ producer' = [producer EXCEPT !.pc = "tick"]
    /\ CASE ~Subscribed -> UNCHANGED client
         [] Subscribed /\ Len(queue) <= ChannelCapacity ->
              client' = [client EXCEPT !.queue = queue]
         [] Subscribed /\ Len(queue) > ChannelCapacity ->
              client' = [client EXCEPT !.queue = Tail(queue), !.lagged = TRUE]
    /\ excused' = IF client.pc = "beat" \/ (client.pc = "copied" /\ ~InPending(producer.delta))
                  THEN excused \cup Subject(producer.delta) ELSE excused
    /\ UNCHANGED <<events, replay, latest_seq_id>>

----------------------------------------------------------------------------
(* The subscriber *)

Delta(d) == [event |-> "delta", id |-> d.seq, delta |-> d]
Reset(id) == [event |-> "reset", id |-> id, delta |-> NoDelta]

\* The transactions of `/dashboard/snapshot-v2`: the newest ones, up to its limit.
Snapshot ==
    {i \in TxIds(1, Len(events)) : Cardinality(TxIds(i, Len(events))) <= SnapshotLimit}

\* The subscriber's first state.  What the snapshot is too short for is never told.
Bootstrap ==
    /\ client.pc = "new"
    /\ client' = [client EXCEPT !.pc = "off", !.cursor = Len(events), !.known = Snapshot]
    /\ excused' = excused \cup (TxIds(1, Len(events)) \ Snapshot)
    /\ UNCHANGED <<events, producer, replay, latest_seq_id>>

\* The snapshot a reset made the subscriber ask for has come.
Resync ==
    /\ client.resync > 0
    /\ client' = [client EXCEPT !.resync = 0, !.known = @ \cup Snapshot]
    /\ excused' = excused \cup (TxIds(1, client.resync) \ Snapshot)
    /\ UNCHANGED <<events, producer, replay, latest_seq_id>>

\* The deltas of the window after `after`.  The window is in the order of its ids,
\* so that what the filter keeps is what follows those it drops.
Later(after) ==
    LET dropped == Cardinality({i \in DOMAIN replay : replay[i].seq <= after})
    IN  [i \in 1..(Len(replay) - dropped) |-> Delta(replay[dropped + i])]

\* Faulty InitialEvents: whatever is left of the window, without a gap check.
InitialWithoutReset(after) == Later(after)

\* `subscribe_from`: the deltas after the cursor, or a reset when the window
\* starts too late.
InitialEvents(after) ==
    IF replay # <<>> /\ after > 0 /\ replay[1].seq > after + 1
    THEN <<Reset(MaxOf(latest_seq_id, replay[1].seq))>>
    ELSE Later(after)

\* A cursor of 0 is never checked for a gap.
Connect ==
    /\ client.pc = "off"
    /\ client.connections < MaxConnections
    /\ client' = [client EXCEPT !.pc = "copied", !.connections = @ + 1,
                                !.pending = InitialEvents(client.cursor)]
    /\ excused' = IF client.cursor = 0 /\ replay # <<>>
                  THEN excused \cup (TxIds(1, replay[1].seq) \ replay[1].txs) ELSE excused
    /\ UNCHANGED <<events, producer, replay, latest_seq_id>>

\* ... and then the receiver.
Subscribe ==
    /\ client.pc = "copied"
    /\ client' = [client EXCEPT !.pc = "on", !.queue = <<>>, !.lagged = FALSE]
    /\ UNCHANGED <<events, producer, replay, latest_seq_id, excused>>

\* The frame of a delta: a flagged gap is sent as a reset.
FrameOf(event) ==
    IF event.event = "delta" /\ event.delta.has_gap THEN Reset(event.id) ELSE event

\* A delta adds its transactions; a reset makes the subscriber ask for a snapshot,
\* which is to tell it everything up to the reset's id.
Receive(frame, rest) ==
    /\ client' = [rest EXCEPT !.cursor = frame.id,
                              !.known = @ \cup frame.delta.txs,
                              !.resync = IF frame.event = "reset" THEN MaxOf(@, frame.id) ELSE @]
    /\ UNCHANGED <<events, producer, replay, latest_seq_id, excused>>

SendPending ==
    /\ client.pc = "on"
    /\ client.pending # <<>>
    /\ Receive(FrameOf(Head(client.pending)), [client EXCEPT !.pending = Tail(@)])

SendLive ==
    /\ client.pc = "on"
    /\ client.pending = <<>>
    /\ ~client.lagged
    /\ client.queue # <<>>
    /\ Receive(FrameOf(Delta(Head(client.queue))), [client EXCEPT !.queue = Tail(@)])

\* The receiver says that it lost deltas; the watermark is read after that.
ReceiveLagged ==
    /\ client.pc = "on"
    /\ client.pending = <<>>
    /\ client.lagged
    /\ client' = [client EXCEPT !.pc = "lag", !.lagged = FALSE]
    /\ UNCHANGED <<events, producer, replay, latest_seq_id, excused>>

SendLag ==
    /\ client.pc = "lag"
    /\ Receive(Reset(latest_seq_id), [client EXCEPT !.pc = "on"])

\* Nothing came for a heartbeat interval; the watermark is read after that.
HeartbeatFires ==
    /\ client.pc = "on"
    /\ client.pending = <<>>
    /\ ~client.lagged
    /\ client.queue = <<>>
    /\ client' = [client EXCEPT !.pc = "beat"]
    /\ UNCHANGED <<events, producer, replay, latest_seq_id, excused>>

\* The frame carries the watermark, which is ahead of a delta that is being published
\* and of those that were broadcast since the heartbeat.
SendKeepalive ==
    /\ client.pc = "beat"
    /\ client' = [client EXCEPT !.pc = "on", !.cursor = latest_seq_id]
    /\ excused' = IF producer.pc \in {"replay", "send"}
                  THEN excused \cup Subject(producer.delta) ELSE excused
    /\ UNCHANGED <<events, producer, replay, latest_seq_id>>

Disconnect ==
    /\ Subscribed
    /\ client.connections < MaxConnections
    /\ client' = [client EXCEPT !.pc = "off", !.pending = <<>>, !.queue = <<>>]
    /\ UNCHANGED <<events, producer, replay, latest_seq_id, excused>>

Produce ==
    \/ BuildDispatch \/ BuildNothing \/ SkipToLatest
    \/ PublishWatermark \/ PushReplay \/ BroadcastSend

Stream ==
    \/ Connect \/ Subscribe
    \/ SendPending \/ SendLive \/ ReceiveLagged \/ SendLag \/ SendKeepalive

StreamNext ==
    \/ StoreEvent
    \/ Produce
    \/ Bootstrap
    \/ Resync
    \/ Stream
    \/ HeartbeatFires
    \/ Disconnect

\* The producer's ticker never ends, the server polls a stream whose client reads, it
\* answers the requests for snapshots, and an EventSource reconnects by itself.
StreamSpec ==
    /\ StreamInit
    /\ [][StreamNext]_stream_vars
    /\ WF_stream_vars(Produce)
    /\ WF_stream_vars(Bootstrap)
    /\ WF_stream_vars(Resync)
    /\ WF_stream_vars(Stream)

----------------------------------------------------------------------------
(* Properties *)

\* A subscriber that resumes from its cursor has been told every transaction up to it,
\* by deltas or by the snapshot after a reset, once that has come, with exactly six
\* exceptions: a transaction that an empty scan did not cover and the look at the
\* latest id skipped, one evicted before the first scan, one older than what a
\* snapshot shows, a delta broadcast between the copy of the window and the
\* subscription, one whose watermark a keepalive has sent ahead of it or could, having
\* been broadcast between the heartbeat and the reading of the watermark (each with
\* what was evicted before it: its gap would have made the subscriber reload), and
\* what the window has lost for a cursor 0.
MissedOnlyInWindows ==
    client.pc # "new" /\ client.resync = 0
        => TxIds(1, client.cursor) \subseteq client.known \cup excused

\* Every stored transaction is told to the subscriber in the end, except in the
\* windows of MissedOnlyInWindows.
EventuallyTold ==
    \A i \in 1..MaxEvents :
        i \in TxIds(1, MaxEvents) ~> i \in client.known \cup excused
=============================================================================
