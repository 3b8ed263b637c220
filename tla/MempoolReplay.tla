--------------------------- MODULE MempoolReplay ---------------------------
(***************************************************************************)
(* The replay engine (crates/replay): `MempoolState`, rebuilt by applying  *)
(* the events of the log one after the other, and its continuation from a  *)
(* checkpoint.  The state is a value and an event is an operator on it:    *)
(* CheckpointReplay and LivePipeline make variables of it.                 *)
(*                                                                         *)
(* An entry's sender and nonce are those of its hash or absent: `placed`   *)
(* says which.  `block_confirmations` is written and never read, and is    *)
(* left out.  The transitions that `apply_event` returns have no caller    *)
(* outside the tests.                                                      *)
(***************************************************************************)
EXTENDS SenderQueue

CONSTANT BlockHashes

\* `TxEntry` with its `TxLifecycleStatus`.
TxEntry ==
    [placed : BOOLEAN,
     status : {"pending", "replaced", "dropped", "provisional", "final"},
     block_hash : BlockHashes \cup {None},
     queue_state : QueueState \cup {None}]

\* What a frame shows of one place in a queue.
QueueEntry == [hash : Hashes, state : QueueState]

ASSUME ReplayAssumption == None \notin BlockHashes \cup TxEntry \cup QueueEntry

MempoolState ==
    [txs : [Hashes -> TxEntry \cup {None}],
     sender_queues : [Senders -> [Nonces -> Hashes \cup {None}]]]

\* An entry made for a hash whose sender and nonce no event has told yet.
UnplacedEntry ==
    [placed |-> FALSE, status |-> "pending", block_hash |-> None, queue_state |-> None]

EntryOf(m, h) == IF m.txs[h] = None THEN UnplacedEntry ELSE m.txs[h]

IsPending(m, h) == m.txs[h] # None /\ m.txs[h].status = "pending"

EmptyMempool == [txs |-> [h \in Hashes |-> None], sender_queues |-> NoQueues]

----------------------------------------------------------------------------
(* Sender queues *)

\* The nonces of a sender's queue that hold a pending transaction.
PendingNonces(m, s) ==
    {n \in Nonces : LET h == m.sender_queues[s][n] IN h # None /\ IsPending(m, h)}

EnsureSenderQueueEntry(m, h) ==
    [txs |-> [m.txs EXCEPT ![h] = [EntryOf(m, h) EXCEPT !.placed = TRUE,
                                                        !.status = "pending",
                                                        !.block_hash = None]],
     sender_queues |-> [m.sender_queues EXCEPT ![Tx[h].sender][Tx[h].nonce] = h]]

RemoveSenderQueueEntry(m, h) ==
    IF SlotOf(m.sender_queues, h) = h
    THEN [m EXCEPT !.sender_queues[Tx[h].sender][Tx[h].nonce] = None]
    ELSE m

\* Drop the slots of the sender that hold nothing pending and classify the rest.
RecomputeSenderQueueStates(m, s) ==
    LET occupied == PendingNonces(m, s)
        queue == m.sender_queues[s]
        stateIn(h) == LET n == CHOOSE k \in Nonces : queue[k] = h
                      IN  IF n \in occupied THEN QueueEntryState(occupied, n) ELSE None
    IN  [txs |-> [h \in Hashes |->
                    IF m.txs[h] # None /\ \E n \in Nonces : queue[n] = h
                    THEN [m.txs[h] EXCEPT !.queue_state = stateIn(h)]
                    ELSE m.txs[h]],
         sender_queues |-> [m.sender_queues EXCEPT ![s] =
                              [n \in Nonces |-> IF n \in occupied THEN queue[n] ELSE None]]]

\* The queue of h's sender after h was placed in it.
Placed(m, h) == RecomputeSenderQueueStates(EnsureSenderQueueEntry(m, h), Tx[h].sender)

\* The queue of h's sender after h left it, if h's sender is known.
Unqueued(m, h) ==
    IF m.txs[h].placed
    THEN RecomputeSenderQueueStates(RemoveSenderQueueEntry(m, h), Tx[h].sender)
    ELSE m

----------------------------------------------------------------------------
(* `apply_event`, one operator per payload *)

\* Faulty SetStatus: the sender and nonce of the entry are not kept.
SetStatusAfresh(m, h, status, block) ==
    [m EXCEPT !.txs[h] = [UnplacedEntry EXCEPT !.status = status, !.block_hash = block]]

SetStatus(m, h, status, block) ==
    [m EXCEPT !.txs[h] = [EntryOf(m, h) EXCEPT !.status = status,
                                               !.block_hash = block,
                                               !.queue_state = None]]

\* TxDecoded: whatever else is queued at the nonce was replaced by h.
ApplyDecoded(m, h) ==
    LET old == SlotOf(m.sender_queues, h)
        displaced == IF old # None /\ old # h /\ m.txs[old] # None
                     THEN SetStatus(m, old, "replaced", None)
                     ELSE m
    IN  Placed(displaced, h)

ApplyDropped(m, h) == Unqueued(SetStatus(m, h, "dropped", None), h)

\* TxReplaced: a hash without an entry gets none.
ApplyReplaced(m, h) ==
    IF m.txs[h] = None THEN m ELSE Unqueued(SetStatus(m, h, "replaced", None), h)

\* TxConfirmedProvisional and TxConfirmedFinal.
ApplyConfirmed(m, h, status, block) == Unqueued(SetStatus(m, h, status, block), h)

\* TxReorged: a confirmation in the old block is undone.
ApplyReorged(m, h, old_block) ==
    LET reopened == [m EXCEPT !.txs[h].status = "pending", !.txs[h].block_hash = None]
    IN  IF m.txs[h] = None \/ m.txs[h].block_hash # old_block THEN m
        ELSE IF m.txs[h].placed THEN Placed(reopened, h) ELSE reopened

ApplyReady(m, h) == [Placed(m, h) EXCEPT !.txs[h].queue_state = Ready]

\* TxBlocked: `expected` is None when the recorder did not say.
ApplyBlocked(m, h, expected) ==
    IF expected = None
    THEN Placed(m, h)
    ELSE [Placed(m, h) EXCEPT !.txs[h].queue_state = Blocked(expected)]

----------------------------------------------------------------------------
(* What a frame and a checkpoint show of the state *)

PendingHashes(m) == {h \in Hashes : IsPending(m, h)}

\* `sender_queues()`: the recorded state of a pending entry, else the computed.
SenderQueuesView(m) ==
    [s \in Senders |->
       [n \in Nonces |->
          IF n \notin PendingNonces(m, s) THEN None
          ELSE LET h == m.sender_queues[s][n]
                   recorded == m.txs[h].queue_state
               IN  [hash |-> h,
                    state |-> IF recorded # None THEN recorded
                              ELSE QueueEntryState(PendingNonces(m, s), n)]]]

Frame(m) == [pending |-> PendingHashes(m), sender_queues |-> SenderQueuesView(m)]

\* Faulty FromCheckpoint: the pending hashes are taken from the queues alone.
FromQueuesOnly(checkpoint) ==
    LET queues == checkpoint.sender_queues
        queued(h) == SlotOf(queues, h) # None /\ SlotOf(queues, h).hash = h
    IN  [txs |-> [h \in Hashes |->
                    IF queued(h) THEN [UnplacedEntry EXCEPT !.placed = TRUE] ELSE None],
         sender_queues |-> NoQueues]

\* `from_checkpoint` (and `from_pending_hashes` when no queue was stored): every
\* pending hash gets an unplaced entry first, and the queue entries only fill in
\* the hashes that have none.
FromCheckpoint(checkpoint) ==
    LET queues == checkpoint.sender_queues
        queued(h) == SlotOf(queues, h) # None /\ SlotOf(queues, h).hash = h
    IN  [txs |-> [h \in Hashes |->
                    IF h \in checkpoint.pending THEN UnplacedEntry
                    ELSE IF queued(h)
                    THEN [UnplacedEntry EXCEPT !.placed = TRUE,
                                               !.queue_state = SlotOf(queues, h).state]
                    ELSE None],
         sender_queues |-> [s \in Senders |->
                              [n \in Nonces |->
                                 IF queues[s][n] = None THEN None ELSE queues[s][n].hash]]]
=============================================================================
