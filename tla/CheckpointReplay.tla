-------------------------- MODULE CheckpointReplay --------------------------
(***************************************************************************)
(* A log replayed in full (`replay_deterministic`) beside a replay of the  *)
(* same log resumed from a checkpoint of it (`replay_from_checkpoint`).    *)
(* The events come in any order and number: storage writes that are        *)
(* dropped, and workers that interleave, leave such logs behind.           *)
(***************************************************************************)
EXTENDS MempoolReplay

VARIABLES
    full,     \* the state after all events so far
    resumed,  \* None, or the state continued from the checkpoint taken
    reorged,  \* history: a reorg was read after the checkpoint
    claimed   \* history: the log holds queue states told by its recorder

replay_vars == <<full, resumed, reorged, claimed>>

ReplayInit ==
    /\ full = EmptyMempool
    /\ resumed = None
    /\ reorged = FALSE
    /\ claimed = FALSE

\* Both replays read the next event of the log.
Advance(next_full, next_resumed) ==
    /\ full' = next_full
    /\ resumed' = IF resumed = None THEN None ELSE next_resumed

Decoded(h) ==
    /\ Advance(ApplyDecoded(full, h), ApplyDecoded(resumed, h))
    /\ UNCHANGED <<reorged, claimed>>

Dropped(h) ==
    /\ Advance(ApplyDropped(full, h), ApplyDropped(resumed, h))
    /\ UNCHANGED <<reorged, claimed>>

Replaced(h) ==
    /\ Advance(ApplyReplaced(full, h), ApplyReplaced(resumed, h))
    /\ UNCHANGED <<reorged, claimed>>

Confirmed(h, status, block) ==
    /\ Advance(ApplyConfirmed(full, h, status, block), ApplyConfirmed(resumed, h, status, block))
    /\ UNCHANGED <<reorged, claimed>>

Reorged(h, block) ==
    /\ Advance(ApplyReorged(full, h, block), ApplyReorged(resumed, h, block))
    /\ reorged' = (reorged \/ resumed # None)
    /\ UNCHANGED claimed

QueueReady(h) ==
    /\ Advance(ApplyReady(full, h), ApplyReady(resumed, h))
    /\ claimed' = TRUE
    /\ UNCHANGED reorged

QueueBlocked(h, expected) ==
    /\ Advance(ApplyBlocked(full, h, expected), ApplyBlocked(resumed, h, expected))
    /\ claimed' = TRUE
    /\ UNCHANGED reorged

\* `lifecycle_snapshot` after the last event, handed to `replay_from_checkpoint`.
TakeCheckpoint ==
    /\ resumed = None
    /\ resumed' = FromCheckpoint(Frame(full))
    /\ UNCHANGED <<full, reorged, claimed>>

\* A blocked transaction waits for a nonce below its own.
ReplayNext ==
    \/ \E h \in Hashes : Decoded(h) \/ Dropped(h) \/ Replaced(h) \/ QueueReady(h)
    \/ \E h \in Hashes, n \in Nonces \cup {None} :
          (n # None => n < Tx[h].nonce) /\ QueueBlocked(h, n)
    \/ \E h \in Hashes, b \in BlockHashes :
          Confirmed(h, "provisional", b) \/ Confirmed(h, "final", b) \/ Reorged(h, b)
    \/ TakeCheckpoint

ReplaySpec == ReplayInit /\ [][ReplayNext]_replay_vars

----------------------------------------------------------------------------
(* Properties *)

\* Whatever events are lost, repeated or out of order, a full replay never
\* queues a transaction that is not pending, or under another sender or nonce:
\* the frames and checkpoint hashes it shows contain no finished transaction.
QueuesHoldPending ==
    \A s \in Senders, n \in Nonces :
        LET h == full.sender_queues[s][n]
        IN  h # None => /\ IsPending(full, h)
                        /\ Tx[h].sender = s
                        /\ Tx[h].nonce = n

\* The queue states that `recompute_sender_queue_states` maintains from event to
\* event are those of a fresh classification of the pending nonces, as long as
\* no TxReady or TxBlocked has put a recorder's word in their place.
StatesMatchFreshScan ==
    ~claimed =>
        \A s \in Senders : \A n \in PendingNonces(full, s) :
            full.txs[full.sender_queues[s][n]].queue_state
                = QueueEntryState(PendingNonces(full, s), n)

\* Both hold after any sequence of events, so the queues that frames and checkpoints
\* show are those of the transactions that are pending.
ReplayedQueuesCorrect == QueuesHoldPending /\ StatesMatchFreshScan

\* A replay resumed from a checkpoint shows the same pending set as the replay
\* of the whole log after every later event but a reorg, although it does not
\* know the finished transactions and has lost the senders of the pending ones.
ResumedPendingAgrees ==
    resumed # None /\ ~reorged => PendingHashes(resumed) = PendingHashes(full)
=============================================================================
