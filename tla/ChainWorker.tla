----------------------------- MODULE ChainWorker -----------------------------
(***************************************************************************)
(* The live feed of one chain (crates/runtime-core/src/live_rpc.rs):       *)
(* `run_chain_worker` may first rebuild the scheduler from a node's        *)
(* pending pool, then keeps opening websocket sessions and rotates among   *)
(* the endpoints; `run_ws_session` collects announced hashes, deduplicates *)
(* them, fetches their transactions in batches and passes them on.         *)
(* `run_chain_pending_pool_rebuild` only does the rebuild.                 *)
(*                                                                         *)
(* What becomes of a fetched transaction is LivePipeline.  Time is a       *)
(* number of ticks without an announcement, counted up to the timeout.     *)
(***************************************************************************)
EXTENDS Integers, Sequences, SequencesExt, FiniteSetsExt

CONSTANTS
    Hashes,
    Malformed,         \* what is announced and is no hash
    Subscriptions,     \* subscription ids a frame may carry
    None,
    EndpointCount,
    MaxPool,           \* bound: transactions in a node's pending block
    BatchSize,         \* BatchFetchConfig::batch_size
    MaxInFlight,       \* BatchFetchConfig::max_in_flight
    RetryAttempts,     \* BatchFetchConfig::retry_attempts
    MaxSeenHashes,     \* size of the dedup memory
    SilentTimeout      \* silent_chain_timeout_secs, in ticks

ASSUME ChainWorkerAssumption ==
    /\ {EndpointCount, BatchSize, MaxInFlight, MaxSeenHashes, SilentTimeout} \subseteq Nat \ {0}
    /\ {RetryAttempts, MaxPool} \subseteq Nat
    /\ {Malformed, None} \cap Hashes = {} /\ None \notin Subscriptions \cup {Malformed}

Endpoints == 0..(EndpointCount - 1)

VARIABLES
    rebuild_only,     \* the worker is `run_chain_pending_pool_rebuild`
    phase,            \* where the worker is
    pool_endpoint,    \* the endpoint the rebuild asks
    endpoint_index,
    status,           \* LiveRpcChainStatus::state as last reported
    pending_hashes,   \* announced in this session, not yet dispatched
    subscription_id,  \* of this session, once acknowledged
    closing,          \* the session's loop was left, its last flush is on
    budget,           \* batches this flush may still dispatch
    batch,            \* the batch being fetched or processed, or the pool
    fetched,          \* the transaction fetched for each hash of the batch, or None
    attempt,          \* failed fetches of the batch
    seen_hashes,      \* the dedup memory, which outlives sessions
    seen_order,
    session_silence,  \* ticks since the last announcement or the subscription
    chain_silence,    \* history: ticks since the last announcement
    handled           \* history: hashes processed and not forgotten since

session_vars == <<pending_hashes, subscription_id, closing, budget, batch, fetched, attempt>>
memory_vars == <<seen_hashes, seen_order>>
vars == <<rebuild_only, phase, pool_endpoint, endpoint_index, status, session_vars, memory_vars,
          session_silence, chain_silence, handled>>

\* `bootstrap_from_pending_pool` or not.
Init ==
    /\ rebuild_only \in BOOLEAN
    /\ phase \in IF rebuild_only THEN {"pool"} ELSE {"pool", "connecting"}
    /\ pool_endpoint = 0
    /\ endpoint_index = 0
    /\ status = IF phase = "pool" THEN None ELSE "connecting"
    /\ pending_hashes = <<>>
    /\ subscription_id = None
    /\ fetched = <<>>
    /\ closing = FALSE
    /\ budget = 0
    /\ batch = <<>>
    /\ attempt = 0
    /\ seen_hashes = {}
    /\ seen_order = <<>>
    /\ session_silence = 0
    /\ chain_silence = 0
    /\ handled = {}

----------------------------------------------------------------------------
DivCeil(n, d) == (n + d - 1) \div d

DispatchableBatchCount(queue_len) == Min({DivCeil(queue_len, BatchSize), MaxInFlight})

\* Faulty RotateEndpointIndex: no wrap-around.
StayAtLastEndpoint(current) == Min({current + 1, EndpointCount - 1})

RotateEndpointIndex(current) == (current + 1) % EndpointCount

ShouldRotateSilentChain == session_silence >= SilentTimeout

\* Faulty RememberHash: a hash that is in the memory is taken again.
RememberAnyway(memory, h) ==
    LET order == IF h \in memory.seen THEN memory.order ELSE Append(memory.order, h)
        full == Len(order) > MaxSeenHashes
    IN  [seen |-> (memory.seen \cup {h}) \ (IF full THEN {Head(order)} ELSE {}),
         order |-> IF full THEN Tail(order) ELSE order,
         fresh |-> Append(memory.fresh, h)]

\* `remember_hash`: a new hash is remembered, in place of the oldest one when the
\* memory is full, and is fresh.
RememberHash(memory, h) ==
    IF h \in memory.seen THEN memory
    ELSE LET order == Append(memory.order, h)
             full == Len(order) > MaxSeenHashes
         IN  [seen |-> (memory.seen \cup {h}) \ (IF full THEN {Head(order)} ELSE {}),
              order |-> IF full THEN Tail(order) ELSE order,
              fresh |-> Append(memory.fresh, h)]

\* The locals of a session when it begins, or is over.
ResetSession ==
    /\ pending_hashes' = <<>>
    /\ subscription_id' = None
    /\ closing' = FALSE
    /\ budget' = 0
    /\ batch' = <<>>
    /\ fetched' = <<>>
    /\ attempt' = 0

\* `update_chain_status`: what the API shows of the worker.
Report(state) == status' = state

\* The session ends with an error: `run_chain_worker` rotates to the next
\* endpoint.  Hashes whose batch was not processed are gone.
Fail ==
    /\ ResetSession
    /\ endpoint_index' = RotateEndpointIndex(endpoint_index)
    /\ Report("rotating")
    /\ phase' = "sleeping"
    /\ UNCHANGED <<pool_endpoint, memory_vars, session_silence, chain_silence, handled>>

----------------------------------------------------------------------------
(* `rebuild_scheduler_from_pending_pool_with_owner` *)

\* The rebuild was all there was to do.
EndRebuildOnly ==
    /\ rebuild_only
    /\ phase' = "done"
    /\ UNCHANGED <<pool_endpoint, endpoint_index, status, session_vars, memory_vars,
                   session_silence, chain_silence, handled>>

\* The session loop begins, with a memory of its own.
BeginSessions ==
    /\ ~rebuild_only
    /\ ResetSession
    /\ phase' = "connecting"
    /\ Report("connecting")
    /\ seen_hashes' = {}
    /\ handled' = {}
    /\ UNCHANGED <<pool_endpoint, endpoint_index, seen_order, session_silence, chain_silence>>

\* A pending block that cannot be fetched, or has a transaction that cannot be
\* decoded: the next endpoint is asked, or the rebuild given up.
PoolFails ==
    /\ phase = "pool"
    /\ IF pool_endpoint + 1 < EndpointCount
       THEN /\ pool_endpoint' = pool_endpoint + 1
            /\ UNCHANGED <<phase, endpoint_index, status, session_vars, memory_vars,
                           session_silence, chain_silence, handled>>
       ELSE BeginSessions \/ EndRebuildOnly

\* The node's pending block, which may be empty.
PoolFetched ==
    /\ phase = "pool"
    /\ \E size \in 0..MaxPool : \E pool \in [1..size -> Hashes] : batch' = pool
    /\ phase' = "rebuilding"
    /\ UNCHANGED <<pool_endpoint, endpoint_index, status, pending_hashes, subscription_id,
                   closing, budget, fetched, attempt, memory_vars, session_silence,
                   chain_silence, handled>>

\* Each transaction of the block once.
RebuildNext ==
    /\ phase = "rebuilding"
    /\ batch # <<>>
    /\ batch' = Tail(batch)
    /\ seen_hashes' = seen_hashes \cup {Head(batch)}
    /\ UNCHANGED <<phase, pool_endpoint, endpoint_index, status, pending_hashes,
                   subscription_id, closing, budget, fetched, attempt, seen_order,
                   session_silence, chain_silence, handled>>

\* The block is done, or a transaction cannot be processed.
RebuildEnds ==
    /\ phase = "rebuilding"
    /\ BeginSessions \/ EndRebuildOnly

Rebuild == PoolFails \/ PoolFetched \/ RebuildNext \/ RebuildEnds

----------------------------------------------------------------------------
\* `run_chain_worker` wakes up and connects to the endpoint it has come to.
WakeUp ==
    /\ phase = "sleeping"
    /\ phase' = "connecting"
    /\ Report("connecting")
    /\ UNCHANGED <<pool_endpoint, endpoint_index, session_vars, memory_vars,
                   session_silence, chain_silence, handled>>

(* `run_ws_session` *)

OpenSession ==
    /\ phase = "connecting"
    /\ phase' = "reading"
    /\ Report("subscribed")
    /\ ResetSession
    /\ session_silence' = 0
    /\ UNCHANGED <<pool_endpoint, endpoint_index, memory_vars, chain_silence, handled>>

\* The connection cannot be made, or a frame cannot be read.
ConnectionFails ==
    /\ phase \in {"connecting", "reading"}
    /\ Fail

StartFlush(queue) ==
    /\ phase' = "flushing"
    /\ budget' = DispatchableBatchCount(Len(queue))

\* Text frames: the answer to eth_subscribe, an announcement, or anything else.
Frames ==
    [kind : {"answer"}, subscription : Subscriptions]
      \cup [kind : {"announcement"}, subscription : Subscriptions,
            result : Hashes \cup {Malformed}]

\* `parse_pending_hash`: the subscription of an announcement only matters once
\* the session knows its own.
ParsePendingHash(frame) ==
    IF frame.kind = "announcement" /\ subscription_id \in {None, frame.subscription}
    THEN frame.result ELSE None

\* A text frame announces something, or nothing to this session.
ReceiveText(frame) ==
    LET hash == ParsePendingHash(frame) IN
    /\ phase = "reading"
    /\ subscription_id' = IF frame.kind = "answer" THEN frame.subscription ELSE subscription_id
    /\ IF hash = None
       THEN UNCHANGED <<pending_hashes, status, session_silence, chain_silence>>
       ELSE /\ pending_hashes' = Append(pending_hashes, hash)
            /\ Report("active")
            /\ session_silence' = 0
            /\ chain_silence' = 0
    /\ StartFlush(pending_hashes')
    /\ UNCHANGED <<pool_endpoint, endpoint_index, closing, batch, fetched, attempt,
                   memory_vars, handled>>

\* Another frame, or none within the flush interval.
ReceiveNothing ==
    /\ phase = "reading"
    /\ StartFlush(pending_hashes)
    /\ UNCHANGED <<pool_endpoint, endpoint_index, status, pending_hashes, subscription_id,
                   closing, batch, fetched, attempt, memory_vars, session_silence,
                   chain_silence, handled>>

\* The endpoint closes the session, or a pong cannot be sent.
ReceiveClose ==
    /\ phase = "reading"
    /\ closing' = TRUE
    /\ StartFlush(pending_hashes)
    /\ UNCHANGED <<pool_endpoint, endpoint_index, status, pending_hashes, subscription_id,
                   batch, fetched, attempt, memory_vars, session_silence, chain_silence,
                   handled>>

\* The memory after the announcements of a batch: what is no hash is dropped, what the
\* memory does not know is remembered.
RememberBatch(taken) ==
    LET after[n \in 0..Len(taken)] ==
          IF n = 0 THEN [seen |-> seen_hashes, order |-> seen_order, fresh |-> <<>>]
          ELSE IF taken[n] = Malformed THEN after[n - 1]
          ELSE RememberHash(after[n - 1], taken[n])
    IN  after[Len(taken)]

\* The next batch of the flush: what is fresh is remembered before it is fetched.
TakeBatch ==
    LET size == Min({BatchSize, Len(pending_hashes)})
        memory == RememberBatch(SubSeq(pending_hashes, 1, size))
    IN
    /\ phase = "flushing"
    /\ budget > 0
    /\ budget' = budget - 1
    /\ pending_hashes' = SubSeq(pending_hashes, size + 1, Len(pending_hashes))
    /\ seen_hashes' = memory.seen
    /\ seen_order' = memory.order
    /\ batch' = memory.fresh
    /\ attempt' = 0
    /\ handled' = handled \cap memory.seen
    /\ phase' = IF memory.fresh = <<>> THEN "flushing" ELSE "fetching"
    /\ UNCHANGED <<pool_endpoint, endpoint_index, status, subscription_id, closing, fetched,
                   session_silence, chain_silence>>

\* The rows of a batch answer that have a transaction, by the index they were asked
\* under: in any order, and not all of them (an error, a null, an undecodable row).
Answers(n) ==
    {rows \in UNION {[1..k -> 1..n] : k \in 0..n} : IsInjective(rows)}

\* `decode_transaction_fetch_batch_response_to_live_txs`: each row goes where its
\* index says.
DecodeBatch(hashes, rows) ==
    [i \in DOMAIN hashes |-> IF i \in Range(rows) THEN hashes[i] ELSE None]

\* `decode_transaction_fetch_response_to_live_tx`: one hash is asked for by itself;
\* an error or an undecodable answer is a failed fetch.
DecodeSingle(hash) == {<<hash>>, <<None>>}

FetchSucceeds ==
    /\ phase = "fetching"
    /\ fetched' \in IF Len(batch) = 1
                     THEN DecodeSingle(batch[1])
                     ELSE {DecodeBatch(batch, rows) : rows \in Answers(Len(batch))}
    /\ phase' = "processing"
    /\ UNCHANGED <<pool_endpoint, endpoint_index, status, pending_hashes, subscription_id,
                   closing, budget, batch, attempt, memory_vars, session_silence,
                   chain_silence, handled>>

\* A failed fetch is retried RetryAttempts times.
FetchFails ==
    /\ phase = "fetching"
    /\ IF attempt >= RetryAttempts
       THEN Fail
       ELSE /\ attempt' = attempt + 1
            /\ UNCHANGED <<phase, pool_endpoint, endpoint_index, status, pending_hashes,
                           subscription_id, closing, budget, batch, fetched, memory_vars,
                           session_silence, chain_silence, handled>>

\* One hash of the batch goes down the pipeline, with its transaction or without.
ProcessNext ==
    /\ phase = "processing"
    /\ handled' = handled \cup {Head(batch)}
    /\ batch' = Tail(batch)
    /\ fetched' = Tail(fetched)
    /\ phase' = IF Len(batch) = 1 THEN "flushing" ELSE "processing"
    /\ UNCHANGED <<pool_endpoint, endpoint_index, status, pending_hashes, subscription_id,
                   closing, budget, attempt, memory_vars, session_silence, chain_silence>>

\* The pipeline returns an error.
ProcessingFails ==
    /\ phase = "processing"
    /\ Fail

\* After the flush: back to reading, unless the chain was silent for too long.
FinishFlush ==
    /\ phase = "flushing"
    /\ budget = 0
    /\ ~closing
    /\ IF ShouldRotateSilentChain
       THEN Fail
       ELSE /\ phase' = "reading"
            /\ UNCHANGED <<pool_endpoint, endpoint_index, status, session_vars, memory_vars,
                           session_silence, chain_silence, handled>>

\* The last flush of a closed session: the endpoint stays the same.
FinishSession ==
    /\ phase = "flushing"
    /\ budget = 0
    /\ closing
    /\ ResetSession
    /\ Report("disconnected")
    /\ phase' = "sleeping"
    /\ UNCHANGED <<pool_endpoint, endpoint_index, memory_vars, session_silence,
                   chain_silence, handled>>

Tick ==
    /\ session_silence' = Min({session_silence + 1, SilentTimeout})
    /\ chain_silence' = Min({chain_silence + 1, SilentTimeout})
    /\ UNCHANGED <<phase, pool_endpoint, endpoint_index, status, session_vars, memory_vars,
                   handled>>

Work ==
    \/ Rebuild
    \/ WakeUp
    \/ OpenSession
    \/ ConnectionFails
    \/ ReceiveNothing
    \/ TakeBatch
    \/ FetchSucceeds
    \/ FetchFails
    \/ ProcessNext
    \/ ProcessingFails
    \/ FinishFlush
    \/ FinishSession

Next ==
    /\ \/ Work
       \/ \E frame \in Frames : ReceiveText(frame)
       \/ ReceiveClose
       \/ Tick
    /\ UNCHANGED rebuild_only

\* The worker is polled, its reads, fetches and sleeps have timeouts, and time passes;
\* nothing obliges an endpoint to announce, to close or to fail.  Connecting is not
\* fair: `connect_async` has no timeout, and an endpoint that accepts a connection
\* and then goes quiet holds the worker in the handshake for as long as it likes.
Spec == Init /\ [][Next]_vars /\ WF_vars(Work /\ phase # "connecting" /\ UNCHANGED rebuild_only)
                             /\ WF_vars(Tick /\ UNCHANGED rebuild_only)

----------------------------------------------------------------------------
(* Properties *)

\* A hash that was processed is not processed again until the memory has forgotten
\* it, however often it is announced and whatever sessions fail in between ("Dedup
\* before issuing the RPC batch so reconnect storms do not fan out into redundant
\* detail fetches or duplicate storage writes").
ProcessedOnce ==
    [][ phase = "processing" /\ phase' # "sleeping" /\ batch' = Tail(batch)
        => Head(batch) \notin handled ]_vars

\* A chain that stays silent for the timeout gets another endpoint
\* (VIZ_API_SILENT_CHAIN_TIMEOUT_SECS: "rotate to the next endpoint after this
\* many silent seconds"), unless the endpoint closes the session: whatever fetches,
\* retries and failures come in between, the worker does not sit on it.  The one
\* place it can sit in for ever is a connection attempt, which has no timeout.
SilentChainRotates ==
    \/ <>[](phase = "connecting")
    \/ \A i \in Endpoints :
          (chain_silence = SilentTimeout /\ endpoint_index = i /\ ~rebuild_only)
              ~> (chain_silence < SilentTimeout \/ endpoint_index # i \/ closing)
=============================================================================
