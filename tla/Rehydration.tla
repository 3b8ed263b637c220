---------------------------- MODULE Rehydration ----------------------------
(***************************************************************************)
(* Starting the scheduler on a storage that an earlier runtime has filled  *)
(* (`runtime_bootstrap_from_storage`): the snapshot writer                 *)
(* (`spawn_scheduler_snapshot_writer`), the plan that storage makes of the *)
(* last snapshot and the events after it (`scheduler_rehydration_plan`),   *)
(* the pruning of the snapshot and the reconstruction of `SchedulerState`  *)
(* (`from_persisted_snapshot`), then the replay of the tail.               *)
(*                                                                         *)
(* Around it, workers admit transactions and then write the events of the  *)
(* admission, as in LivePipeline; only the events rehydration reads are    *)
(* kept.  An event counts as written when the storage writer applied it:   *)
(* what is in its queue is still to be written here.  Storage is memory of *)
(* the process: it outlives a runtime, not the process.                    *)
(***************************************************************************)
EXTENDS Scheduler, Sequences

CONSTANTS
    Workers,        \* concurrent users of the processing function
    MaxEvents,      \* bound: events written
    MaxEvicted,     \* bound: events that leave the event ring
    MaxSnapshots,   \* bound: ticks of the snapshot writer
    MaxRestarts     \* bound: restarts

ASSUME RehydrationAssumption == None \notin {"stale", "missing", "mismatch", "frontier"}

VARIABLES
    log,       \* events appended, [kind, hash]; the sequence id is the position
    evicted,   \* how many of them have left the event ring, oldest first
    to_write,  \* worker -> events of its admission not yet stored
    capture,   \* what the snapshot writer holds: None, a watermark, a snapshot
    snapshot,  \* InMemoryStorage::scheduler_snapshot
    ticks, restarts,
    stored,    \* history: admissions of this process in the log, and what it restored
    rebuild_scheduler_from_rpc,
    failure    \* why the last rehydration gave up: None, "stale" or an error

storage_vars == <<log, evicted, to_write, stored, capture, snapshot, ticks>>
bootstrap_vars == <<restarts, rebuild_scheduler_from_rpc, failure>>
all_vars == <<vars, storage_vars, bootstrap_vars>>

Event(kind, h) == [kind |-> kind, hash |-> h]

RehydrationInit ==
    /\ Init
    /\ log = <<>>
    /\ evicted = 0
    /\ to_write = [w \in Workers |-> <<>>]
    /\ capture = None
    /\ snapshot = None
    /\ ticks = 0
    /\ stored = {}
    /\ restarts = 0
    /\ rebuild_scheduler_from_rpc = FALSE
    /\ failure = None

----------------------------------------------------------------------------
(* Admissions and their events *)

\* A worker with nothing left to write admits a transaction: TxReplaced of the
\* incumbent and TxDecoded if it is in, TxDropped if it is refused, nothing of
\* a duplicate.
AdmitLive(w, h) ==
    /\ to_write[w] = <<>>
    /\ Len(log) < MaxEvents
    /\ Admit(h)
    /\ to_write' = [to_write EXCEPT ![w] =
         IF h \in pending THEN <<>>
         ELSE IF h \notin pending' THEN <<Event("dropped", h)>>
         ELSE IF Incumbent(h) \in pending
              THEN <<Event("replaced", Incumbent(h)), Event("decoded", h)>>
              ELSE <<Event("decoded", h)>>]
    /\ UNCHANGED <<log, evicted, stored, capture, snapshot, ticks, bootstrap_vars>>

\* `append_event` on a full ring drops the oldest event.  Events of other kinds take
\* their places too, so how many of these the ring holds is left open.
WriteEvent(w) ==
    /\ to_write[w] # <<>>
    /\ Len(log) < MaxEvents
    /\ log' = Append(log, Head(to_write[w]))
    /\ evicted' \in {evicted, evicted + 1}
    /\ evicted' <= MaxEvicted
    /\ evicted' <= Len(log)
    /\ to_write' = [to_write EXCEPT ![w] = Tail(@)]
    /\ stored' = IF Head(to_write[w]).kind = "decoded"
                 THEN stored \cup {Head(to_write[w]).hash} ELSE stored
    /\ UNCHANGED <<vars, capture, snapshot, ticks, bootstrap_vars>>

\* An event that rehydration does not read is appended to a full ring.
WriteOther ==
    /\ evicted < MaxEvicted
    /\ evicted < Len(log)
    /\ evicted' = evicted + 1
    /\ UNCHANGED <<vars, log, to_write, stored, capture, snapshot, ticks, bootstrap_vars>>

----------------------------------------------------------------------------
(* The snapshot writer *)

\* The ready transactions of a pool, `executable_frontier_hashes`.
ExecutableFrontier(pool) ==
    {h \in pool.pending :
        Tx[h].nonce \in ReadyNonces(Occupied(pool.pending, pool.sender_queues[Tx[h].sender]))}

\* `persisted_snapshot`: candidates, head and counters are not kept.
PersistedSnapshot(event_seq_hi) ==
    LET pool == [pending |-> pending, sender_queues |-> sender_queues]
    IN  [event_seq_hi |-> event_seq_hi, pending |-> pending, sender_queues |-> sender_queues,
         executable_frontier |-> ExecutableFrontier(pool), life |-> restarts]

\* One tick, with room in the storage queue: first the watermark ...
ReadWatermark ==
    /\ capture = None
    /\ ticks < MaxSnapshots
    /\ ticks' = ticks + 1
    /\ capture' = [event_seq_hi |-> Len(log)]
    /\ UNCHANGED <<vars, log, evicted, to_write, stored, snapshot, bootstrap_vars>>

\* ... then the state of the scheduler, under its read lock.
CaptureSnapshot ==
    /\ capture # None
    /\ "pending" \notin DOMAIN capture
    /\ capture' = PersistedSnapshot(capture.event_seq_hi)
    /\ UNCHANGED <<vars, log, evicted, to_write, stored, snapshot, ticks, bootstrap_vars>>

\* Faulty WriteSchedulerSnapshot: the watermark is stamped after the capture.
WriteStampedLate ==
    /\ capture # None
    /\ "pending" \in DOMAIN capture
    /\ snapshot' = [capture EXCEPT !.event_seq_hi = Len(log)]
    /\ capture' = None
    /\ UNCHANGED <<vars, log, evicted, to_write, stored, ticks, bootstrap_vars>>

\* The storage writer reaches the snapshot in its queue.
WriteSchedulerSnapshot ==
    /\ capture # None
    /\ "pending" \in DOMAIN capture
    /\ snapshot' = capture
    /\ capture' = None
    /\ UNCHANGED <<vars, log, evicted, to_write, stored, ticks, bootstrap_vars>>

----------------------------------------------------------------------------
(* `SchedulerState::admit` on a state under construction: a pool *)

NoMetrics ==
    [admitted_total |-> 0, duplicate_total |-> 0, replacement_total |-> 0,
     underpriced_replacement_total |-> 0, sender_limit_drop_total |-> 0,
     stale_simulation_drop_total |-> 0]

EmptyPool == [pending |-> {}, sender_queues |-> NoQueues, metrics |-> NoMetrics]

PlaceIn(pool, h, removed) ==
    [pool EXCEPT !.pending = (@ \ {removed}) \cup {h},
                 !.sender_queues[Tx[h].sender][Tx[h].nonce] = h,
                 !.metrics.admitted_total = Bump(@)]

AdmitInto(pool, h) ==
    LET incumbent == SlotOf(pool.sender_queues, h)
        queue == pool.sender_queues[Tx[h].sender]
    IN  CASE h \in pool.pending -> [pool EXCEPT !.metrics.duplicate_total = Bump(@)]
          [] h \notin pool.pending /\ incumbent \in pool.pending ->
               IF ReplacementFee(h) >= ReplacementThresholdFee(incumbent)
               THEN [PlaceIn(pool, h, incumbent) EXCEPT !.metrics.replacement_total = Bump(@)]
               ELSE [pool EXCEPT !.metrics.underpriced_replacement_total = Bump(@)]
          [] h \notin pool.pending /\ incumbent \notin pool.pending ->
               IF incumbent = None /\ Cardinality({n \in Nonces : queue[n] # None})
                                        >= MaxPendingPerSender
               THEN [pool EXCEPT !.metrics.sender_limit_drop_total = Bump(@)]
               ELSE PlaceIn(pool, h, None)

----------------------------------------------------------------------------
(* Bootstrap *)

\* The hashes whose last word in the tail is that they left the pool.
RemovedHashes(tail) ==
    {h \in Hashes : \E i \in DOMAIN tail :
        /\ tail[i].hash = h
        /\ tail[i].kind \in {"dropped", "replaced", "confirmed"}
        /\ \A j \in DOMAIN tail : j > i => tail[j].hash # h}

\* Faulty Sanitize: the sender queues keep the removed hashes.
SanitizePending(snap, tail) ==
    LET removed == RemovedHashes(tail)
    IN  [snap EXCEPT !.pending = @ \ removed, !.executable_frontier = @ \ removed]

\* Faulty Sanitize: the removed hashes stay in the pending set.
SanitizeQueues(snap, tail) ==
    [snap EXCEPT !.executable_frontier = {},
       !.sender_queues = [s \in Senders |-> [n \in Nonces |->
          IF @[s][n] \in RemovedHashes(tail) THEN None ELSE @[s][n]]]]

\* `sanitize_scheduler_snapshot_for_rehydration`.
Sanitize(snap, tail) ==
    LET removed == RemovedHashes(tail)
        pruned == [s \in Senders |->
                     [n \in Nonces |-> IF snap.sender_queues[s][n] \in removed
                                       THEN None ELSE snap.sender_queues[s][n]]]
    IN  [snap EXCEPT !.pending = @ \ removed, !.executable_frontier = @ \ removed,
                     !.sender_queues = pruned]

\* `build_sender_queues_from_pending`, for a snapshot without queues.
QueuesOfPending(hashes) ==
    [s \in Senders |-> [n \in Nonces |->
       LET here == {h \in hashes : Tx[h].sender = s /\ Tx[h].nonce = n}
       IN  IF here = {} THEN None ELSE CHOOSE h \in here : TRUE]]

\* `from_persisted_snapshot`: the pool the snapshot stands for.
RestoredPool(snap) ==
    [pending |-> snap.pending, metrics |-> NoMetrics,
     sender_queues |-> IF snap.sender_queues = NoQueues THEN QueuesOfPending(snap.pending)
                       ELSE snap.sender_queues]

QueueEntries(snap) ==
    {entry \in Senders \X Nonces : snap.sender_queues[entry[1]][entry[2]] # None}

\* ... or the error it is refused with.
SnapshotError(snap) ==
    LET hashAt(entry) == snap.sender_queues[entry[1]][entry[2]] IN
    CASE \E e \in QueueEntries(snap) : hashAt(e) \notin snap.pending -> "missing"
      [] \E e \in QueueEntries(snap) : hashAt(e) \in snap.pending
            /\ <<Tx[hashAt(e)].sender, Tx[hashAt(e)].nonce>> # e -> "mismatch"
      [] /\ snap.executable_frontier # {}
         /\ ExecutableFrontier(RestoredPool(snap)) # snap.executable_frontier -> "frontier"
      [] OTHER -> None

\* The transactions of the tail are admitted again, in order.
ReplayTransactions(pool, tail) ==
    LET after[n \in 0..Len(tail)] ==
          IF n = 0 THEN pool
          ELSE IF tail[n].kind \in {"decoded", "reorged"}
               THEN AdmitInto(after[n - 1], tail[n].hash) ELSE after[n - 1]
    IN  after[Len(tail)]

\* Install a reconstructed state: the counts are computed afresh.
Install(pool) ==
    /\ pending' = pool.pending
    /\ sender_queues' = pool.sender_queues
    /\ metrics' = pool.metrics
    /\ sender_queue_counts' = [s \in Senders |->
         ClassifySenderQueueCounts(pool.pending, pool.sender_queues[s])]
    /\ ready_total' = Cardinality(ExecutableFrontier(pool))
    /\ blocked_total' = Cardinality(pool.pending \ ExecutableFrontier(pool))
    /\ candidates' = [id \in CandidateIds |-> None]
    /\ head_block_number' = 0
    /\ tasks' = {}
    /\ superseded' = {}
    /\ observed' = [h \in Hashes |-> None]
    /\ retired' = {}

\* `runtime_bootstrap_from_storage`: a runtime has gone down with what its workers
\* and its snapshot writer held, and a new one is built on the storage it used.
Reboot(pool, error) ==
    /\ restarts < MaxRestarts
    /\ restarts' = restarts + 1
    /\ Install(pool)
    /\ failure' = error
    /\ rebuild_scheduler_from_rpc' = (error # None)
    /\ to_write' = [w \in Workers |-> <<>>]
    /\ stored' = pool.pending
    /\ capture' = None
    /\ UNCHANGED <<log, evicted, snapshot, ticks>>

\* Without a snapshot the plan is empty: nothing is replayed, nothing rebuilt.
RestartEmpty ==
    /\ snapshot = None
    /\ Reboot(EmptyPool, None)

\* Blocks finalised since the capture make the snapshot too old.
RestartStale ==
    /\ snapshot # None
    /\ Reboot(EmptyPool, "stale")

\* `scan_events`: what the ring still holds of the events after the watermark.
EventTail ==
    LET gone == IF evicted > snapshot.event_seq_hi THEN evicted ELSE snapshot.event_seq_hi
    IN  SubSeq(log, gone + 1, Len(log))

\* The pruned snapshot and the tail, or an empty scheduler and a rebuild.
RestartFromSnapshot ==
    /\ snapshot # None
    /\ LET snap == Sanitize(snapshot, EventTail)
           error == SnapshotError(snap)
           pool == ReplayTransactions(RestoredPool(snap), EventTail)
       IN  Reboot(IF error = None THEN pool ELSE EmptyPool, error)

Restart == RestartEmpty \/ RestartStale \/ RestartFromSnapshot

\* `default_runtime_bootstrap`: the process ended and its storage, the snapshot in
\* it, with it.  The next one starts empty and asks for no rebuild.
StartProcess ==
    /\ Install(EmptyPool)
    /\ log' = <<>>
    /\ evicted' = 0
    /\ snapshot' = None
    /\ failure' = None
    /\ rebuild_scheduler_from_rpc' = FALSE
    /\ to_write' = [w \in Workers |-> <<>>]
    /\ stored' = {}
    /\ capture' = None
    /\ UNCHANGED <<ticks, restarts>>

RehydrationNext ==
    \/ \E w \in Workers : WriteEvent(w) \/ \E h \in Hashes : AdmitLive(w, h)
    \/ WriteOther
    \/ ReadWatermark \/ CaptureSnapshot \/ WriteSchedulerSnapshot
    \/ Restart \/ StartProcess

RehydrationSpec == RehydrationInit /\ [][RehydrationNext]_all_vars

----------------------------------------------------------------------------
(* Properties *)

\* A restart on the storage of the runtime before, if it does not ask for a rebuild
\* and the ring holds every event since the watermark, keeps every pending
\* transaction whose admission was stored, and the exact pool when nothing was left
\* to write, although the watermark and the state of the snapshot are read at
\* different moments and competing workers write their events in any order.
\* (The snapshot is one of the runtime that goes down: an older one may hold
\* what a rebuild has dropped since.  Free transactions may replace each other in
\* turn, and then the tail does not tell which of them came last.)
RestartKeepsPool ==
    [][ /\ OrdinaryFees
        /\ restarts' # restarts
        /\ snapshot # None
        /\ snapshot.life = restarts
        /\ evicted <= snapshot.event_seq_hi
        /\ ~rebuild_scheduler_from_rpc'
        => /\ pending \cap stored \subseteq pending'
           /\ (\A w \in Workers : to_write[w] = <<>>) =>
                pending' = pending /\ sender_queues' = sender_queues ]_all_vars

\* A rehydrated scheduler is as consistent as one that never stopped: indexes,
\* limits and counts agree after the pruning, the reconstruction from the
\* persisted queues and the replay, and at every later admission.
RehydratedPoolConsistent == QueuesMatchPending /\ SenderLimitHolds /\ TotalsMatchRecount

\* What the writer captures is never refused as inconsistent, and a frontier only
\* mismatches when the tail removed something from the snapshot: an idle pool
\* always survives a restart.
OnlyPruningFails ==
    [][ restarts' # restarts =>
          /\ failure' \in {None, "stale", "frontier"}
          /\ failure' = "frontier" =>
               RemovedHashes(EventTail) \cap snapshot.pending # {} ]_all_vars
=============================================================================
