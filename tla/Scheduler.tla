----------------------------- MODULE Scheduler -----------------------------
(***************************************************************************)
(* The scheduler's state machine (crates/scheduler/src/lib.rs,             *)
(* `SchedulerState`): sender-aware admission with fee-bump replacement,    *)
(* nonce-gap classification, candidate generations and the filtering of    *)
(* simulation results.  Every action is one method of `SchedulerState`,    *)
(* which runs under the write lock and is therefore atomic.                *)
(***************************************************************************)
EXTENDS SenderQueue, FiniteSets

CONSTANTS
    CandidateIds,
    CandidateSpecs,       \* the candidates a searcher may register
    Blocks,               \* block numbers the head may be set to
    MaxPendingPerSender,  \* SchedulerConfig::max_pending_per_sender
    FeeBumpBps,           \* SchedulerConfig::replacement_fee_bump_bps
    U128Max,              \* u128::MAX, where fee arithmetic saturates
    CounterMax,           \* u64::MAX, where counters saturate
    MaxGeneration         \* bound: generations stay below u64::MAX

\* `SchedulerCandidate`; an empty member list stands for the transaction alone.
CandidateSpec ==
    [candidate_id : CandidateIds, tx_hash : Hashes, member_tx_hashes : SUBSET Hashes]

\* What the candidates map holds: the candidate and its dispatch.
CandidateEntry ==
    [tx_hash : Hashes, member_tx_hashes : SUBSET Hashes,
     block_number : Blocks, generation : 0..MaxGeneration]

ASSUME SchedulerAssumption ==
    /\ IsFiniteSet(Senders)
    /\ U128Max \in Nat
    /\ CounterMax \in Nat
    /\ MaxGeneration \in Nat
    /\ FeeBumpBps \in Nat
    /\ MaxPendingPerSender \in Nat \ {0}
    /\ Blocks \subseteq Nat
    /\ 0 \in Blocks
    /\ CandidateSpecs \subseteq CandidateSpec
    /\ None \notin CandidateEntry

VARIABLES
    pending,              \* the keys of SchedulerState::pending
    sender_queues,        \* sender -> nonce -> hash
    sender_queue_counts,  \* the cached [ready, blocked] of each sender
    ready_total, blocked_total,
    candidates,           \* candidate id -> CandidateEntry
    head_block_number,
    metrics,              \* the saturating counters of SchedulerMetrics
    tasks,                \* every SimulationTaskSpec handed to the simulators
    observed,             \* history: queue states as told by the transitions
    retired,              \* history: hashes that were replaced
    superseded            \* history: tasks settled, re-registered or invalidated

admission_vars ==
    <<pending, sender_queues, sender_queue_counts, ready_total, blocked_total,
      observed, retired>>
candidate_vars == <<candidates, tasks, superseded>>
vars == <<admission_vars, candidate_vars, head_block_number, metrics>>

----------------------------------------------------------------------------
(* Fees *)

Saturate(n, max) == IF n > max THEN max ELSE n

\* `saturating_add(1)` on a u64 counter.
Bump(counter) == Saturate(counter + 1, CounterMax)

UnwrapOr(option, default) == IF option = None THEN default ELSE option

\* gas_price for legacy and EIP-2930, else max_fee with gas_price as fallback.
ReplacementFee(h) ==
    IF Tx[h].tx_type \in {0, 1}
    THEN UnwrapOr(Tx[h].gas_price_wei, 0)
    ELSE UnwrapOr(Tx[h].max_fee_per_gas_wei, UnwrapOr(Tx[h].gas_price_wei, 0))

DivCeil(n, d) == (n + d - 1) \div d

\* The least fee that replaces `incumbent`; the product saturates in u128.
ReplacementThresholdFee(incumbent) ==
    DivCeil(Saturate(ReplacementFee(incumbent) * (10000 + FeeBumpBps), U128Max), 10000)

----------------------------------------------------------------------------
(* Nonce-gap classification of one sender's queue *)

\* The nonces of a queue whose transaction is still in the pending map p.
Occupied(p, queue) == {n \in Nonces : queue[n] \in p}

\* The state of every pending hash of one queue.
SenderQueuePositions(p, queue) ==
    LET occupied == Occupied(p, queue)
        nonceOf(h) == CHOOSE n \in occupied : queue[n] = h
    IN  [h \in {queue[n] : n \in occupied} |-> QueueEntryState(occupied, nonceOf(h))]

\* Faulty QueueTransitions: only new hashes and changes of ready/blocked.
TransitionsOfStateOnly(previous, next) ==
    {h \in DOMAIN next : h \notin DOMAIN previous \/ previous[h].state # next[h].state}

\* The hashes whose state a mutation of the queue has changed.
QueueTransitions(previous, next) ==
    {h \in DOMAIN next : h \notin DOMAIN previous \/ previous[h] # next[h]}

ClassifySenderQueueCounts(p, queue) ==
    LET occupied == Occupied(p, queue)
        ready == ReadyNonces(occupied)
    IN  [ready |-> Cardinality(ready), blocked |-> Cardinality(occupied \ ready)]

----------------------------------------------------------------------------
(* Candidates and simulation tasks *)

NormalizedMemberHashes(hash, members) == IF members = {} THEN {hash} ELSE members

MembersOf(c) == NormalizedMemberHashes(c.tx_hash, c.member_tx_hashes)

SimulationTaskSpec ==
    [candidate_id : CandidateIds, tx_hash : Hashes, member_tx_hashes : SUBSET Hashes,
     block_number : Blocks, generation : 0..MaxGeneration]

\* A result of task t is applied; every other result is counted as stale.
AcceptsResult(t) ==
    LET entry == candidates[t.candidate_id] IN
    /\ entry # None
    /\ entry.tx_hash = t.tx_hash
    /\ MembersOf(entry) = MembersOf(t)
    /\ entry.block_number = t.block_number
    /\ entry.generation = t.generation
    /\ t.block_number = head_block_number

\* Faulty NextGeneration: registering again keeps the generation.
SameGeneration(id) ==
    IF candidates[id] = None THEN 1 ELSE candidates[id].generation

NextGeneration(id) ==
    IF candidates[id] = None THEN 1 ELSE candidates[id].generation + 1

----------------------------------------------------------------------------
Metrics ==
    [admitted_total : 0..CounterMax, duplicate_total : 0..CounterMax,
     replacement_total : 0..CounterMax,
     underpriced_replacement_total : 0..CounterMax,
     sender_limit_drop_total : 0..CounterMax,
     stale_simulation_drop_total : 0..CounterMax]

Init ==
    /\ pending = {}
    /\ sender_queues = NoQueues
    /\ sender_queue_counts = [s \in Senders |-> [ready |-> 0, blocked |-> 0]]
    /\ ready_total = 0
    /\ blocked_total = 0
    /\ candidates = [id \in CandidateIds |-> None]
    /\ head_block_number = 0
    /\ metrics = [admitted_total |-> 0, duplicate_total |-> 0,
                  replacement_total |-> 0, underpriced_replacement_total |-> 0,
                  sender_limit_drop_total |-> 0, stale_simulation_drop_total |-> 0]
    /\ tasks = {}
    /\ observed = [h \in Hashes |-> None]
    /\ retired = {}
    /\ superseded = {}

----------------------------------------------------------------------------
(* Admission: `admit`, one action per outcome *)

\* The hash queued at h's sender and nonce.
Incumbent(h) == SlotOf(sender_queues, h)

SenderQueueLen(s) == Cardinality({n \in Nonces : sender_queues[s][n] # None})

SaturatingSub(a, b) == IF a > b THEN a - b ELSE 0

\* Faulty RefreshSenderCounts: the sender's old share is not subtracted.
RefreshWithoutSubtracting(s, p, queue) ==
    LET next == ClassifySenderQueueCounts(p, queue)
    IN  /\ sender_queue_counts' = [sender_queue_counts EXCEPT ![s] = next]
        /\ ready_total' = ready_total + next.ready
        /\ blocked_total' = blocked_total + next.blocked

\* Subtract the sender's cached counts from the totals, classify its queue
\* again and add the fresh counts.
RefreshSenderCounts(s, p, queue) ==
    LET previous == sender_queue_counts[s]
        next == ClassifySenderQueueCounts(p, queue)
    IN  /\ sender_queue_counts' = [sender_queue_counts EXCEPT ![s] = next]
        /\ ready_total' = SaturatingSub(ready_total, previous.ready) + next.ready
        /\ blocked_total' = SaturatingSub(blocked_total, previous.blocked) + next.blocked

\* Put h in its slot in place of `removed` (None or the replaced hash), refresh
\* the counts and report the queue transitions to whoever follows them.
Place(h, removed) ==
    LET s == Tx[h].sender
        nextPending == (pending \ {removed}) \cup {h}
        nextQueue == [sender_queues[s] EXCEPT ![Tx[h].nonce] = h]
        previous == SenderQueuePositions(pending, sender_queues[s])
        next == SenderQueuePositions(nextPending, nextQueue)
    IN  /\ pending' = nextPending
        /\ sender_queues' = [sender_queues EXCEPT ![s] = nextQueue]
        /\ RefreshSenderCounts(s, nextPending, nextQueue)
        /\ observed' = [x \in Hashes |->
                          IF x \in QueueTransitions(previous, next) THEN next[x]
                          ELSE IF x = removed THEN None ELSE observed[x]]

AdmitDuplicate(h) ==
    /\ h \in pending
    /\ metrics' = [metrics EXCEPT !.duplicate_total = Bump(@)]
    /\ UNCHANGED <<admission_vars, candidate_vars, head_block_number>>

\* Faulty AdmitReplacement: the incumbent stays in the pending map.
ReplacementKeepsIncumbent(h) ==
    /\ h \notin pending
    /\ Incumbent(h) \in pending
    /\ ReplacementFee(h) >= ReplacementThresholdFee(Incumbent(h))
    /\ Place(h, None)
    /\ retired' = retired \cup {Incumbent(h)}
    /\ metrics' = [metrics EXCEPT !.admitted_total = Bump(@), !.replacement_total = Bump(@)]
    /\ UNCHANGED <<candidate_vars, head_block_number>>

\* Faulty AdmitReplacement: the fee is not compared.
ReplacementUnpriced(h) ==
    /\ h \notin pending
    /\ Incumbent(h) \in pending
    /\ Place(h, Incumbent(h))
    /\ retired' = retired \cup {Incumbent(h)}
    /\ metrics' = [metrics EXCEPT !.admitted_total = Bump(@), !.replacement_total = Bump(@)]
    /\ UNCHANGED <<candidate_vars, head_block_number>>

AdmitReplacement(h) ==
    /\ h \notin pending
    /\ Incumbent(h) \in pending
    /\ ReplacementFee(h) >= ReplacementThresholdFee(Incumbent(h))
    /\ Place(h, Incumbent(h))
    /\ retired' = retired \cup {Incumbent(h)}
    /\ metrics' = [metrics EXCEPT !.admitted_total = Bump(@), !.replacement_total = Bump(@)]
    /\ UNCHANGED <<candidate_vars, head_block_number>>

AdmitUnderpriced(h) ==
    /\ h \notin pending
    /\ Incumbent(h) \in pending
    /\ ReplacementFee(h) < ReplacementThresholdFee(Incumbent(h))
    /\ metrics' = [metrics EXCEPT !.underpriced_replacement_total = Bump(@)]
    /\ UNCHANGED <<admission_vars, candidate_vars, head_block_number>>

AdmitOverLimit(h) ==
    /\ h \notin pending
    /\ Incumbent(h) = None
    /\ SenderQueueLen(Tx[h].sender) >= MaxPendingPerSender
    /\ metrics' = [metrics EXCEPT !.sender_limit_drop_total = Bump(@)]
    /\ UNCHANGED <<admission_vars, candidate_vars, head_block_number>>

\* Faulty AdmitNew: off by one at the limit.
AdmitOneTooMany(h) ==
    /\ h \notin pending
    /\ Incumbent(h) \notin pending
    /\ Incumbent(h) = None => SenderQueueLen(Tx[h].sender) <= MaxPendingPerSender
    /\ Place(h, None)
    /\ metrics' = [metrics EXCEPT !.admitted_total = Bump(@)]
    /\ UNCHANGED <<retired, candidate_vars, head_block_number>>

\* A slot whose hash is no longer pending is taken over without the limit check.
AdmitNew(h) ==
    /\ h \notin pending
    /\ Incumbent(h) \notin pending
    /\ Incumbent(h) = None => SenderQueueLen(Tx[h].sender) < MaxPendingPerSender
    /\ Place(h, None)
    /\ metrics' = [metrics EXCEPT !.admitted_total = Bump(@)]
    /\ UNCHANGED <<retired, candidate_vars, head_block_number>>

Admit(h) ==
    \/ AdmitDuplicate(h)
    \/ AdmitReplacement(h)
    \/ AdmitUnderpriced(h)
    \/ AdmitOverLimit(h)
    \/ AdmitNew(h)

----------------------------------------------------------------------------
(* Candidates, results and head *)

\* A batch as live_rpc builds it: at most one candidate per id.
RegistrationBatches ==
    {batch \in SUBSET CandidateSpecs :
        /\ batch # {}
        /\ \A c, d \in batch : c.candidate_id = d.candidate_id => c = d}

TaskFor(c) ==
    [candidate_id |-> c.candidate_id, tx_hash |-> c.tx_hash,
     member_tx_hashes |-> MembersOf(c), block_number |-> head_block_number,
     generation |-> NextGeneration(c.candidate_id)]

\* Every candidate of the batch starts a new generation at the current head and
\* gets a simulation task.
RegisterCandidates(batch) ==
    LET ids == {c.candidate_id : c \in batch}
        specOf(id) == CHOOSE c \in batch : c.candidate_id = id
    IN
    /\ \A id \in ids : NextGeneration(id) <= MaxGeneration
    /\ candidates' = [id \in CandidateIds |->
                        IF id \in ids
                        THEN [tx_hash |-> specOf(id).tx_hash,
                              member_tx_hashes |-> specOf(id).member_tx_hashes,
                              block_number |-> head_block_number,
                              generation |-> NextGeneration(id)]
                        ELSE candidates[id]]
    /\ tasks' = tasks \cup {TaskFor(c) : c \in batch}
    /\ superseded' = superseded \cup {t \in tasks : t.candidate_id \in ids}
    /\ UNCHANGED <<admission_vars, head_block_number, metrics>>

\* The current result of a candidate: it is settled by moving the generation
\* on, whether the simulation approved it or not.
ApplySimulationResult(t) ==
    /\ AcceptsResult(t)
    /\ t.generation < MaxGeneration
    /\ candidates' = [candidates EXCEPT ![t.candidate_id].generation = @ + 1]
    /\ superseded' = superseded \cup {t}
    /\ UNCHANGED <<tasks, admission_vars, head_block_number, metrics>>

RecordStaleSimulationResult(t) ==
    /\ ~AcceptsResult(t)
    /\ metrics' = [metrics EXCEPT !.stale_simulation_drop_total = Bump(@)]
    /\ UNCHANGED <<admission_vars, candidate_vars, head_block_number>>

Touches(c, hash) == c.tx_hash = hash \/ hash \in MembersOf(c)

InvalidateCandidateHash(hash) ==
    LET hit(id) == candidates[id] # None /\ Touches(candidates[id], hash) IN
    /\ \A id \in CandidateIds : hit(id) => candidates[id].generation < MaxGeneration
    /\ candidates' = [id \in CandidateIds |->
                        IF hit(id)
                        THEN [candidates[id] EXCEPT !.generation = @ + 1]
                        ELSE candidates[id]]
    /\ superseded' = superseded \cup {t \in tasks : Touches(t, hash)}
    /\ UNCHANGED <<tasks, admission_vars, head_block_number, metrics>>

AdvanceHead(block) ==
    /\ head_block_number' = block
    /\ UNCHANGED <<admission_vars, candidate_vars, metrics>>

Next ==
    \/ \E h \in Hashes : Admit(h)
    \/ \E batch \in RegistrationBatches : RegisterCandidates(batch)
    \/ \E t \in tasks : ApplySimulationResult(t) \/ RecordStaleSimulationResult(t)
    \/ \E h \in Hashes : InvalidateCandidateHash(h)
    \/ \E b \in Blocks : AdvanceHead(b)

Spec == Init /\ [][Next]_vars

----------------------------------------------------------------------------
(* Properties *)

TypeOK ==
    /\ pending \subseteq Hashes
    /\ sender_queues \in [Senders -> [Nonces -> Hashes \cup {None}]]
    /\ sender_queue_counts \in [Senders -> [ready : Nat, blocked : Nat]]
    /\ ready_total \in Nat
    /\ blocked_total \in Nat
    /\ candidates \in [CandidateIds -> CandidateEntry \cup {None}]
    /\ head_block_number \in Blocks
    /\ metrics \in Metrics
    /\ tasks \subseteq SimulationTaskSpec
    /\ observed \in [Hashes -> QueueState \cup {None}]
    /\ retired \subseteq Hashes
    /\ superseded \subseteq tasks

\* The two indexes of the pool agree whatever sequence of admissions and
\* replacements built them: every queue entry is pending under its own sender
\* and nonce, and every pending hash holds its slot.  `admit` updates the maps
\* in separate statements, and classification, snapshots and rehydration
\* (QueueEntryMismatch, MissingPendingTransaction) rely on their agreement.
QueuesMatchPending ==
    /\ \A s \in Senders, n \in Nonces :
         LET h == sender_queues[s][n]
         IN  h # None => h \in pending /\ Tx[h].sender = s /\ Tx[h].nonce = n
    /\ \A h \in pending : Incumbent(h) = h

\* max_pending_per_sender bounds every queue at all times, although the limit is
\* only checked on the path that opens a new slot and replacements bypass it.
SenderLimitHolds ==
    \A s \in Senders : SenderQueueLen(s) <= MaxPendingPerSender

ReadySlots ==
    {slot \in Senders \X Nonces :
        slot[2] \in ReadyNonces(Occupied(pending, sender_queues[slot[1]]))}

OccupiedSlots ==
    {slot \in Senders \X Nonces : slot[2] \in Occupied(pending, sender_queues[slot[1]])}

\* The ready and blocked totals that `metrics` reports are maintained
\* incrementally, one sender at a time with saturating subtraction
\* (`refresh_sender_counts`); they always equal a full recount of the queues.
TotalsMatchRecount ==
    /\ \A s \in Senders :
         sender_queue_counts[s] = ClassifySenderQueueCounts(pending, sender_queues[s])
    /\ ready_total = Cardinality(ReadySlots)
    /\ blocked_total = Cardinality(OccupiedSlots \ ReadySlots)

\* As long as the counters have not saturated, what is pending is exactly what
\* was admitted and not replaced: no path of `admit` loses or duplicates a
\* transaction without counting it.
PendingBalance ==
    metrics.admitted_total < CounterMax =>
        Cardinality(pending) = metrics.admitted_total - metrics.replacement_total

\* Every transaction the pool holds is accounted for: within its sender's limit and
\* in the balance of the counters.
PoolAccounted == SenderLimitHolds /\ PendingBalance

\* Whoever applies the queue transitions of every admission outcome and nothing
\* else (the TxReady and TxBlocked events, and the choice of which transactions
\* to search) knows the exact state of every pending transaction, the nonce a
\* blocked one waits for included.
TransitionsTellAll ==
    \A h \in Hashes :
        LET queue == sender_queues[Tx[h].sender]
        IN  observed[h] = IF h \in pending
                          THEN QueueEntryState(Occupied(pending, queue), Tx[h].nonce)
                          ELSE None

\* No fee is so large that the threshold product saturates.
NoFeeSaturation ==
    \A h \in Hashes : ReplacementFee(h) * (10000 + FeeBumpBps) <= U128Max

\* A slot never empties, and its transaction only gives way to one that pays at
\* least the configured bump more (rule 1 of the replacement policy), computed
\* without the rounding of `replacement_threshold_fee`.
SlotFeesRise ==
    [][NoFeeSaturation =>
         \A s \in Senders, n \in Nonces :
            LET old == sender_queues[s][n]
                new == sender_queues'[s][n]
            IN  old # None /\ new # old =>
                  /\ new # None
                  /\ ReplacementFee(new) * 10000
                       >= ReplacementFee(old) * (10000 + FeeBumpBps)]_vars

\* Fees and bump are positive, so that a replacement always pays more.
OrdinaryFees ==
    NoFeeSaturation /\ FeeBumpBps > 0 /\ \A h \in Hashes : ReplacementFee(h) > 0

\* Replacement cannot cycle: a replaced transaction that is seen again never
\* gets back into the pool, provided fees and bump are positive.
ReplacedStayOut == OrdinaryFees => retired \cap pending = {}

\* A simulation result is good for one decision: once its task was settled, its
\* candidate registered again or one of its members invalidated, no later
\* sequence of commands makes the scheduler accept it (and hand the candidate
\* to the builder) again.
StaleResultsRejected == \A t \in superseded : ~AcceptsResult(t)

\* Every queue the scheduler can get into is classified by the closed form as the
\* traversals of `queue_entry_state` classify it, entry by entry.
ClassifierMatchesScan ==
    \A s \in Senders :
        LET occupied == Occupied(pending, sender_queues[s])
            scanned == QueueScan(occupied)
        IN  \A n \in occupied : QueueEntryState(occupied, n) = scanned[n]
=============================================================================
