------------------------- MODULE SimulationService -------------------------
(***************************************************************************)
(* The remote simulation service of the live runtime: a bounded task queue *)
(* that the chain workers fill, the simulation workers behind it, the      *)
(* account seeds they fetch and share in `RemoteStateCache`, and the       *)
(* counters of RuntimeCore (crates/runtime-core).                          *)
(*                                                                         *)
(* The node answers for its latest block: `head`, which only grows on one  *)
(* endpoint.  A seed is two answers, the balance and the nonce, each known *)
(* here by the head it was read at.  A lookup may always miss: an entry    *)
(* older than its time to live is not used.  The scheduler and builder     *)
(* side of an outcome is LivePipeline's.  The clock, the latencies and the *)
(* other counters are left out.                                            *)
(***************************************************************************)
EXTENDS Integers, Sequences, FiniteSets

CONSTANTS
    Producers,       \* tasks that enqueue: chain workers and the pool rebuild
    Workers,         \* DEFAULT_SIM_WORKER_COUNT tasks that simulate
    Tasks,           \* bound: the requests made, each of them once
    Accounts,
    SendersOf,       \* the senders of the transactions of a request
    QueueCapacity,
    MaxHead,         \* bound: the last block of the node
    MaxDrops,        \* bound: how often the workers' runtime goes away
    None

ASSUME SimulationAssumption ==
    /\ IsFiniteSet(Producers) /\ IsFiniteSet(Workers) /\ IsFiniteSet(Tasks)
    /\ SendersOf \in [Tasks -> SUBSET Accounts]
    /\ QueueCapacity \in Nat \ {0} /\ MaxHead \in Nat /\ MaxDrops \in Nat
    /\ None \notin Tasks /\ None \notin Nat

VARIABLES
    head,        \* the node's latest block
    producer,    \* what each producer is about to count
    unsent,      \* requests not made yet
    queue,       \* ingress channel
    worker,      \* what each worker does
    cache,       \* account_seeds: the seed of an account and the block it is for
    metrics,     \* LiveRpcSimulationMetricsSnapshot
    finished,    \* SimulationStatusStore::by_id: requests with a result
    lost,        \* history: requests gone with the workers' runtime
    drops        \* how often that happened

vars == <<head, producer, unsent, queue, worker, cache, metrics, finished, lost, drops>>

Idle == [phase |-> "idle", task |-> None, block |-> None, seeds |-> <<>>, balance_at |-> None]

Counters == {"enqueued", "queue_depth", "inflight", "queue_full_drop", "completed",
             "ok", "failed", "state_error", "timeout"}

Init ==
    /\ head = 0
    /\ producer = [p \in Producers |-> "idle"]
    /\ unsent = Tasks
    /\ queue = <<>>
    /\ worker = [w \in Workers |-> Idle]
    /\ cache = [a \in Accounts |-> None]
    /\ metrics = [c \in Counters |-> 0]
    /\ finished = {} /\ lost = {} /\ drops = 0

----------------------------------------------------------------------------
(* Producers: `enqueue` sends and then counts *)

\* A closed channel is replaced first (`runtime`): RuntimeDropped leaves the
\* channel as a new one is.
TrySend(p, t) ==
    /\ producer[p] = "idle" /\ t \in unsent
    /\ unsent' = unsent \ {t}
    /\ IF Len(queue) < QueueCapacity
       THEN queue' = Append(queue, t) /\ producer' = [producer EXCEPT ![p] = "sent"]
       ELSE queue' = queue /\ producer' = [producer EXCEPT ![p] = "refused"]
    /\ UNCHANGED <<head, worker, cache, metrics, finished, lost, drops>>

\* The runtime that `runtime` found open is gone before the send: an error, of
\* which nothing is counted.
SendClosed(p, t) ==
    /\ producer[p] = "idle" /\ t \in unsent /\ drops > 0
    /\ unsent' = unsent \ {t}
    /\ UNCHANGED <<head, producer, queue, worker, cache, metrics, finished, lost, drops>>

ObserveEnqueue(p) ==
    /\ producer[p] = "sent"
    /\ metrics' = [metrics EXCEPT !["enqueued"] = @ + 1, !["queue_depth"] = @ + 1]
    /\ producer' = [producer EXCEPT ![p] = "idle"]
    /\ UNCHANGED <<head, unsent, queue, worker, cache, finished, lost, drops>>

ObserveQueueFullDrop(p) ==
    /\ producer[p] = "refused"
    /\ metrics' = [metrics EXCEPT !["queue_full_drop"] = @ + 1]
    /\ producer' = [producer EXCEPT ![p] = "idle"]
    /\ UNCHANGED <<head, unsent, queue, worker, cache, finished, lost, drops>>

----------------------------------------------------------------------------
(* Workers *)

SaturatingDecrement(n) == IF n = 0 THEN 0 ELSE n - 1

\* `receiver.recv()`: one worker at a time holds the receiver.
Dequeue(w) ==
    /\ worker[w].phase = "idle" /\ queue # <<>>
    /\ worker' = [worker EXCEPT ![w] = [Idle EXCEPT !.phase = "taken", !.task = Head(queue)]]
    /\ queue' = Tail(queue)
    /\ UNCHANGED <<head, producer, unsent, cache, metrics, finished, lost, drops>>

\* Faulty ObserveDequeue: the request leaves the depth shown twice.
ObserveDequeueTwice(w) ==
    /\ worker[w].phase = "taken"
    /\ metrics' = [metrics EXCEPT !["queue_depth"] = SaturatingDecrement(SaturatingDecrement(@)),
                                  !["inflight"] = @ + 1]
    /\ worker' = [worker EXCEPT ![w].phase = "header"]
    /\ UNCHANGED <<head, producer, unsent, queue, cache, finished, lost, drops>>

ObserveDequeue(w) ==
    /\ worker[w].phase = "taken"
    /\ metrics' = [metrics EXCEPT !["queue_depth"] = SaturatingDecrement(@),
                                  !["inflight"] = @ + 1]
    /\ worker' = [worker EXCEPT ![w].phase = "header"]
    /\ UNCHANGED <<head, producer, unsent, queue, cache, finished, lost, drops>>

\* `fetch_remote_chain_context`: the block that the simulation is run on.
FetchHeader(w) ==
    /\ worker[w].phase = "header"
    /\ worker' = [worker EXCEPT ![w].phase = "seeds", ![w].block = head]
    /\ UNCHANGED <<head, producer, unsent, queue, cache, metrics, finished, lost, drops>>

\* The senders that still need a seed.
SeedsMissing(w) == SendersOf[worker[w].task] \ DOMAIN worker[w].seeds

WithSeed(w, a, seed) ==
    [x \in DOMAIN worker[w].seeds \cup {a} |->
       IF x = a THEN seed ELSE worker[w].seeds[x]]

\* Faulty CacheHit: a seed that was stored for another block is used.
CacheHitAnyBlock(w, a) == cache[a] # None

\* `cached_account_seed`.
CacheHit(w, a) == cache[a] # None /\ cache[a].block = worker[w].block

UseCachedSeed(w) ==
    /\ worker[w].phase = "seeds"
    /\ \E a \in SeedsMissing(w) :
          /\ CacheHit(w, a)
          /\ worker' = [worker EXCEPT ![w].seeds = WithSeed(w, a, cache[a].seed)]
    /\ UNCHANGED <<head, producer, unsent, queue, cache, metrics, finished, lost, drops>>

\* `fetch_account_seed_from_rpc`: the balance is read first,
FetchBalance(w) ==
    /\ worker[w].phase = "seeds" /\ SeedsMissing(w) # {}
    /\ worker' = [worker EXCEPT ![w].phase = "nonce", ![w].balance_at = head]
    /\ UNCHANGED <<head, producer, unsent, queue, cache, metrics, finished, lost, drops>>

\* then the nonce, and the seed is stored for the block of this simulation.
FetchNonce(w) ==
    /\ worker[w].phase = "nonce"
    /\ \E a \in SeedsMissing(w) :
          LET seed == [balance_at |-> worker[w].balance_at, nonce_at |-> head]
          IN  /\ cache' = [cache EXCEPT ![a] = [block |-> worker[w].block, seed |-> seed]]
              /\ worker' = [worker EXCEPT ![w].phase = "seeds", ![w].balance_at = None,
                                          ![w].seeds = WithSeed(w, a, seed)]
    /\ UNCHANGED <<head, producer, unsent, queue, metrics, finished, lost, drops>>

\* `observe_simulation_result` with the result of the request.
Conclude(w, status) ==
    /\ metrics' = [metrics EXCEPT !["completed"] = @ + 1, ![status] = @ + 1]
    /\ worker' = [worker EXCEPT ![w] =
                    [Idle EXCEPT !.phase = "apply", !.task = worker[w].task]]
    /\ UNCHANGED <<head, producer, unsent, queue, cache, finished, lost, drops>>

\* `simulate_with_mode` and `summarize_simulation_batch`.
Simulate(w) ==
    /\ worker[w].phase = "seeds" /\ SeedsMissing(w) = {}
    /\ \E status \in {"ok", "failed"} : Conclude(w, status)

\* A request to the node fails, or its answer cannot be read.
StateError(w) ==
    /\ worker[w].phase \in {"header", "nonce"}
       \/ (worker[w].phase = "seeds" /\ SeedsMissing(w) # {})
    /\ Conclude(w, "state_error")

\* Faulty Timeout: only the request for the header is given up.
TimeoutOnHeader(w) == worker[w].phase = "header" /\ Conclude(w, "timeout")

\* `tokio::time::timeout` around all requests to the node.
Timeout(w) == worker[w].phase \in {"header", "seeds", "nonce"} /\ Conclude(w, "timeout")

\* `record_simulation_status` in `apply_simulation_task_outcome`.
ApplyOutcome(w) ==
    /\ worker[w].phase = "apply"
    /\ finished' = finished \cup {worker[w].task}
    /\ worker' = [worker EXCEPT ![w].phase = "finish"]
    /\ UNCHANGED <<head, producer, unsent, queue, cache, metrics, lost, drops>>

ObserveFinish(w) ==
    /\ worker[w].phase = "finish"
    /\ metrics' = [metrics EXCEPT !["inflight"] = SaturatingDecrement(@)]
    /\ worker' = [worker EXCEPT ![w] = Idle]
    /\ UNCHANGED <<head, producer, unsent, queue, cache, finished, lost, drops>>

----------------------------------------------------------------------------
(* Environment *)

NewBlock ==
    /\ head < MaxHead
    /\ head' = head + 1
    /\ UNCHANGED <<producer, unsent, queue, worker, cache, metrics, finished, lost, drops>>

Busy == {w \in Workers : worker[w].phase # "idle"}

\* The async runtime of the workers is gone: they end where they are and the
\* channel closes.
RuntimeDropped ==
    /\ drops < MaxDrops
    /\ drops' = drops + 1
    /\ lost' = lost \cup {queue[i] : i \in DOMAIN queue}
                    \cup ({worker[w].task : w \in Busy} \ finished)
    /\ queue' = <<>>
    /\ worker' = [w \in Workers |-> Idle]
    /\ UNCHANGED <<head, producer, unsent, cache, metrics, finished>>

WorkerStep(w) ==
    \/ Dequeue(w) \/ ObserveDequeue(w) \/ Simulate(w) \/ Timeout(w)
    \/ ApplyOutcome(w) \/ ObserveFinish(w)

\* What the node answers, which may be never.
NodeAnswers(w) ==
    FetchHeader(w) \/ UseCachedSeed(w) \/ FetchBalance(w) \/ FetchNonce(w) \/ StateError(w)

Next ==
    \/ \E p \in Producers :
          \/ \E t \in Tasks : TrySend(p, t) \/ SendClosed(p, t)
          \/ ObserveEnqueue(p) \/ ObserveQueueFullDrop(p)
    \/ \E w \in Workers : WorkerStep(w) \/ NodeAnswers(w)
    \/ NewBlock
    \/ RuntimeDropped

\* A simulation worker is a task of the async runtime, which runs what is ready and
\* fires what is due; nothing is assumed of the node or of the producers.
Spec == Init /\ [][Next]_vars /\ \A w \in Workers : WF_vars(WorkerStep(w))

----------------------------------------------------------------------------
(* Properties *)

InPhase(phases) == Cardinality({w \in Workers : worker[w].phase \in phases})
Uncounted == Cardinality({p \in Producers : producer[p] = "sent"})

\* The counters account for every request although it is counted after it was
\* sent, when a worker may already have taken or even finished it: the depth shown
\* never understates the queue, the requests under way are those a worker holds,
\* and every result has one status.  (The depth shown may stay too high for good:
\* a request taken before it was counted is subtracted from a depth of zero and
\* added afterwards.  With a runtime lost, requests under way stay counted too.)
CountersAccount ==
    /\ metrics["queue_depth"] + Uncounted >= Len(queue) + InPhase({"taken"})
    /\ metrics["inflight"] >= Cardinality(Busy) - InPhase({"taken"})
    /\ drops = 0 => metrics["inflight"] = Cardinality(Busy) - InPhase({"taken"})
    /\ metrics["completed"] = metrics["ok"] + metrics["failed"] + metrics["state_error"]
                              + metrics["timeout"]
    /\ drops = 0 => metrics["enqueued"] + Uncounted
                      = Len(queue) + Cardinality(Busy) + Cardinality(finished)
                        - InPhase({"finish"})

\* No simulation runs on account state older than its block, whichever worker
\* fetched the state and however the workers overwrite each other's cache entries.
SeedsNotOlder ==
    \A w \in Workers : \A a \in DOMAIN worker[w].seeds :
        LET seed == worker[w].seeds[a]
        IN  worker[w].block <= seed.balance_at /\ seed.balance_at <= seed.nonce_at

\* Every request that the queue accepted gets a result, whatever the node does
\* not answer, unless the workers' runtime goes away.
AcceptedFinish ==
    \A t \in Tasks :
        (\E i \in DOMAIN queue : queue[i] = t) ~> (t \in finished \cup lost)
=============================================================================
