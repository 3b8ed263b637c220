---------------------- MODULE SimulationServiceProofs ----------------------
(***************************************************************************)
(* The seeds a simulation runs on and the counters of the service, for     *)
(* every number of producers, workers, requests and accounts.              *)
(***************************************************************************)
EXTENDS SimulationService, FiniteSetTheorems, SequenceTheorems, TLAPS

Phases == {"idle", "taken", "header", "seeds", "nonce", "apply", "finish"}

Seed == [balance_at : Nat, nonce_at : Nat]

\* `CachedAccountSeed`.
CacheEntry == [block : Nat, seed : Seed]

Worker ==
    [phase : Phases, task : Tasks \cup {None}, block : Nat \cup {None},
     seeds : UNION {[S -> Seed] : S \in SUBSET Accounts}, balance_at : Nat \cup {None}]

TypeOK ==
    /\ head \in Nat
    /\ producer \in [Producers -> {"idle", "sent", "refused"}]
    /\ unsent \subseteq Tasks
    /\ queue \in Seq(Tasks)
    /\ worker \in [Workers -> Worker]
    /\ \A w \in Workers :
         /\ worker[w].phase # "idle" => worker[w].task \in Tasks
         /\ worker[w].phase \in {"seeds", "nonce"} => worker[w].block \in Nat
         /\ worker[w].phase = "nonce" => worker[w].balance_at \in Nat
    /\ cache \in [Accounts -> CacheEntry \cup {None}]
    /\ metrics \in [Counters -> Nat]
    /\ finished \subseteq Tasks
    /\ drops \in Nat

\* An idle worker has no seeds, which `<<>>`, the empty function, stands for.
LEMMA IdleType == Idle \in Worker
<1>1. <<>> \in [{} -> Seed]
  OBVIOUS
<1>2. <<>> \in UNION {[S -> Seed] : S \in SUBSET Accounts}
  BY <1>1
<1>3. QED
  BY <1>2 DEF Idle, Worker, Phases

\* One more seed is a map of seeds.
LEMMA WithSeedType ==
    ASSUME TypeOK, NEW w \in Workers, NEW a \in Accounts, NEW seed \in Seed
    PROVE  WithSeed(w, a, seed) \in UNION {[S -> Seed] : S \in SUBSET Accounts}
<1>1. PICK S \in SUBSET Accounts : worker[w].seeds \in [S -> Seed]
  <2>1. worker[w].seeds \in UNION {[S -> Seed] : S \in SUBSET Accounts}
    BY DEF TypeOK, Worker
  <2>2. QED
    BY <2>1
<1>2. WithSeed(w, a, seed) \in [S \cup {a} -> Seed]
  BY <1>1 DEF WithSeed
<1>3. S \cup {a} \in SUBSET Accounts
  OBVIOUS
<1>4. QED
  BY <1>2, <1>3

\* A service that starts has the types.
LEMMA InitTypeOK == Init => TypeOK
<1> SUFFICES ASSUME Init PROVE TypeOK
  OBVIOUS
<1>1. worker \in [Workers -> Worker] /\ \A w \in Workers : worker[w].phase = "idle"
  BY IdleType DEF Init, Idle
<1>2. QED
  BY <1>1, EmptySeq, SimulationAssumption DEF Init, TypeOK

\* The seeds a request needs are of accounts.
LEMMA MissingAreAccounts ==
    ASSUME TypeOK, NEW w \in Workers, worker[w].phase # "idle"
    PROVE  SeedsMissing(w) \subseteq Accounts
BY SimulationAssumption DEF SeedsMissing, TypeOK

\* What a worker's record may become.
WellFormed(v) ==
    /\ v \in Worker
    /\ v.phase # "idle" => v.task \in Tasks
    /\ v.phase \in {"seeds", "nonce"} => v.block \in Nat
    /\ v.phase = "nonce" => v.balance_at \in Nat

\* A step that writes one worker's record only has to be right about that record.
LEMMA OneWorkerType ==
    ASSUME TypeOK, NEW w \in Workers, NEW v, WellFormed(v),
           worker' = [worker EXCEPT ![w] = v]
    PROVE  /\ worker' \in [Workers -> Worker]
           /\ \A x \in Workers :
                /\ worker'[x].phase # "idle" => worker'[x].task \in Tasks
                /\ worker'[x].phase \in {"seeds", "nonce"} => worker'[x].block \in Nat
                /\ worker'[x].phase = "nonce" => worker'[x].balance_at \in Nat
BY DEF TypeOK, WellFormed

\* The decrement does not go below zero.
LEMMA DecrementType ==
    ASSUME NEW n \in Nat
    PROVE  SaturatingDecrement(n) \in Nat /\ n <= SaturatingDecrement(n) + 1
BY DEF SaturatingDecrement

\* What the counting steps do to the counters.
LEMMA EnqueueCounted ==
    ASSUME TypeOK, NEW p \in Producers, ObserveEnqueue(p)
    PROVE  /\ metrics' \in [Counters -> Nat]
           /\ metrics' = [c \in Counters |->
                            IF c \in {"enqueued", "queue_depth"} THEN metrics[c] + 1
                            ELSE metrics[c]]
<1>1. metrics' = [c \in Counters |->
                    IF c \in {"enqueued", "queue_depth"} THEN metrics[c] + 1 ELSE metrics[c]]
  BY DEF ObserveEnqueue, TypeOK, Counters
<1>2. metrics' \in [Counters -> Nat]
  BY <1>1 DEF TypeOK
<1>3. QED
  BY <1>1, <1>2

\* ... with the result of a request,
LEMMA ConcludeCounted ==
    ASSUME TypeOK, NEW w, NEW status \in {"ok", "failed", "state_error", "timeout"},
           Conclude(w, status)
    PROVE  /\ metrics' \in [Counters -> Nat]
           /\ metrics' = [c \in Counters |->
                            IF c \in {"completed", status} THEN metrics[c] + 1 ELSE metrics[c]]
<1>1. metrics' = [c \in Counters |->
                    IF c \in {"completed", status} THEN metrics[c] + 1 ELSE metrics[c]]
  BY DEF Conclude, TypeOK, Counters
<1>2. metrics' \in [Counters -> Nat]
  BY <1>1 DEF TypeOK
<1>3. QED
  BY <1>1, <1>2

\* ... and when a worker begins it.
LEMMA DequeueCounted ==
    ASSUME TypeOK, NEW w, ObserveDequeue(w)
    PROVE  /\ metrics' \in [Counters -> Nat]
           /\ metrics' = [c \in Counters |->
                            CASE c = "queue_depth" -> SaturatingDecrement(metrics[c])
                              [] c = "inflight" -> metrics[c] + 1
                              [] OTHER -> metrics[c]]
<1>1. metrics' = [c \in Counters |->
                    CASE c = "queue_depth" -> SaturatingDecrement(metrics[c])
                      [] c = "inflight" -> metrics[c] + 1
                      [] OTHER -> metrics[c]]
  BY DEF ObserveDequeue, TypeOK, Counters
<1>2. metrics' \in [Counters -> Nat]
  BY <1>1, DecrementType DEF TypeOK
<1>3. QED
  BY <1>1, <1>2

\* The steps of a producer keep the types;
LEMMA ProducerTypeOK ==
    ASSUME TypeOK, NEW p \in Producers,
           \/ \E t \in Tasks : TrySend(p, t) \/ SendClosed(p, t)
           \/ ObserveEnqueue(p) \/ ObserveQueueFullDrop(p)
    PROVE  TypeOK'
<1>1. CASE \E t \in Tasks : TrySend(p, t)
  <2>1. PICK t \in Tasks : TrySend(p, t)
    BY <1>1
  <2>2. queue' \in Seq(Tasks)
    <3>1. Append(queue, t) \in Seq(Tasks)
      BY AppendProperties DEF TypeOK
    <3>2. QED
      BY <2>1, <3>1 DEF TrySend, TypeOK
  <2>3. producer' \in [Producers -> {"idle", "sent", "refused"}]
    BY <2>1 DEF TrySend, TypeOK
  <2>4. QED
    BY <2>1, <2>2, <2>3 DEF TrySend, TypeOK
<1>2. CASE ObserveEnqueue(p)
  BY <1>2, EnqueueCounted DEF ObserveEnqueue, TypeOK
<1>3. CASE ObserveQueueFullDrop(p)
  BY <1>3 DEF ObserveQueueFullDrop, TypeOK, Counters
<1>4. CASE \E t \in Tasks : SendClosed(p, t)
  BY <1>4 DEF SendClosed, TypeOK
<1>5. QED
  BY <1>1, <1>2, <1>3, <1>4

\* so does taking a request,
LEMMA DequeueTypeOK ==
    ASSUME TypeOK, NEW w \in Workers, Dequeue(w)
    PROVE  TypeOK'
<1> DEFINE v == [Idle EXCEPT !.phase = "taken", !.task = Head(queue)]
<1>1. Head(queue) \in Tasks /\ Tail(queue) \in Seq(Tasks)
  BY HeadTailProperties DEF Dequeue, TypeOK
<1>2. WellFormed(v)
  BY <1>1, IdleType DEF WellFormed, Worker, Idle, Phases
<1>3. worker' = [worker EXCEPT ![w] = v]
  BY DEF Dequeue
<1> HIDE DEF v
<1>4. QED
  BY <1>1, <1>2, <1>3, OneWorkerType DEF Dequeue, TypeOK

\* having its result,
LEMMA ConcludeTypeOK ==
    ASSUME TypeOK, NEW w \in Workers, worker[w].phase # "idle",
           NEW status \in {"ok", "failed", "state_error", "timeout"}, Conclude(w, status)
    PROVE  TypeOK'
<1> DEFINE v == [Idle EXCEPT !.phase = "apply", !.task = worker[w].task]
<1>1. worker[w].task \in Tasks
  BY DEF TypeOK
<1>2. WellFormed(v)
  BY <1>1, IdleType DEF WellFormed, Worker, Idle, Phases
<1>3. worker' = [worker EXCEPT ![w] = v]
  BY DEF Conclude
<1>4. metrics' \in [Counters -> Nat]
  BY ConcludeCounted
<1> HIDE DEF v
<1>5. QED
  BY <1>2, <1>3, <1>4, OneWorkerType DEF Conclude, TypeOK

\* every other step of a worker and of the node,
LEMMA WorkerTypeOK ==
    ASSUME TypeOK, NEW w \in Workers, WorkerStep(w) \/ NodeAnswers(w)
    PROVE  TypeOK'
<1> DEFINE old == worker[w]
<1>0. /\ old \in Worker
      /\ old.phase # "idle" => old.task \in Tasks
      /\ old.phase \in {"seeds", "nonce"} => old.block \in Nat
      /\ old.phase = "nonce" => old.balance_at \in Nat
  BY DEF TypeOK
<1>1. CASE Dequeue(w)
  BY <1>1, DequeueTypeOK
<1>2. CASE ObserveDequeue(w)
  <2> DEFINE v == [old EXCEPT !.phase = "header"]
  <2>1. WellFormed(v)
    BY <1>0, <1>2 DEF WellFormed, Worker, Phases, ObserveDequeue
  <2>2. worker' = [worker EXCEPT ![w] = v]
    BY <1>2 DEF ObserveDequeue
  <2>3. metrics' \in [Counters -> Nat]
    BY <1>2, DequeueCounted
  <2> HIDE DEF v
  <2>4. QED
    BY <1>2, <2>1, <2>2, <2>3, OneWorkerType DEF ObserveDequeue, TypeOK
<1>3. CASE Simulate(w) \/ Timeout(w) \/ StateError(w)
  BY <1>3, ConcludeTypeOK DEF Simulate, Timeout, StateError
<1>4. CASE ApplyOutcome(w)
  <2> DEFINE v == [old EXCEPT !.phase = "finish"]
  <2>1. WellFormed(v)
    BY <1>0, <1>4 DEF WellFormed, Worker, Phases, ApplyOutcome
  <2>2. worker' = [worker EXCEPT ![w] = v]
    BY <1>4 DEF ApplyOutcome
  <2>3. finished' \subseteq Tasks
    BY <1>0, <1>4 DEF ApplyOutcome, TypeOK
  <2> HIDE DEF v
  <2>4. QED
    BY <1>4, <2>1, <2>2, <2>3, OneWorkerType DEF ApplyOutcome, TypeOK
<1>5. CASE ObserveFinish(w)
  <2>1. WellFormed(Idle)
    BY IdleType DEF WellFormed, Idle
  <2>2. metrics' \in [Counters -> Nat]
    BY <1>5, DecrementType DEF ObserveFinish, TypeOK, Counters
  <2>3. QED
    BY <1>5, <2>1, <2>2, OneWorkerType DEF ObserveFinish, TypeOK
<1>6. CASE FetchHeader(w)
  <2> DEFINE v == [old EXCEPT !.phase = "seeds", !.block = head]
  <2>1. WellFormed(v)
    BY <1>0, <1>6 DEF WellFormed, Worker, Phases, FetchHeader, TypeOK
  <2>2. worker' = [worker EXCEPT ![w] = v]
    BY <1>6 DEF FetchHeader
  <2> HIDE DEF v
  <2>3. QED
    BY <1>6, <2>1, <2>2, OneWorkerType DEF FetchHeader, TypeOK
<1>7. CASE UseCachedSeed(w)
  <2>1. PICK a \in SeedsMissing(w) :
          CacheHit(w, a) /\ worker' = [worker EXCEPT ![w].seeds = WithSeed(w, a, cache[a].seed)]
    BY <1>7 DEF UseCachedSeed
  <2>2. old.phase = "seeds" /\ a \in Accounts
    BY <1>7, MissingAreAccounts DEF UseCachedSeed
  <2>3. cache[a].seed \in Seed
    BY <2>1, <2>2 DEF CacheHit, TypeOK, CacheEntry
  <2> DEFINE seeds == WithSeed(w, a, cache[a].seed)
             v == [old EXCEPT !.seeds = seeds]
  <2>4. seeds \in UNION {[S -> Seed] : S \in SUBSET Accounts}
    BY <2>2, <2>3, WithSeedType
  <2>5. worker' = [worker EXCEPT ![w] = v]
    BY <2>1
  <2> HIDE DEF seeds
  <2>6. WellFormed(v)
    BY <1>0, <2>4 DEF WellFormed, Worker
  <2> HIDE DEF v
  <2>7. QED
    BY <1>7, <2>5, <2>6, OneWorkerType DEF UseCachedSeed, TypeOK
<1>8. CASE FetchBalance(w)
  <2> DEFINE v == [old EXCEPT !.phase = "nonce", !.balance_at = head]
  <2>1. WellFormed(v)
    BY <1>0, <1>8 DEF WellFormed, Worker, Phases, FetchBalance, TypeOK
  <2>2. worker' = [worker EXCEPT ![w] = v]
    BY <1>8 DEF FetchBalance
  <2> HIDE DEF v
  <2>3. QED
    BY <1>8, <2>1, <2>2, OneWorkerType DEF FetchBalance, TypeOK
<1>9. CASE FetchNonce(w)
  <2> DEFINE seed == [balance_at |-> old.balance_at, nonce_at |-> head]
  <2>1. PICK a \in SeedsMissing(w) :
          /\ cache' = [cache EXCEPT ![a] = [block |-> old.block, seed |-> seed]]
          /\ worker' = [worker EXCEPT ![w].phase = "seeds", ![w].balance_at = None,
                                      ![w].seeds = WithSeed(w, a, seed)]
    BY <1>9 DEF FetchNonce
  <2>2. old.phase = "nonce" /\ a \in Accounts
    BY <1>9, MissingAreAccounts DEF FetchNonce
  <2>3. seed \in Seed /\ [block |-> old.block, seed |-> seed] \in CacheEntry
    BY <1>0, <2>2 DEF Seed, CacheEntry, TypeOK
  <2>4. cache' \in [Accounts -> CacheEntry \cup {None}]
    BY <2>1, <2>3 DEF TypeOK
  <2> DEFINE seeds == WithSeed(w, a, seed)
             v == [old EXCEPT !.phase = "seeds", !.balance_at = None, !.seeds = seeds]
  <2>5. seeds \in UNION {[S -> Seed] : S \in SUBSET Accounts}
    BY <2>2, <2>3, WithSeedType
  <2>6. worker' = [worker EXCEPT ![w] = v]
    BY <2>1
  <2> HIDE DEF seeds, seed
  <2>7. WellFormed(v)
    BY <1>0, <2>2, <2>5 DEF WellFormed, Worker, Phases
  <2> HIDE DEF v
  <2>8. QED
    BY <1>9, <2>4, <2>6, <2>7, OneWorkerType DEF FetchNonce, TypeOK
<1>10. QED
  BY <1>1, <1>2, <1>3, <1>4, <1>5, <1>6, <1>7, <1>8, <1>9 DEF WorkerStep, NodeAnswers

\* and so every step.
LEMMA NextTypeOK == TypeOK /\ [Next]_vars => TypeOK'
<1> SUFFICES ASSUME TypeOK, [Next]_vars PROVE TypeOK'
  OBVIOUS
<1>1. CASE \E p \in Producers :
             \/ \E t \in Tasks : TrySend(p, t) \/ SendClosed(p, t)
             \/ ObserveEnqueue(p) \/ ObserveQueueFullDrop(p)
  BY <1>1, ProducerTypeOK
<1>2. CASE \E w \in Workers : WorkerStep(w) \/ NodeAnswers(w)
  BY <1>2, WorkerTypeOK
<1>3. CASE NewBlock
  BY <1>3 DEF NewBlock, TypeOK
<1>4. CASE RuntimeDropped
  <2>1. worker' \in [Workers -> Worker] /\ \A w \in Workers : worker'[w].phase = "idle"
    BY <1>4, IdleType DEF RuntimeDropped, Idle
  <2>2. QED
    BY <1>4, <2>1, EmptySeq DEF RuntimeDropped, TypeOK
<1>5. CASE UNCHANGED vars
  BY <1>5 DEF vars, TypeOK
<1>6. QED
  BY <1>1, <1>2, <1>3, <1>4, <1>5 DEF Next

\* The state of the service keeps its types.
THEOREM ServiceTypeCorrect == Spec => []TypeOK
BY InitTypeOK, NextTypeOK, PTL DEF Spec

----------------------------------------------------------------------------
(* The age of the seeds *)

\* The answers a seed was made of are not older than the block.
NotOlder(block, seed) == block <= seed.balance_at /\ seed.balance_at <= seed.nonce_at

\* A worker's record when the node is at block `latest`.
FreshWorker(v, latest) ==
    /\ v.phase \in {"seeds", "nonce"} => v.block <= latest
    /\ v.phase = "nonce" => v.block <= v.balance_at /\ v.balance_at <= latest
    /\ v.phase \notin {"seeds", "nonce"} => DOMAIN v.seeds = {}
    /\ \A a \in DOMAIN v.seeds : NotOlder(v.block, v.seeds[a])

\* The inductive form of SeedsNotOlder: the shared cache keeps what it holds of it
\* by itself, whoever writes the entry.
FreshSeeds ==
    /\ \A a \in Accounts : cache[a] # None => NotOlder(cache[a].block, cache[a].seed)
    /\ \A w \in Workers : FreshWorker(worker[w], head)

\* As with the types, one worker's record is all that its step can spoil.
LEMMA OneWorkerFresh ==
    ASSUME TypeOK, FreshSeeds, NEW w \in Workers, NEW v, FreshWorker(v, head),
           worker' = [worker EXCEPT ![w] = v], UNCHANGED <<cache, head>>
    PROVE  FreshSeeds'
BY DEF TypeOK, FreshSeeds

\* A seed that is not older joins others that are not.
LEMMA WithSeedFresh ==
    ASSUME NEW w, NEW a, NEW seed, NEW block, NotOlder(block, seed),
           \A x \in DOMAIN worker[w].seeds : NotOlder(block, worker[w].seeds[x])
    PROVE  \A x \in DOMAIN WithSeed(w, a, seed) : NotOlder(block, WithSeed(w, a, seed)[x])
BY DEF WithSeed

\* Each step of a worker: the head it reads is the latest, and a cached seed is used
\* only for the block it was stored for.
LEMMA WorkerKeepsFresh ==
    ASSUME TypeOK, FreshSeeds, NEW w \in Workers, WorkerStep(w) \/ NodeAnswers(w)
    PROVE  FreshSeeds'
<1> DEFINE old == worker[w]
<1>0. /\ old \in Worker /\ head \in Nat /\ FreshWorker(old, head)
      /\ old.phase \in {"seeds", "nonce"} => old.block \in Nat
  BY DEF TypeOK, FreshSeeds
<1>1. CASE Dequeue(w)
  <2> DEFINE v == [Idle EXCEPT !.phase = "taken", !.task = Head(queue)]
  <2>1. FreshWorker(v, head)
    BY DEF FreshWorker, Idle
  <2>2. worker' = [worker EXCEPT ![w] = v] /\ UNCHANGED <<cache, head>>
    BY <1>1 DEF Dequeue
  <2> HIDE DEF v
  <2>3. QED
    BY <2>1, <2>2, OneWorkerFresh
<1>2. CASE ObserveDequeue(w)
  <2> DEFINE v == [old EXCEPT !.phase = "header"]
  <2>1. FreshWorker(v, head)
    BY <1>0, <1>2 DEF FreshWorker, Worker, ObserveDequeue
  <2>2. worker' = [worker EXCEPT ![w] = v] /\ UNCHANGED <<cache, head>>
    BY <1>2 DEF ObserveDequeue
  <2> HIDE DEF v
  <2>3. QED
    BY <2>1, <2>2, OneWorkerFresh
<1>3. CASE Simulate(w) \/ Timeout(w) \/ StateError(w)
  <2> DEFINE v == [Idle EXCEPT !.phase = "apply", !.task = worker[w].task]
  <2>1. FreshWorker(v, head)
    BY DEF FreshWorker, Idle
  <2>2. worker' = [worker EXCEPT ![w] = v] /\ UNCHANGED <<cache, head>>
    BY <1>3 DEF Simulate, Timeout, StateError, Conclude
  <2> HIDE DEF v
  <2>3. QED
    BY <2>1, <2>2, OneWorkerFresh
<1>4. CASE ApplyOutcome(w)
  <2> DEFINE v == [old EXCEPT !.phase = "finish"]
  <2>1. FreshWorker(v, head)
    BY <1>0, <1>4 DEF FreshWorker, Worker, ApplyOutcome
  <2>2. worker' = [worker EXCEPT ![w] = v] /\ UNCHANGED <<cache, head>>
    BY <1>4 DEF ApplyOutcome
  <2> HIDE DEF v
  <2>3. QED
    BY <2>1, <2>2, OneWorkerFresh
<1>5. CASE ObserveFinish(w)
  <2>1. FreshWorker(Idle, head)
    BY DEF FreshWorker, Idle
  <2>2. QED
    BY <1>5, <2>1, OneWorkerFresh DEF ObserveFinish
<1>6. CASE FetchHeader(w)
  <2> DEFINE v == [old EXCEPT !.phase = "seeds", !.block = head]
  <2>1. FreshWorker(v, head)
    BY <1>0, <1>6 DEF FreshWorker, Worker, FetchHeader
  <2>2. worker' = [worker EXCEPT ![w] = v] /\ UNCHANGED <<cache, head>>
    BY <1>6 DEF FetchHeader
  <2> HIDE DEF v
  <2>3. QED
    BY <2>1, <2>2, OneWorkerFresh
<1>7. CASE UseCachedSeed(w)
  <2>1. PICK a \in SeedsMissing(w) :
          CacheHit(w, a) /\ worker' = [worker EXCEPT ![w].seeds = WithSeed(w, a, cache[a].seed)]
    BY <1>7 DEF UseCachedSeed
  <2>2. old.phase = "seeds" /\ a \in Accounts
    BY <1>7, MissingAreAccounts DEF UseCachedSeed
  <2>3. NotOlder(old.block, cache[a].seed)
    BY <2>1, <2>2 DEF CacheHit, FreshSeeds
  <2> DEFINE seeds == WithSeed(w, a, cache[a].seed)
             v == [old EXCEPT !.seeds = seeds]
  <2>4. \A x \in DOMAIN seeds : NotOlder(old.block, seeds[x])
    BY <1>0, <2>3, WithSeedFresh DEF FreshWorker
  <2>5. worker' = [worker EXCEPT ![w] = v] /\ UNCHANGED <<cache, head>>
    BY <1>7, <2>1 DEF UseCachedSeed
  <2> HIDE DEF seeds
  <2>6. FreshWorker(v, head)
    BY <1>0, <2>2, <2>4 DEF FreshWorker, Worker
  <2> HIDE DEF v
  <2>7. QED
    BY <2>5, <2>6, OneWorkerFresh
<1>8. CASE FetchBalance(w)
  <2> DEFINE v == [old EXCEPT !.phase = "nonce", !.balance_at = head]
  <2>1. FreshWorker(v, head)
    BY <1>0, <1>8 DEF FreshWorker, Worker, FetchBalance
  <2>2. worker' = [worker EXCEPT ![w] = v] /\ UNCHANGED <<cache, head>>
    BY <1>8 DEF FetchBalance
  <2> HIDE DEF v
  <2>3. QED
    BY <2>1, <2>2, OneWorkerFresh
<1>9. CASE FetchNonce(w)
  <2> DEFINE seed == [balance_at |-> old.balance_at, nonce_at |-> head]
             entry == [block |-> old.block, seed |-> seed]
  <2>1. PICK a \in SeedsMissing(w) :
          /\ cache' = [cache EXCEPT ![a] = entry]
          /\ worker' = [worker EXCEPT ![w].phase = "seeds", ![w].balance_at = None,
                                      ![w].seeds = WithSeed(w, a, seed)]
    BY <1>9 DEF FetchNonce
  <2>2. old.phase = "nonce" /\ head' = head
    BY <1>9 DEF FetchNonce
  <2>3. NotOlder(old.block, seed) /\ entry.block = old.block /\ entry.seed = seed
    BY <1>0, <2>2 DEF NotOlder, FreshWorker
  <2> DEFINE seeds == WithSeed(w, a, seed)
             v == [old EXCEPT !.phase = "seeds", !.balance_at = None, !.seeds = seeds]
  <2> HIDE DEF seed
  <2>4. \A x \in DOMAIN seeds : NotOlder(old.block, seeds[x])
    BY <1>0, <2>3, WithSeedFresh DEF FreshWorker
  <2>5. worker' = [worker EXCEPT ![w] = v]
    BY <2>1
  <2> HIDE DEF seeds, entry
  <2>6. FreshWorker(v, head)
    BY <1>0, <2>2, <2>4 DEF FreshWorker, Worker
  <2> HIDE DEF v
  <2>7. \A x \in Accounts : cache'[x] # None => NotOlder(cache'[x].block, cache'[x].seed)
    BY <2>1, <2>3 DEF TypeOK, FreshSeeds
  <2>8. \A x \in Workers : FreshWorker(worker'[x], head)
    BY <2>5, <2>6 DEF TypeOK, FreshSeeds
  <2>9. QED
    BY <2>2, <2>7, <2>8 DEF FreshSeeds
<1>10. QED
  BY <1>1, <1>2, <1>3, <1>4, <1>5, <1>6, <1>7, <1>8, <1>9 DEF WorkerStep, NodeAnswers

\* No simulation runs on account state older than its block, whichever worker
\* fetched the state and however often the cache entry was overwritten.
THEOREM SeedsAreFresh == Spec => []SeedsNotOlder
<1>1. Init => FreshSeeds
  BY DEF Init, FreshSeeds, FreshWorker, Idle
<1>2. TypeOK /\ FreshSeeds /\ [Next]_vars => FreshSeeds'
  <2> SUFFICES ASSUME TypeOK, FreshSeeds, [Next]_vars PROVE FreshSeeds'
    OBVIOUS
  <2>1. CASE \E w \in Workers : WorkerStep(w) \/ NodeAnswers(w)
    BY <2>1, WorkerKeepsFresh
  <2>2. CASE NewBlock
    BY <2>2 DEF NewBlock, FreshSeeds, FreshWorker, TypeOK, Worker
  <2>3. CASE RuntimeDropped
    BY <2>3 DEF RuntimeDropped, FreshSeeds, FreshWorker, Idle
  <2>4. CASE \/ \E p \in Producers :
                  \/ \E t \in Tasks : TrySend(p, t) \/ SendClosed(p, t)
                  \/ ObserveEnqueue(p) \/ ObserveQueueFullDrop(p)
             \/ UNCHANGED vars
    BY <2>4 DEF TrySend, SendClosed, ObserveEnqueue, ObserveQueueFullDrop, vars, FreshSeeds
  <2>5. QED
    BY <2>1, <2>2, <2>3, <2>4 DEF Next
<1>3. FreshSeeds => SeedsNotOlder
  BY DEF FreshSeeds, FreshWorker, NotOlder, SeedsNotOlder
<1>4. QED
  BY <1>1, <1>2, <1>3, ServiceTypeCorrect, PTL DEF Spec

----------------------------------------------------------------------------
(* Every request is in one place *)

\* A worker whose request has no result yet.
Unfinished(w) == worker[w].phase \notin {"idle", "finish"}

\* The inductive strengthening of CountersAccount.
RequestsOnce ==
    /\ \A i, j \in 1..Len(queue) : queue[i] = queue[j] => i = j
    /\ \A i \in 1..Len(queue) : queue[i] \notin unsent \cup finished
    /\ finished \cap unsent = {}
    /\ \A w \in Workers : Unfinished(w) =>
         /\ worker[w].task \notin unsent \cup finished
         /\ \A i \in 1..Len(queue) : queue[i] # worker[w].task
         /\ \A v \in Workers : Unfinished(v) /\ v # w => worker[v].task # worker[w].task

\* A request is sent once: it leaves the unsent requests for the queue, or is refused.
LEMMA TrySendKeepsOnce ==
    ASSUME TypeOK, RequestsOnce, NEW p \in Producers, NEW t \in Tasks, TrySend(p, t)
    PROVE  RequestsOnce'
<1>1. /\ t \in unsent /\ unsent' = unsent \ {t}
      /\ UNCHANGED <<worker, finished>>
      /\ queue' = Append(queue, t) \/ queue' = queue
  BY DEF TrySend
<1>2. Len(queue) \in Nat
  BY LenProperties DEF TypeOK
<1>3. CASE queue' = queue
  BY <1>1, <1>3 DEF RequestsOnce, Unfinished
<1>4. CASE queue' = Append(queue, t)
  <2>1. /\ Len(queue') = Len(queue) + 1
        /\ \A i \in 1..Len(queue) : queue'[i] = queue[i]
        /\ queue'[Len(queue) + 1] = t
    BY <1>4, AppendProperties DEF TypeOK
  <2>2. \A i \in 1..Len(queue) : queue[i] # t
    BY <1>1 DEF RequestsOnce
  <2>3. \A i, j \in 1..Len(queue') : queue'[i] = queue'[j] => i = j
    BY <1>2, <2>1, <2>2 DEF RequestsOnce
  <2>4. \A i \in 1..Len(queue') : queue'[i] \notin unsent' \cup finished
    BY <1>1, <1>2, <2>1 DEF RequestsOnce
  <2>5. \A w \in Workers : Unfinished(w) =>
          /\ worker[w].task \notin unsent' \cup finished
          /\ \A i \in 1..Len(queue') : queue'[i] # worker[w].task
    BY <1>1, <1>2, <2>1 DEF RequestsOnce
  <2>6. QED
    BY <1>1, <2>3, <2>4, <2>5 DEF RequestsOnce, Unfinished
<1>5. QED
  BY <1>1, <1>3, <1>4

\* It leaves the queue for one worker.
LEMMA DequeueKeepsOnce ==
    ASSUME TypeOK, RequestsOnce, NEW w \in Workers, Dequeue(w)
    PROVE  RequestsOnce'
<1>1. /\ queue # <<>> /\ queue' = Tail(queue) /\ UNCHANGED <<unsent, finished>>
      /\ worker[w].phase = "idle"
      /\ worker'[w].phase = "taken" /\ worker'[w].task = Head(queue)
      /\ \A x \in Workers : x # w => worker'[x] = worker[x]
  BY DEF Dequeue, TypeOK, Idle
<1>2. /\ Len(queue) \in Nat \ {0} /\ Head(queue) = queue[1]
      /\ Len(queue') = Len(queue) - 1
      /\ \A i \in 1..Len(queue') : queue'[i] = queue[i + 1]
  BY <1>1, HeadTailProperties, LenProperties, EmptySeq DEF TypeOK
<1>3. \A i \in 1..Len(queue') : i + 1 \in 1..Len(queue) /\ i + 1 # 1
  BY <1>2
<1>4. \A i, j \in 1..Len(queue') : queue'[i] = queue'[j] => i = j
  BY <1>2, <1>3 DEF RequestsOnce
<1>5. \A i \in 1..Len(queue') : queue'[i] \notin unsent \cup finished /\ queue'[i] # Head(queue)
  BY <1>2, <1>3 DEF RequestsOnce
<1>6. Head(queue) \notin unsent \cup finished
  BY <1>2 DEF RequestsOnce
<1>7. \A x \in Workers : Unfinished(x) => worker[x].task # Head(queue)
  BY <1>2 DEF RequestsOnce
<1>8. \A x \in Workers : x # w => (Unfinished(x)' <=> Unfinished(x))
  BY <1>1 DEF Unfinished
<1>9. ASSUME NEW x \in Workers, Unfinished(x)'
      PROVE  /\ worker'[x].task \notin unsent \cup finished
             /\ \A i \in 1..Len(queue') : queue'[i] # worker'[x].task
             /\ \A v \in Workers : Unfinished(v)' /\ v # x => worker'[v].task # worker'[x].task
  <2>1. CASE x = w
    BY <1>1, <1>5, <1>6, <1>7, <1>8, <2>1
  <2>2. CASE x # w
    BY <1>1, <1>2, <1>3, <1>7, <1>8, <1>9, <2>2 DEF RequestsOnce
  <2>3. QED
    BY <2>1, <2>2
<1>10. QED
  BY <1>1, <1>4, <1>5, <1>9 DEF RequestsOnce

\* A worker that goes on with its request.
LEMMA WorkingKeepsOnce ==
    ASSUME TypeOK, RequestsOnce, NEW w \in Workers, UNCHANGED <<unsent, queue, finished>>,
           \A x \in Workers : x # w => worker'[x] = worker[x],
           Unfinished(w)' => Unfinished(w) /\ worker'[w].task = worker[w].task
    PROVE  RequestsOnce'
<1>1. \A x \in Workers : Unfinished(x)' => Unfinished(x) /\ worker'[x].task = worker[x].task
  BY DEF Unfinished
<1>2. QED
  BY <1>1 DEF RequestsOnce

\* A result is recorded for a request that has none.
LEMMA ApplyKeepsOnce ==
    ASSUME TypeOK, RequestsOnce, NEW w \in Workers, ApplyOutcome(w)
    PROVE  RequestsOnce' /\ worker[w].task \notin finished
<1>1. /\ UNCHANGED <<unsent, queue>> /\ finished' = finished \cup {worker[w].task}
      /\ worker[w].phase = "apply" /\ worker'[w].phase = "finish"
      /\ \A x \in Workers : x # w => worker'[x] = worker[x]
  BY DEF ApplyOutcome, TypeOK, Worker
<1>2. Unfinished(w) /\ ~Unfinished(w)'
  BY <1>1 DEF Unfinished
<1>3. \A x \in Workers : Unfinished(x)' => x # w /\ Unfinished(x) /\ worker'[x] = worker[x]
  BY <1>1, <1>2 DEF Unfinished
<1>4. QED
  BY <1>1, <1>2, <1>3 DEF RequestsOnce

\* The steps of a worker keep a request in one place.
LEMMA WorkerKeepsOnce ==
    ASSUME TypeOK, RequestsOnce, NEW w \in Workers, WorkerStep(w) \/ NodeAnswers(w)
    PROVE  RequestsOnce'
<1>1. CASE Dequeue(w)
  BY <1>1, DequeueKeepsOnce
<1>2. CASE ApplyOutcome(w)
  BY <1>2, ApplyKeepsOnce
<1>3. CASE ~Dequeue(w) /\ ~ApplyOutcome(w)
  <2>1. UNCHANGED <<unsent, queue, finished>>
    BY <1>3 DEF WorkerStep, NodeAnswers, ObserveDequeue, Simulate, Timeout, StateError, Conclude,
                ObserveFinish, FetchHeader, UseCachedSeed, FetchBalance, FetchNonce
  <2>2. \A x \in Workers : x # w => worker'[x] = worker[x]
    BY <1>3 DEF WorkerStep, NodeAnswers, ObserveDequeue, Simulate, Timeout, StateError, Conclude,
                ObserveFinish, FetchHeader, UseCachedSeed, FetchBalance, FetchNonce, TypeOK
  <2>3. Unfinished(w)' => Unfinished(w) /\ worker'[w].task = worker[w].task
    <3>1. CASE ObserveDequeue(w) \/ FetchHeader(w) \/ UseCachedSeed(w) \/ FetchBalance(w)
      BY <3>1 DEF ObserveDequeue, FetchHeader, UseCachedSeed, FetchBalance, Unfinished,
                  TypeOK, Worker
    <3>2. CASE FetchNonce(w)
      BY <3>2 DEF FetchNonce, Unfinished, TypeOK, Worker
    <3>3. CASE Simulate(w) \/ Timeout(w) \/ StateError(w)
      <4>1. /\ worker[w].phase \in {"header", "seeds", "nonce"}
            /\ worker' = [worker EXCEPT ![w] =
                            [Idle EXCEPT !.phase = "apply", !.task = worker[w].task]]
        BY <3>3 DEF Simulate, Timeout, StateError, Conclude
      <4>2. worker'[w].task = worker[w].task
        BY <4>1 DEF Idle, TypeOK
      <4>3. QED
        BY <4>1, <4>2 DEF Unfinished
    <3>4. CASE ObserveFinish(w)
      BY <3>4 DEF ObserveFinish, Unfinished, TypeOK, Idle
    <3>5. QED
      BY <1>3, <3>1, <3>2, <3>3, <3>4 DEF WorkerStep, NodeAnswers
  <2>4. QED
    BY <2>1, <2>2, <2>3, WorkingKeepsOnce
<1>4. QED
  BY <1>1, <1>2, <1>3

\* And every step does; a lost runtime leaves no request anywhere.
LEMMA NextKeepsOnce == TypeOK /\ RequestsOnce /\ [Next]_vars => RequestsOnce'
<1> SUFFICES ASSUME TypeOK, RequestsOnce, [Next]_vars PROVE RequestsOnce'
  OBVIOUS
<1>1. CASE \E p \in Producers, t \in Tasks : TrySend(p, t)
  BY <1>1, TrySendKeepsOnce
<1>2. CASE \E w \in Workers : WorkerStep(w) \/ NodeAnswers(w)
  BY <1>2, WorkerKeepsOnce
<1>3. CASE RuntimeDropped
  <2>1. queue' = <<>> /\ UNCHANGED <<unsent, finished>> /\ \A w \in Workers : ~Unfinished(w)'
    BY <1>3 DEF RuntimeDropped, Unfinished, Idle
  <2>2. QED
    BY <2>1, EmptySeq DEF RequestsOnce
<1>4. CASE NewBlock \/ UNCHANGED vars
           \/ \E p \in Producers : ObserveEnqueue(p) \/ ObserveQueueFullDrop(p)
  BY <1>4 DEF NewBlock, vars, ObserveEnqueue, ObserveQueueFullDrop, RequestsOnce, Unfinished
<1>5. CASE \E p \in Producers, t \in Tasks : SendClosed(p, t)
  <2>1. unsent' \subseteq unsent /\ UNCHANGED <<queue, worker, finished>>
    BY <1>5 DEF SendClosed
  <2>2. QED
    BY <2>1 DEF RequestsOnce, Unfinished
<1>6. QED
  BY <1>1, <1>2, <1>3, <1>4, <1>5 DEF Next

----------------------------------------------------------------------------
(* The counters *)

Bit(b) == IF b THEN 1 ELSE 0

\* What one element does to the size of a set.
LEMMA Recount ==
    ASSUME NEW W, IsFiniteSet(W), NEW w \in W, NEW S \in SUBSET W, NEW R \in SUBSET W,
           \A x \in W : x # w => (x \in R <=> x \in S)
    PROVE  /\ Cardinality(S) \in Nat /\ Cardinality(R) \in Nat
           /\ Cardinality(R) = Cardinality(S) + Bit(w \in R) - Bit(w \in S)
<1>1. IsFiniteSet(S) /\ IsFiniteSet(R)
  BY FS_Subset
<1>2. Cardinality(S) \in Nat /\ Cardinality(R) \in Nat
  BY <1>1, FS_CardinalityType
<1>3. CASE w \in R
  <2>1. R = S \cup {w}
    BY <1>3
  <2>2. QED
    BY <1>1, <1>2, <1>3, <2>1, FS_AddElement DEF Bit
<1>4. CASE w \notin R
  <2>1. R = S \ {w}
    BY <1>4
  <2>2. QED
    BY <1>1, <1>2, <1>4, <2>1, FS_RemoveElement DEF Bit
<1>5. QED
  BY <1>3, <1>4, <1>2

Numbers ==
    /\ Len(queue) \in Nat /\ Uncounted \in Nat
    /\ Cardinality(Busy) \in Nat /\ Cardinality(finished) \in Nat
    /\ InPhase({"taken"}) \in Nat /\ InPhase({"finish"}) \in Nat
    /\ \A c \in Counters : metrics[c] \in Nat

\* What is counted is finite.
LEMMA CountsAreNumbers == TypeOK => Numbers
<1> SUFFICES ASSUME TypeOK PROVE Numbers
  OBVIOUS
<1>1. Len(queue) \in Nat
  BY LenProperties DEF TypeOK
<1>2. Uncounted \in Nat
  BY SimulationAssumption, FS_Subset, FS_CardinalityType DEF Uncounted
<1>3. Cardinality(Busy) \in Nat
  BY SimulationAssumption, FS_Subset, FS_CardinalityType DEF Busy
<1>4. Cardinality(finished) \in Nat
  BY SimulationAssumption, FS_Subset, FS_CardinalityType DEF TypeOK
<1>5. InPhase({"taken"}) \in Nat /\ InPhase({"finish"}) \in Nat
  BY SimulationAssumption, FS_Subset, FS_CardinalityType DEF InPhase
<1>6. \A c \in Counters : metrics[c] \in Nat
  BY DEF TypeOK
<1>7. QED
  BY <1>1, <1>2, <1>3, <1>4, <1>5, <1>6 DEF Numbers

\* The workers in the other phases, when one worker moves.
LEMMA WorkerRecount ==
    ASSUME TypeOK, NEW w \in Workers, \A x \in Workers : x # w => worker'[x] = worker[x]
    PROVE  /\ InPhase({"taken"})'
                = InPhase({"taken"}) + Bit(worker'[w].phase = "taken")
                  - Bit(worker[w].phase = "taken")
           /\ InPhase({"finish"})'
                = InPhase({"finish"}) + Bit(worker'[w].phase = "finish")
                  - Bit(worker[w].phase = "finish")
           /\ Cardinality(Busy)'
                = Cardinality(Busy) + Bit(worker'[w].phase # "idle") - Bit(worker[w].phase # "idle")
<1>1. ASSUME NEW P
      PROVE  InPhase(P)' = InPhase(P) + Bit(worker'[w].phase \in P) - Bit(worker[w].phase \in P)
  <2> DEFINE S == {x \in Workers : worker[x].phase \in P}
             R == {x \in Workers : worker'[x].phase \in P}
  <2>1. /\ S \in SUBSET Workers /\ R \in SUBSET Workers
        /\ \A x \in Workers : x # w => (x \in R <=> x \in S)
        /\ (w \in S) <=> (worker[w].phase \in P)
        /\ (w \in R) <=> (worker'[w].phase \in P)
    OBVIOUS
  <2>2. InPhase(P) = Cardinality(S) /\ InPhase(P)' = Cardinality(R)
    BY DEF InPhase
  <2> HIDE DEF S, R
  <2>3. Cardinality(R) = Cardinality(S) + Bit(w \in R) - Bit(w \in S)
    BY <2>1, Recount, SimulationAssumption
  <2>4. QED
    BY <2>1, <2>2, <2>3 DEF Bit
<1>2. Cardinality(Busy)'
        = Cardinality(Busy) + Bit(worker'[w].phase # "idle") - Bit(worker[w].phase # "idle")
  <2> DEFINE S == Busy
             R == Busy'
  <2>1. /\ S \in SUBSET Workers /\ R \in SUBSET Workers
        /\ \A x \in Workers : x # w => (x \in R <=> x \in S)
        /\ (w \in S) <=> (worker[w].phase # "idle")
        /\ (w \in R) <=> (worker'[w].phase # "idle")
    BY DEF Busy
  <2>2. Cardinality(Busy) = Cardinality(S) /\ Cardinality(Busy)' = Cardinality(R)
    OBVIOUS
  <2> HIDE DEF S, R
  <2>3. Cardinality(R) = Cardinality(S) + Bit(w \in R) - Bit(w \in S)
    BY <2>1, Recount, SimulationAssumption
  <2>4. QED
    BY <2>1, <2>2, <2>3 DEF Bit
<1>3. InPhase({"taken"})'
        = InPhase({"taken"}) + Bit(worker'[w].phase \in {"taken"})
          - Bit(worker[w].phase \in {"taken"})
  BY <1>1
<1>4. InPhase({"finish"})'
        = InPhase({"finish"}) + Bit(worker'[w].phase \in {"finish"})
          - Bit(worker[w].phase \in {"finish"})
  BY <1>1
<1>5. QED
  BY <1>2, <1>3, <1>4 DEF Bit

\* A worker that holds a request and counted it is not among those yet to count it.
LEMMA HolderIsBusy ==
    ASSUME TypeOK, NEW w \in Workers, worker[w].phase = "finish"
    PROVE  InPhase({"taken"}) + 1 <= Cardinality(Busy)
<1> DEFINE S == {x \in Workers : worker[x].phase \in {"taken"}}
<1>1. IsFiniteSet(Busy)
  BY SimulationAssumption, FS_Subset DEF Busy
<1>2. S \in SUBSET (Busy \ {w}) /\ w \in Busy
  BY DEF Busy
<1> HIDE DEF S
<1>3. IsFiniteSet(Busy \ {w}) /\ Cardinality(Busy \ {w}) = Cardinality(Busy) - 1
  BY <1>1, <1>2, FS_RemoveElement
<1>4. Cardinality(S) <= Cardinality(Busy \ {w})
  BY <1>2, <1>3, FS_Subset
<1>5. Cardinality(S) \in Nat /\ Cardinality(Busy) \in Nat
  BY <1>1, <1>2, <1>3, FS_Subset, FS_CardinalityType
<1>6. QED
  BY <1>3, <1>4, <1>5 DEF InPhase, S

\* CountersAccount on the counters `m` and what they count: requests sent and not
\* counted, queued, taken and not counted, held, done and not counted, recorded.
Balanced(m, sent, queued, taken, held, done, recorded, lostRuntimes) ==
    /\ m["queue_depth"] + sent >= queued + taken
    /\ m["inflight"] >= held - taken
    /\ lostRuntimes = 0 => m["inflight"] = held - taken
    /\ m["completed"] = m["ok"] + m["failed"] + m["state_error"] + m["timeout"]
    /\ lostRuntimes = 0 => m["enqueued"] + sent = queued + held + recorded - done

\* The counters `n` are `m` but for those in `changed`.
Elsewhere(m, n, changed) == \A c \in Counters \ changed : n[c] = m[c]

\* CountersAccount is that balance, before and after a step.
LEMMA AccountIsBalance ==
    /\ CountersAccount <=>
         Balanced(metrics, Uncounted, Len(queue), InPhase({"taken"}), Cardinality(Busy),
                  InPhase({"finish"}), Cardinality(finished), drops)
    /\ CountersAccount' <=>
         Balanced(metrics', Uncounted', Len(queue'), InPhase({"taken"})', Cardinality(Busy'),
                  InPhase({"finish"})', Cardinality(finished'), drops')
BY DEF CountersAccount, Balanced

\* What the steps that do not count do to the balance: a request is sent, taken, or
\* has its result recorded.
LEMMA UncountedSteps ==
    ASSUME NEW m \in [Counters -> Nat],
           NEW u \in Nat, NEW l \in Nat, NEW t \in Nat, NEW b \in Nat, NEW f \in Nat,
           NEW r \in Nat, NEW d \in Nat, Balanced(m, u, l, t, b, f, r, d)
    PROVE  /\ Balanced(m, u + 1, l + 1, t, b, f, r, d)
           /\ Balanced(m, u, l - 1, t + 1, b + 1, f, r, d)
           /\ Balanced(m, u, l, t, b, f + 1, r + 1, d)
<1>0. m["queue_depth"] \in Nat /\ m["enqueued"] \in Nat /\ m["inflight"] \in Nat
  BY DEF Counters
<1>1. Balanced(m, u + 1, l + 1, t, b, f, r, d)
  BY <1>0 DEF Balanced
<1>2. Balanced(m, u, l - 1, t + 1, b + 1, f, r, d)
  BY <1>0 DEF Balanced
<1>3. Balanced(m, u, l, t, b, f + 1, r + 1, d)
  <2>1. l + b + (r + 1) - (f + 1) = l + b + r - f
    OBVIOUS
  <2>2. QED
    BY <2>1 DEF Balanced
<1>4. QED
  BY <1>1, <1>2, <1>3

\* What the steps that count do to the balance.
LEMMA CountingSteps ==
    ASSUME NEW m \in [Counters -> Nat], NEW n \in [Counters -> Nat],
           NEW u \in Nat, NEW l \in Nat, NEW t \in Nat, NEW b \in Nat, NEW f \in Nat,
           NEW r \in Nat, NEW d \in Nat, Balanced(m, u, l, t, b, f, r, d)
    PROVE  /\ n["queue_depth"] = m["queue_depth"] + 1 /\ n["enqueued"] = m["enqueued"] + 1
              /\ Elsewhere(m, n, {"queue_depth", "enqueued"})
              => Balanced(n, u - 1, l, t, b, f, r, d)
           /\ Elsewhere(m, n, {"queue_full_drop"}) => Balanced(n, u, l, t, b, f, r, d)
           /\ n["queue_depth"] = SaturatingDecrement(m["queue_depth"])
              /\ n["inflight"] = m["inflight"] + 1
              /\ Elsewhere(m, n, {"queue_depth", "inflight"})
              => Balanced(n, u, l, t - 1, b, f, r, d)
           /\ (\E status \in {"ok", "failed", "state_error", "timeout"} :
                 /\ n["completed"] = m["completed"] + 1 /\ n[status] = m[status] + 1
                 /\ Elsewhere(m, n, {"completed", status}))
              => Balanced(n, u, l, t, b, f, r, d)
           /\ n["inflight"] = SaturatingDecrement(m["inflight"])
              /\ Elsewhere(m, n, {"inflight"}) /\ t + 1 <= b
              => Balanced(n, u, l, t, b - 1, f - 1, r, d)
<1>0. /\ m["queue_depth"] \in Nat /\ m["enqueued"] \in Nat /\ m["inflight"] \in Nat
      /\ m["completed"] \in Nat /\ m["ok"] \in Nat /\ m["failed"] \in Nat
      /\ m["state_error"] \in Nat /\ m["timeout"] \in Nat
  BY DEF Counters
<1>1. ASSUME n["queue_depth"] = m["queue_depth"] + 1, n["enqueued"] = m["enqueued"] + 1,
             Elsewhere(m, n, {"queue_depth", "enqueued"})
      PROVE  Balanced(n, u - 1, l, t, b, f, r, d)
  BY <1>0, <1>1 DEF Balanced, Elsewhere, Counters
<1>2. ASSUME Elsewhere(m, n, {"queue_full_drop"})
      PROVE  Balanced(n, u, l, t, b, f, r, d)
  BY <1>0, <1>2 DEF Balanced, Elsewhere, Counters
<1>3. ASSUME n["queue_depth"] = SaturatingDecrement(m["queue_depth"]),
             n["inflight"] = m["inflight"] + 1,
             Elsewhere(m, n, {"queue_depth", "inflight"})
      PROVE  Balanced(n, u, l, t - 1, b, f, r, d)
  BY <1>0, <1>3 DEF Balanced, Elsewhere, Counters, SaturatingDecrement
<1>4. ASSUME NEW status \in {"ok", "failed", "state_error", "timeout"},
             n["completed"] = m["completed"] + 1, n[status] = m[status] + 1,
             Elsewhere(m, n, {"completed", status})
      PROVE  Balanced(n, u, l, t, b, f, r, d)
  <2>1. n["completed"] = n["ok"] + n["failed"] + n["state_error"] + n["timeout"]
    BY <1>0, <1>4 DEF Balanced, Elsewhere, Counters
  <2>2. \A c \in {"queue_depth", "inflight", "enqueued"} : n[c] = m[c]
    BY <1>4 DEF Elsewhere, Counters
  <2>3. QED
    BY <2>1, <2>2 DEF Balanced
<1>5. ASSUME n["inflight"] = SaturatingDecrement(m["inflight"]),
             Elsewhere(m, n, {"inflight"}), t + 1 <= b
      PROVE  Balanced(n, u, l, t, b - 1, f - 1, r, d)
  BY <1>0, <1>5 DEF Balanced, Elsewhere, Counters, SaturatingDecrement
<1>6. QED
  BY <1>1, <1>2, <1>3, <1>4, <1>5

\* Sending and counting what was sent.
LEMMA ProducerKeepsCounters ==
    ASSUME TypeOK, TypeOK', CountersAccount, NEW p \in Producers,
           \/ \E t \in Tasks : TrySend(p, t) \/ SendClosed(p, t)
           \/ ObserveEnqueue(p) \/ ObserveQueueFullDrop(p)
    PROVE  CountersAccount'
<1> DEFINE S == {q \in Producers : producer[q] = "sent"}
           R == {q \in Producers : producer'[q] = "sent"}
<1>1. /\ S \in SUBSET Producers /\ R \in SUBSET Producers
      /\ \A q \in Producers : q # p => (q \in R <=> q \in S)
      /\ (p \in S) <=> (producer[p] = "sent")
      /\ (p \in R) <=> (producer'[p] = "sent")
  BY DEF TrySend, SendClosed, ObserveEnqueue, ObserveQueueFullDrop, TypeOK
<1>2. Uncounted = Cardinality(S) /\ Uncounted' = Cardinality(R)
  BY DEF Uncounted
<1> HIDE DEF S, R
<1>3. Cardinality(R) = Cardinality(S) + Bit(p \in R) - Bit(p \in S)
  BY <1>1, Recount, SimulationAssumption
<1>4. Uncounted' = Uncounted + Bit(producer'[p] = "sent") - Bit(producer[p] = "sent")
  BY <1>1, <1>2, <1>3 DEF Bit
<1>5. PICK u, l, t, b, f, r :
         /\ u = Uncounted /\ l = Len(queue) /\ t = InPhase({"taken"})
         /\ b = Cardinality(Busy) /\ f = InPhase({"finish"}) /\ r = Cardinality(finished)
  OBVIOUS
<1>6. /\ u \in Nat /\ l \in Nat /\ t \in Nat /\ b \in Nat /\ f \in Nat /\ r \in Nat
      /\ metrics \in [Counters -> Nat] /\ metrics' \in [Counters -> Nat] /\ drops \in Nat
      /\ Balanced(metrics, u, l, t, b, f, r, drops)
  BY <1>5, CountsAreNumbers, AccountIsBalance DEF Numbers, TypeOK
<1>7. /\ InPhase({"taken"})' = t /\ InPhase({"finish"})' = f /\ drops' = drops
      /\ Cardinality(Busy') = b /\ Cardinality(finished') = r
  BY <1>5 DEF TrySend, SendClosed, ObserveEnqueue, ObserveQueueFullDrop, InPhase, Busy
<1>8. SUFFICES Balanced(metrics', Uncounted', Len(queue'), t, b, f, r, drops)
  BY <1>7, AccountIsBalance
<1>9. CASE \E x \in Tasks : TrySend(p, x)
  <2>1. PICK x \in Tasks : TrySend(p, x)
    BY <1>9
  <2>2. producer[p] = "idle" /\ metrics' = metrics
    BY <2>1 DEF TrySend
  <2>3. CASE queue' = Append(queue, x) /\ producer'[p] = "sent"
    <3>1. Len(queue') = l + 1
      BY <1>5, <2>3, AppendProperties DEF TypeOK
    <3>2. Uncounted' = u + 1
      BY <1>4, <1>5, <1>6, <2>2, <2>3 DEF Bit
    <3>3. Balanced(metrics, u + 1, l + 1, t, b, f, r, drops)
      BY <1>6, UncountedSteps
    <3>4. QED
      BY <2>2, <3>1, <3>2, <3>3
  <2>4. CASE queue' = queue /\ producer'[p] = "refused"
    <3>1. Uncounted' = u
      BY <1>4, <1>5, <1>6, <2>2, <2>4 DEF Bit
    <3>2. QED
      BY <1>5, <1>6, <2>2, <2>4, <3>1
  <2>5. QED
    BY <2>1, <2>3, <2>4 DEF TrySend, TypeOK
<1>10. CASE ObserveEnqueue(p)
  <2>1. queue' = queue /\ producer[p] = "sent" /\ producer'[p] = "idle"
    BY <1>10 DEF ObserveEnqueue, TypeOK
  <2>2. Uncounted' = u - 1
    BY <1>4, <1>5, <1>6, <2>1 DEF Bit
  <2>3. /\ metrics'["queue_depth"] = metrics["queue_depth"] + 1
        /\ metrics'["enqueued"] = metrics["enqueued"] + 1
        /\ Elsewhere(metrics, metrics', {"queue_depth", "enqueued"})
    BY <1>10, EnqueueCounted DEF Counters, Elsewhere
  <2>4. QED
    BY <1>5, <1>6, <2>1, <2>2, <2>3, CountingSteps
<1>11. CASE ObserveQueueFullDrop(p)
  <2>1. queue' = queue /\ producer[p] = "refused" /\ producer'[p] = "idle"
    BY <1>11 DEF ObserveQueueFullDrop, TypeOK
  <2>2. Uncounted' = u
    BY <1>4, <1>5, <1>6, <2>1 DEF Bit
  <2>3. Elsewhere(metrics, metrics', {"queue_full_drop"})
    BY <1>11 DEF ObserveQueueFullDrop, TypeOK, Counters, Elsewhere
  <2>4. QED
    BY <1>5, <1>6, <2>1, <2>2, <2>3, CountingSteps
<1>12. CASE \E x \in Tasks : SendClosed(p, x)
  <2>1. UNCHANGED <<producer, queue, metrics>>
    BY <1>12 DEF SendClosed
  <2>2. Uncounted' = u
    BY <1>5, <2>1 DEF Uncounted
  <2>3. QED
    BY <1>5, <1>6, <2>1, <2>2
<1>13. QED
  BY <1>9, <1>10, <1>11, <1>12

\* The steps of a worker.
LEMMA WorkerKeepsCounters ==
    ASSUME TypeOK, TypeOK', CountersAccount, RequestsOnce, NEW w \in Workers,
           WorkerStep(w) \/ NodeAnswers(w)
    PROVE  CountersAccount'
<1>1. /\ \A x \in Workers : x # w => worker'[x] = worker[x]
      /\ UNCHANGED <<producer, drops>>
  BY DEF WorkerStep, NodeAnswers, Dequeue, ObserveDequeue, Simulate, Timeout, StateError, Conclude,
         ApplyOutcome, ObserveFinish, FetchHeader, UseCachedSeed, FetchBalance, FetchNonce, TypeOK
<1>2. PICK u, l, t, b, f, r :
         /\ u = Uncounted /\ l = Len(queue) /\ t = InPhase({"taken"})
         /\ b = Cardinality(Busy) /\ f = InPhase({"finish"}) /\ r = Cardinality(finished)
  OBVIOUS
<1>3. PICK t2, b2, f2 :
         /\ t2 = InPhase({"taken"})' /\ b2 = Cardinality(Busy') /\ f2 = InPhase({"finish"})'
  OBVIOUS
<1>4. /\ u \in Nat /\ l \in Nat /\ t \in Nat /\ b \in Nat /\ f \in Nat /\ r \in Nat
      /\ metrics \in [Counters -> Nat] /\ metrics' \in [Counters -> Nat] /\ drops \in Nat
      /\ Balanced(metrics, u, l, t, b, f, r, drops)
  BY <1>2, CountsAreNumbers, AccountIsBalance DEF Numbers, TypeOK
<1>5. SUFFICES Balanced(metrics', u, Len(queue'), t2, b2, f2, Cardinality(finished'), drops)
  <2>1. Uncounted' = u
    BY <1>1, <1>2 DEF Uncounted
  <2>2. QED
    BY <1>1, <1>3, <2>1, AccountIsBalance
<1>6. /\ t2 = t + Bit(worker'[w].phase = "taken") - Bit(worker[w].phase = "taken")
      /\ f2 = f + Bit(worker'[w].phase = "finish") - Bit(worker[w].phase = "finish")
      /\ b2 = b + Bit(worker'[w].phase # "idle") - Bit(worker[w].phase # "idle")
  BY <1>1, <1>2, <1>3, WorkerRecount
<1>7. CASE Dequeue(w)
  <2>1. /\ worker[w].phase = "idle" /\ worker'[w].phase = "taken"
        /\ UNCHANGED <<metrics, finished>>
    BY <1>7 DEF Dequeue, TypeOK, Idle
  <2>2. Len(queue') = l - 1
    BY <1>2, <1>7, HeadTailProperties DEF Dequeue, TypeOK
  <2>3. t2 = t + 1 /\ f2 = f /\ b2 = b + 1
    BY <1>4, <1>6, <2>1 DEF Bit
  <2>4. Balanced(metrics, u, l - 1, t + 1, b + 1, f, r, drops)
    BY <1>4, UncountedSteps
  <2>5. QED
    BY <1>2, <2>1, <2>2, <2>3, <2>4
<1>8. CASE ObserveDequeue(w)
  <2>1. /\ worker[w].phase = "taken" /\ worker'[w].phase = "header"
        /\ UNCHANGED <<queue, finished>>
    BY <1>8 DEF ObserveDequeue, TypeOK, Worker
  <2>2. t2 = t - 1 /\ f2 = f /\ b2 = b
    BY <1>4, <1>6, <2>1 DEF Bit
  <2>3. /\ metrics'["queue_depth"] = SaturatingDecrement(metrics["queue_depth"])
        /\ metrics'["inflight"] = metrics["inflight"] + 1
        /\ Elsewhere(metrics, metrics', {"queue_depth", "inflight"})
    BY <1>8, DequeueCounted DEF Counters, Elsewhere
  <2>4. QED
    BY <1>2, <1>4, <2>1, <2>2, <2>3, CountingSteps
<1>9. CASE Simulate(w) \/ Timeout(w) \/ StateError(w)
  <2>1. /\ worker[w].phase \in {"header", "seeds", "nonce"}
        /\ \E status \in {"ok", "failed", "state_error", "timeout"} : Conclude(w, status)
    BY <1>9 DEF Simulate, Timeout, StateError
  <2>2. PICK status \in {"ok", "failed", "state_error", "timeout"} : Conclude(w, status)
    BY <2>1
  <2>3. worker'[w].phase = "apply" /\ UNCHANGED <<queue, finished>>
    BY <2>2 DEF Conclude, TypeOK, Idle
  <2>4. t2 = t /\ f2 = f /\ b2 = b
    BY <1>4, <1>6, <2>1, <2>3 DEF Bit
  <2>5. /\ metrics'["completed"] = metrics["completed"] + 1
        /\ metrics'[status] = metrics[status] + 1
        /\ Elsewhere(metrics, metrics', {"completed", status})
    BY <2>2, ConcludeCounted DEF Counters, Elsewhere
  <2>6. QED
    BY <1>2, <1>4, <2>3, <2>4, <2>5, CountingSteps
<1>10. CASE ApplyOutcome(w)
  <2>1. /\ worker[w].phase = "apply" /\ worker'[w].phase = "finish"
        /\ UNCHANGED <<queue, metrics>>
        /\ finished' = finished \cup {worker[w].task} /\ worker[w].task \notin finished
    BY <1>10, ApplyKeepsOnce DEF ApplyOutcome, TypeOK, Worker
  <2>2. IsFiniteSet(finished)
    BY SimulationAssumption, FS_Subset DEF TypeOK
  <2>3. Cardinality(finished') = r + 1
    BY <1>2, <2>1, <2>2, FS_AddElement
  <2>4. t2 = t /\ f2 = f + 1 /\ b2 = b
    BY <1>4, <1>6, <2>1 DEF Bit
  <2>5. Balanced(metrics, u, l, t, b, f + 1, r + 1, drops)
    BY <1>4, UncountedSteps
  <2>6. QED
    BY <1>2, <2>1, <2>3, <2>4, <2>5
<1>11. CASE ObserveFinish(w)
  <2>1. /\ worker[w].phase = "finish" /\ worker'[w].phase = "idle"
        /\ UNCHANGED <<queue, finished>>
    BY <1>11 DEF ObserveFinish, TypeOK, Idle
  <2>2. t2 = t /\ f2 = f - 1 /\ b2 = b - 1
    BY <1>4, <1>6, <2>1 DEF Bit
  <2>3. /\ metrics'["inflight"] = SaturatingDecrement(metrics["inflight"])
        /\ Elsewhere(metrics, metrics', {"inflight"})
    BY <1>11 DEF ObserveFinish, TypeOK, Counters, Elsewhere
  <2>4. t + 1 <= b
    BY <1>2, <2>1, HolderIsBusy
  <2>5. QED
    BY <1>2, <1>4, <2>1, <2>2, <2>3, <2>4, CountingSteps
<1>12. CASE FetchHeader(w) \/ UseCachedSeed(w) \/ FetchBalance(w) \/ FetchNonce(w)
  <2>1. /\ worker[w].phase \in {"header", "seeds", "nonce"}
        /\ worker'[w].phase \in {"seeds", "nonce"}
        /\ UNCHANGED <<queue, metrics, finished>>
    BY <1>12 DEF FetchHeader, UseCachedSeed, FetchBalance, FetchNonce, TypeOK, Worker
  <2>2. t2 = t /\ f2 = f /\ b2 = b
    BY <1>4, <1>6, <2>1 DEF Bit
  <2>3. QED
    BY <1>2, <1>4, <2>1, <2>2
<1>13. QED
  BY <1>7, <1>8, <1>9, <1>10, <1>11, <1>12 DEF WorkerStep, NodeAnswers

\* CountersAccount: however the counting of a request races its taking, its
\* simulation and its result, the counters of RuntimeCore account for every request.
\* RequestsOnce is needed where a result is recorded: a request recorded twice would
\* be counted twice and held once.
THEOREM CountersCorrect == Spec => []CountersAccount
<1>1. Init => RequestsOnce
  BY EmptySeq DEF Init, RequestsOnce, Unfinished, Idle
<1>2. Init => CountersAccount
  <2> SUFFICES ASSUME Init PROVE CountersAccount
    OBVIOUS
  <2>1. /\ {w \in Workers : worker[w].phase \in {"taken"}} = {}
        /\ {w \in Workers : worker[w].phase \in {"finish"}} = {}
        /\ Busy = {} /\ {p \in Producers : producer[p] = "sent"} = {}
    BY DEF Init, Idle, Busy
  <2>2. /\ InPhase({"taken"}) = 0 /\ InPhase({"finish"}) = 0 /\ Cardinality(Busy) = 0
        /\ Uncounted = 0 /\ Cardinality(finished) = 0 /\ Len(queue) = 0
    BY <2>1, FS_EmptySet, EmptySeq DEF InPhase, Uncounted, Init
  <2>3. \A c \in Counters : metrics[c] = 0
    BY DEF Init
  <2>4. QED
    BY <2>2, <2>3 DEF CountersAccount, Counters
<1>3. TypeOK /\ TypeOK' /\ RequestsOnce /\ CountersAccount /\ [Next]_vars => CountersAccount'
  <2> SUFFICES ASSUME TypeOK, TypeOK', RequestsOnce, CountersAccount, [Next]_vars
               PROVE  CountersAccount'
    OBVIOUS
  <2>1. CASE \E p \in Producers :
               \/ \E t \in Tasks : TrySend(p, t) \/ SendClosed(p, t)
               \/ ObserveEnqueue(p) \/ ObserveQueueFullDrop(p)
    BY <2>1, ProducerKeepsCounters
  <2>2. CASE \E w \in Workers : WorkerStep(w) \/ NodeAnswers(w)
    BY <2>2, WorkerKeepsCounters
  <2>3. CASE RuntimeDropped
    <3>1. /\ {w \in Workers : worker'[w].phase \in {"taken"}} = {}
          /\ Busy' = {} /\ queue' = <<>> /\ drops' = drops + 1
          /\ UNCHANGED <<producer, metrics>>
      BY <2>3 DEF RuntimeDropped, Idle, Busy
    <3>2. InPhase({"taken"})' = 0 /\ Cardinality(Busy)' = 0 /\ Uncounted' = Uncounted
      BY <3>1, FS_EmptySet DEF InPhase, Uncounted
    <3>3. Len(queue') = 0 /\ drops' # 0
      BY <3>1, EmptySeq DEF TypeOK
    <3>4. QED
      <4>1. metrics["queue_depth"] \in Nat /\ metrics["inflight"] \in Nat /\ Uncounted \in Nat
        BY CountsAreNumbers DEF Numbers, Counters
      <4>2. QED
        BY <3>1, <3>2, <3>3, <4>1 DEF CountersAccount
  <2>4. CASE NewBlock \/ UNCHANGED vars
    BY <2>4 DEF NewBlock, vars, CountersAccount, InPhase, Uncounted, Busy
  <2>5. QED
    BY <2>1, <2>2, <2>3, <2>4 DEF Next
<1>4. QED
  BY <1>1, <1>2, <1>3, NextKeepsOnce, ServiceTypeCorrect, PTL DEF Spec
=============================================================================
