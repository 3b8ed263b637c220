---------------------------- MODULE LivePipeline ----------------------------
(***************************************************************************)
(* The live pipeline of runtime-core (crates/runtime-core/src/live_rpc.rs) *)
(* around the scheduler: workers that carry one observed transaction at a  *)
(* time from admission to simulation                                       *)
(* (`process_pending_hash_with_fetched_tx_with_owner`), the bounded        *)
(* simulation queue, and simulation workers that settle the results and    *)
(* hand accepted candidates to the builder.                                *)
(*                                                                         *)
(* Workers run concurrently: one per chain and one per pending-pool        *)
(* rebuild, and the scheduler does not tell chains apart.  Each step ends  *)
(* where others may observe or change shared state: a scheduler command, a *)
(* read of the scheduler, or an event handed to the storage writer.  The   *)
(* log is represented by what replay makes of it (`replica` of the         *)
(* mempool, `lifecycle` of the candidates) and by the hashes it            *)
(* introduced; writes that none of these shows (TxFetched, the row         *)
(* upserts, OppDetected, BundleSubmitted) only appear as a chance to give  *)
(* up.  Events of one candidate that commute in the replay are written in  *)
(* one step.                                                               *)
(***************************************************************************)
EXTENDS Scheduler, MempoolReplay, Sequences

CONSTANTS
    Workers,      \* concurrent users of the processing function
    SimWorkers,   \* simulation workers
    Deployments   \* the deployments to consider, see Deployment

\* Who runs, what the network reports, the capacity of the simulation queue, and
\* whether the storage writer may refuse a write (QueueFull) and the scheduler's
\* ingress may be full.
Deployment ==
    [workers : SUBSET Workers, sim_workers : SUBSET SimWorkers, reported : SUBSET Hashes,
     sim_queue_capacity : Nat \ {0}, storage_may_fill : BOOLEAN,
     scheduler_may_refuse : BOOLEAN]

\* What a simulation worker keeps of the task it works on.
SimulationTask ==
    [todo : SUBSET SimulationTaskSpec, approved : BOOLEAN,
     accepted : SUBSET SimulationTaskSpec]

ASSUME PipelineAssumption ==
    /\ Deployments \subseteq Deployment
    /\ None \notin Workers \cup SimWorkers
    /\ None \notin SimulationTask
    /\ None \notin {"admitted", "decided", "ok", "failed"}
    /\ \A c, d \in CandidateSpecs : c.candidate_id = d.candidate_id => c.tx_hash = d.tx_hash

VARIABLES
    deployment,  \* one of Deployments, chosen at the start
    worker,      \* worker -> where it is in the handler, and its locals
    replica,     \* replay of the events in the log
    introduced,  \* hashes with a TxSeen in the log
    lifecycle,   \* replay of the candidate events in the log
    sim_queue,   \* simulation tasks: sets of candidate task specs
    sim,         \* simulation worker -> None or the task it works on
    handoffs,    \* history: task specs whose result the scheduler handed off
    offered,     \* history: task specs that reached `AssemblyEngine::insert`
    late,        \* history: task specs handed off after a member was replaced
    shed         \* history: task specs that found the simulation queue full

scheduler_vars == <<admission_vars, candidate_vars, head_block_number, metrics>>
log_vars == <<replica, introduced, lifecycle>>
sim_vars == <<sim_queue, sim, handoffs, offered, late, shed>>
pipeline_vars == <<scheduler_vars, worker, log_vars, sim_vars, deployment>>

SimQueueCapacity == deployment.sim_queue_capacity
StorageMayFill == deployment.storage_may_fill
SchedulerMayRefuse == deployment.scheduler_may_refuse

\* The locals of the handler.
Transition == [hash : Hashes, state : QueueState]

WorkerState ==
    [pc : {"idle", "seen", "replaced", "invalidate", "decide", "collect", "context",
           "transitions", "register", "queued", "enqueue"},
     hash : Hashes \cup {None},
     decision : {"admitted", "duplicate", "dropped", "unfetched", None},
     replaced : Hashes \cup {None},
     transitions : SUBSET Transition,
     executable : SUBSET Hashes,
     context : SUBSET Hashes,
     groups : SUBSET (SUBSET SimulationTaskSpec)]

Idle ==
    [pc |-> "idle", hash |-> None, decision |-> None, replaced |-> None,
     transitions |-> {}, executable |-> {}, context |-> {}, groups |-> {}]

\* `CandidateLifecycleEntry`: what replay collects of a candidate.
CandidateLifecycleEntry ==
    [tx_hash : Hashes \cup {None},
     queued : BOOLEAN,                        \* strategy, score and so on are known
     simulation_block_number : Blocks \cup {None},
     simulation_status : {"ok", "failed", None},
     assembly_status : {"decided", None}]

NoCandidate ==
    [tx_hash |-> None, queued |-> FALSE, simulation_block_number |-> None,
     simulation_status |-> None, assembly_status |-> None]

PipelineInit ==
    /\ Init
    /\ deployment \in Deployments
    /\ worker = [w \in Workers |-> Idle]
    /\ replica = EmptyMempool
    /\ introduced = {}
    /\ lifecycle = [id \in CandidateIds |-> NoCandidate]
    /\ sim_queue = <<>>
    /\ sim = [v \in SimWorkers |-> None]
    /\ handoffs = {}
    /\ offered = {}
    /\ late = {}
    /\ shed = {}

At(w, pc) == worker[w].pc = pc
Goto(w, pc) == worker' = [worker EXCEPT ![w].pc = pc]
Return(w) == worker' = [worker EXCEPT ![w] = Idle]

----------------------------------------------------------------------------
(* `CandidateLifecycleState::apply_event`, for the events of a set of task specs *)

ApplyCandidateQueued(specs) ==
    lifecycle' = [id \in CandidateIds |->
        IF \E t \in specs : t.candidate_id = id
        THEN [lifecycle[id] EXCEPT
                !.tx_hash = (CHOOSE t \in specs : t.candidate_id = id).tx_hash,
                !.queued = TRUE]
        ELSE lifecycle[id]]

ApplySimDispatched(specs) ==
    lifecycle' = [id \in CandidateIds |->
        IF \E t \in specs : t.candidate_id = id
        THEN LET spec == CHOOSE t \in specs : t.candidate_id = id
             IN  [lifecycle[id] EXCEPT !.tx_hash = spec.tx_hash,
                                       !.simulation_block_number = spec.block_number]
        ELSE lifecycle[id]]

\* SimCompleted names a transaction, not a candidate: every candidate indexed
\* under the transaction takes the status.
ApplySimCompleted(hash, status) ==
    lifecycle' = [id \in CandidateIds |->
        IF lifecycle[id].tx_hash = hash
        THEN [lifecycle[id] EXCEPT !.simulation_status = status]
        ELSE lifecycle[id]]

ApplyAssemblyDecisions(specs) ==
    lifecycle' = [id \in CandidateIds |->
        IF \E t \in specs : t.candidate_id = id
        THEN [lifecycle[id] EXCEPT
                !.tx_hash = (CHOOSE t \in specs : t.candidate_id = id).tx_hash,
                !.assembly_status = "decided"]
        ELSE lifecycle[id]]

----------------------------------------------------------------------------
(* Admission *)

\* Faulty AdmissionDecision: a duplicate counts as dropped.
DuplicateIsDropped(h) == IF h \notin pending /\ h \in pending' THEN "admitted" ELSE "dropped"

\* `SchedulerPersistenceDecision::from_admission` on the step that `admit` took.
AdmissionDecision(h) ==
    IF h \in pending THEN "duplicate" ELSE IF h \in pending' THEN "admitted" ELSE "dropped"

\* The queue transitions of the admission outcome.
AdmissionTransitions(s) ==
    LET previous == SenderQueuePositions(pending, sender_queues[s])
        next == SenderQueuePositions(pending', sender_queues'[s])
    IN  {[hash |-> x, state |-> next[x]] : x \in QueueTransitions(previous, next)}

\* A hash whose transaction was fetched goes to the scheduler before anything
\* is written.
ObserveFetched(w, h) ==
    /\ At(w, "idle")
    /\ Admit(h)
    /\ worker' = [worker EXCEPT
         ![w].pc = "seen",
         ![w].hash = h,
         ![w].decision = AdmissionDecision(h),
         ![w].replaced = IF h \notin pending /\ h \in pending' /\ Incumbent(h) \in pending
                         THEN Incumbent(h) ELSE None,
         ![w].transitions = AdmissionTransitions(Tx[h].sender)]
    /\ UNCHANGED <<log_vars, sim_vars>>

\* The scheduler's ingress is full: the transaction is recorded as dropped.
ObserveRefused(w, h) ==
    /\ SchedulerMayRefuse
    /\ At(w, "idle")
    /\ worker' = [worker EXCEPT ![w].pc = "seen", ![w].hash = h, ![w].decision = "dropped"]
    /\ UNCHANGED <<scheduler_vars, log_vars, sim_vars>>

\* The RPC had no details of the hash.
ObserveUnfetched(w, h) ==
    /\ At(w, "idle")
    /\ worker' = [worker EXCEPT ![w].pc = "seen", ![w].hash = h, ![w].decision = "unfetched"]
    /\ UNCHANGED <<scheduler_vars, log_vars, sim_vars>>

----------------------------------------------------------------------------
(* The events of an admission *)

WriteSeen(w) ==
    /\ At(w, "seen")
    /\ introduced' = introduced \cup {worker[w].hash}
    /\ CASE worker[w].decision \in {"unfetched", "duplicate"} -> Return(w)
         [] worker[w].replaced # None -> Goto(w, "replaced")
         [] OTHER -> Goto(w, "decide")
    /\ UNCHANGED <<scheduler_vars, replica, lifecycle, sim_vars>>

WriteReplaced(w) ==
    /\ At(w, "replaced")
    /\ replica' = ApplyReplaced(replica, worker[w].replaced)
    /\ Goto(w, "invalidate")
    /\ UNCHANGED <<scheduler_vars, introduced, lifecycle, sim_vars>>

\* Faulty Invalidate: the candidates of the replaced transaction live on.
InvalidateNothing(w) ==
    /\ At(w, "invalidate")
    /\ Goto(w, "decide")
    /\ UNCHANGED <<scheduler_vars, log_vars, sim_vars>>

Invalidate(w) ==
    /\ At(w, "invalidate")
    /\ InvalidateCandidateHash(worker[w].replaced)
    /\ Goto(w, "decide")
    /\ UNCHANGED <<log_vars, sim_vars>>

\* Faulty WriteDecision: a dropped transaction is recorded as decoded, too.
DecodedAlways(w) ==
    /\ At(w, "decide")
    /\ replica' = ApplyDecoded(replica, worker[w].hash)
    /\ Goto(w, "collect")
    /\ UNCHANGED <<scheduler_vars, introduced, lifecycle, sim_vars>>

\* TxDecoded of an admitted transaction, TxDropped of any other.
WriteDecision(w) ==
    LET h == worker[w].hash IN
    /\ At(w, "decide")
    /\ IF worker[w].decision = "admitted"
       THEN replica' = ApplyDecoded(replica, h) /\ Goto(w, "collect")
       ELSE replica' = ApplyDropped(replica, h) /\ Return(w)
    /\ UNCHANGED <<scheduler_vars, introduced, lifecycle, sim_vars>>

ReadyTransitions(w) == {t \in worker[w].transitions : t.state = Ready}

\* `ready_transactions_for_queue_transitions`: of the transactions that became
\* ready, those still pending.
CollectExecutable(w) ==
    /\ At(w, "collect")
    /\ worker' = [worker EXCEPT
         ![w].pc = "context",
         ![w].executable = {t.hash : t \in ReadyTransitions(w)} \cap pending]
    /\ UNCHANGED <<scheduler_vars, log_vars, sim_vars>>

ReadyHashes ==
    {h \in pending : Tx[h].nonce \in
        ReadyNonces(Occupied(pending, sender_queues[Tx[h].sender]))}

\* `ready_frontier_for_queue_transitions`: a second look at the scheduler.
CollectContext(w) ==
    /\ At(w, "context")
    /\ worker' = [worker EXCEPT
         ![w].pc = IF worker[w].transitions = {} THEN "register" ELSE "transitions",
         ![w].context = IF ReadyTransitions(w) = {} THEN {} ELSE ReadyHashes]
    /\ UNCHANGED <<scheduler_vars, log_vars, sim_vars>>

\* TxReady or TxBlocked, in the order of nonces.
WriteTransition(w) ==
    LET left == worker[w].transitions IN
    /\ At(w, "transitions")
    /\ \E t \in left :
         /\ \A u \in left : Tx[t.hash].nonce <= Tx[u.hash].nonce
         /\ replica' = IF t.state = Ready
                       THEN ApplyReady(replica, t.hash)
                       ELSE ApplyBlocked(replica, t.hash, t.state.expected_nonce)
         /\ worker' = [worker EXCEPT
              ![w].pc = IF left = {t} THEN "register" ELSE "transitions",
              ![w].transitions = left \ {t}]
    /\ UNCHANGED <<scheduler_vars, introduced, lifecycle, sim_vars>>

----------------------------------------------------------------------------
(* Opportunities, candidates and simulation tasks *)

\* `build_remote_simulation_request`: the members of c and the earlier
\* transactions of their senders; there is none unless the context has every
\* member.
RequestedTransactions(c, context) ==
    {x \in context : x \in MembersOf(c) \/ \E m \in MembersOf(c) :
        Tx[x].sender = Tx[m].sender /\ Tx[x].nonce <= Tx[m].nonce}

\* The candidates that share a request are simulated once (`simulation_task_key`).
TaskGroups(batch, context) ==
    LET key(c) == <<c.tx_hash, RequestedTransactions(c, context)>>
    IN  {{TaskFor(d) : d \in {e \in batch : key(e) = key(c)}} : c \in batch}

\* The candidates the searcher may find among the executable transactions, of which
\* those remain that can be simulated.
PreparedBatches(w) ==
    {batch \in RegistrationBatches : \A c \in batch :
        MembersOf(c) \subseteq worker[w].executable \cap worker[w].context}

Register(w) ==
    /\ At(w, "register")
    /\ \E batch \in PreparedBatches(w) :
         /\ RegisterCandidates(batch)
         /\ worker' = [worker EXCEPT ![w].pc = "queued",
                                     ![w].groups = TaskGroups(batch, worker[w].context)]
    /\ UNCHANGED <<log_vars, sim_vars>>

\* The searcher finds nothing that can be simulated.
FindNothing(w) ==
    /\ At(w, "register")
    /\ Return(w)
    /\ UNCHANGED <<scheduler_vars, log_vars, sim_vars>>

\* CandidateQueued of every candidate; the first write refused ends the handler.
WriteQueued(w) ==
    /\ At(w, "queued")
    /\ \E written \in SUBSET UNION worker[w].groups :
         /\ ApplyCandidateQueued(written)
         /\ \/ written = UNION worker[w].groups /\ Goto(w, "enqueue")
            \/ written # UNION worker[w].groups /\ StorageMayFill /\ Return(w)
    /\ UNCHANGED <<scheduler_vars, replica, introduced, sim_vars>>

TaskLeaves(w, g) ==
    worker' = [worker EXCEPT ![w] =
        IF worker[w].groups = {g} THEN Idle
        ELSE [worker[w] EXCEPT !.groups = worker[w].groups \ {g}]]

\* One task is queued, or dropped when the queue is full; SimDispatched of each
\* candidate of a queued task, of which one may be refused.
Enqueue(w) ==
    /\ At(w, "enqueue")
    /\ \E g \in worker[w].groups :
         \/ /\ Len(sim_queue) < SimQueueCapacity
            /\ sim_queue' = Append(sim_queue, g)
            /\ shed' = shed
            /\ \E written \in SUBSET g :
                 /\ ApplySimDispatched(written)
                 /\ \/ written = g /\ TaskLeaves(w, g)
                    \/ written # g /\ StorageMayFill /\ Return(w)
         \/ /\ Len(sim_queue) = SimQueueCapacity
            /\ TaskLeaves(w, g)
            /\ shed' = shed \cup g
            /\ UNCHANGED <<sim_queue, lifecycle>>
    /\ UNCHANGED <<scheduler_vars, replica, introduced, sim, handoffs, offered, late>>

\* A refused write returns early, and a refused scheduler command is an error
\* that ends the handler.
GiveUp(w) ==
    /\ \/ /\ StorageMayFill
          /\ worker[w].pc \in {"seen", "replaced", "decide", "transitions", "register"}
       \/ SchedulerMayRefuse /\ worker[w].pc \in {"invalidate", "register"}
    /\ Return(w)
    /\ UNCHANGED <<scheduler_vars, log_vars, sim_vars>>

----------------------------------------------------------------------------
(* Simulation workers *)

\* A simulation takes what it was asked to and approves it or not; an RPC error
\* or a timeout does not approve.
TakeTask(v) ==
    /\ sim[v] = None
    /\ sim_queue # <<>>
    /\ sim_queue' = Tail(sim_queue)
    /\ \E approved \in BOOLEAN :
         sim' = [sim EXCEPT ![v] = [todo |-> Head(sim_queue), approved |-> approved,
                                    accepted |-> {}]]
    /\ UNCHANGED <<scheduler_vars, worker, log_vars, handoffs, offered, late, shed>>

\* `hash` was replaced and is not back in the pool, and the scheduler has been told to
\* invalidate its candidates, or will not be any more.
ReplacementDone(hash) ==
    /\ hash \in retired \ pending
    /\ \A w \in Workers :
         worker[w].replaced = hash => worker[w].pc \notin {"seen", "replaced", "invalidate"}

SimulationStatus(approved) == IF approved THEN "ok" ELSE "failed"

\* Faulty SettleResult: one candidate stands for all that share the simulation.
SettleFirst(v) ==
    \E t \in sim[v].todo :
        LET handed == IF sim[v].approved THEN {t} ELSE {} IN
        /\ ApplySimulationResult(t)
        /\ handoffs' = handoffs \cup handed
        /\ ApplySimCompleted(t.tx_hash, SimulationStatus(sim[v].approved))
        /\ sim' = [sim EXCEPT ![v].todo = {}, ![v].accepted = handed]
        /\ UNCHANGED <<worker, replica, introduced, sim_queue, offered, late, shed>>

\* One candidate of the task: the scheduler takes the result, hands the
\* candidate off if it was approved, and SimCompleted and BundleSubmitted are
\* written; when one is refused the function returns and forgets what was
\* accepted.
SettleResult(v) ==
    \E t \in sim[v].todo :
        LET handed == IF sim[v].approved THEN {t} ELSE {} IN
        /\ ApplySimulationResult(t)
        /\ handoffs' = handoffs \cup handed
        /\ late' = late \cup {u \in handed : \E m \in MembersOf(u) : ReplacementDone(m)}
        /\ \/ /\ ApplySimCompleted(t.tx_hash, SimulationStatus(sim[v].approved))
              /\ \/ sim' = [sim EXCEPT ![v].todo = @ \ {t}, ![v].accepted = @ \cup handed]
                 \/ StorageMayFill /\ sim[v].approved /\ sim' = [sim EXCEPT ![v] = None]
           \/ /\ StorageMayFill
              /\ sim' = [sim EXCEPT ![v] = None]
              /\ UNCHANGED lifecycle
        /\ UNCHANGED <<worker, replica, introduced, sim_queue, offered, shed>>

\* A stale result is counted and the next candidate taken.
DropStaleResult(v) ==
    \E t \in sim[v].todo :
        /\ RecordStaleSimulationResult(t)
        /\ sim' = [sim EXCEPT ![v].todo = @ \ {t}]
        /\ UNCHANGED <<worker, log_vars, sim_queue, handoffs, offered, late, shed>>

\* The scheduler refuses the command: the task ends with an error.
FailResult(v) ==
    /\ SchedulerMayRefuse
    /\ sim[v].todo # {}
    /\ sim' = [sim EXCEPT ![v] = None]
    /\ UNCHANGED <<scheduler_vars, worker, log_vars, sim_queue, handoffs, offered, late, shed>>

\* Faulty Deliver: only a task with nothing but accepted candidates is delivered.
DeliverSingles(v) ==
    /\ sim[v].todo = {}
    /\ offered' = IF \E t \in sim[v].accepted : sim[v].accepted = {t}
                  THEN offered \cup sim[v].accepted ELSE offered
    /\ sim' = [sim EXCEPT ![v] = None]
    /\ UNCHANGED <<scheduler_vars, worker, log_vars, sim_queue, handoffs, late, shed>>

\* `apply_builder_assembly_state_with_owner`: every accepted candidate is
\* inserted into the engine (AssemblyEngine says what becomes of it), and then the
\* decisions are written, until a write is refused.
Deliver(v) ==
    /\ sim[v].todo = {}
    /\ offered' = offered \cup sim[v].accepted
    /\ sim' = [sim EXCEPT ![v] = None]
    /\ \E written \in SUBSET sim[v].accepted :
         /\ written # sim[v].accepted => StorageMayFill
         /\ ApplyAssemblyDecisions(written)
    /\ UNCHANGED <<scheduler_vars, worker, replica, introduced, sim_queue, handoffs, late, shed>>

----------------------------------------------------------------------------
Observe(w) ==
    \E h \in deployment.reported :
        ObserveFetched(w, h) \/ ObserveRefused(w, h) \/ ObserveUnfetched(w, h)

Process(w) ==
    \/ WriteSeen(w)
    \/ WriteReplaced(w)
    \/ Invalidate(w)
    \/ WriteDecision(w)
    \/ CollectExecutable(w)
    \/ CollectContext(w)
    \/ WriteTransition(w)
    \/ Register(w)
    \/ FindNothing(w)
    \/ WriteQueued(w)
    \/ Enqueue(w)
    \/ GiveUp(w)

Simulate(v) ==
    \/ TakeTask(v)
    \/ sim[v] # None /\ (SettleResult(v) \/ DropStaleResult(v) \/ FailResult(v) \/ Deliver(v))

PipelineNext ==
    /\ \/ \E w \in deployment.workers : Observe(w) \/ Process(w)
       \/ \E v \in deployment.sim_workers : Simulate(v)
    /\ UNCHANGED deployment

PipelineSpec == PipelineInit /\ [][PipelineNext]_pipeline_vars

----------------------------------------------------------------------------
(* Properties *)

\* What the scheduler knows of the queues, in the form of a replay frame.
OnlineQueues ==
    [s \in Senders |->
       [n \in Nonces |->
          LET occupied == Occupied(pending, sender_queues[s])
          IN  IF n \in occupied
              THEN [hash |-> sender_queues[s][n], state |-> QueueEntryState(occupied, n)]
              ELSE None]]

\* Nothing is refused.
Reliable == ~StorageMayFill /\ ~SchedulerMayRefuse

\* One transaction is processed at a time.
OneWorker == \E w \in Workers : deployment.workers = {w}

WorkersIdle == \A w \in Workers : At(w, "idle")

\* Replay and scheduler tell the same story: where one worker runs and nothing is
\* refused, replaying the log gives, whenever no transaction is being processed, the
\* pending set and the sender queues, with every ready and blocked state, that the
\* scheduler holds.
ReplayMatchesOnline ==
    Reliable /\ OneWorker /\ WorkersIdle =>
        /\ PendingHashes(replica) = pending
        /\ SenderQueuesView(replica) = OnlineQueues

IdsOf(specs) == {t.candidate_id : t \in specs}

\* Replay invents nothing: whatever is lost or interleaved, a transaction that
\* replaying the log shows as pending was admitted by the scheduler, and is still
\* pending in it or was replaced.  Its TxSeen is in the log, too, or was refused, or its
\* worker is about to write it: another worker's TxReady or TxBlocked may come first.
\* A candidate that was dispatched, simulated or assembled according to the replay
\* has its CandidateQueued there, and one that was assembled did reach the builder.
ReplayInventsNothing ==
    /\ PendingHashes(replica) \subseteq pending \cup retired
    /\ Reliable =>
         \A h \in PendingHashes(replica) \ introduced :
            \E w \in Workers : At(w, "seen") /\ worker[w].hash = h
    /\ \A id \in CandidateIds :
         /\ lifecycle[id].simulation_block_number # None => lifecycle[id].queued
         /\ lifecycle[id].simulation_status # None => lifecycle[id].queued
         /\ lifecycle[id].assembly_status # None =>
              lifecycle[id].queued /\ id \in IdsOf(offered)

\* Once the scheduler is done with a replacement, no simulation result makes it
\* hand off a candidate with the replaced transaction; one worker, nothing refused.
ReplacedNotHandedOff == Reliable /\ OneWorker => late = {}

\* A candidate that was handed off reaches the builder, or its simulation worker
\* is about to deliver it, unless a write or a command was refused; and what reached
\* the builder is, once its worker is done, assembled in a replay of the log.
HandoffsReachBuilder ==
    Reliable =>
        /\ \A t \in handoffs \ offered :
             \E v \in SimWorkers : sim[v] # None /\ t \in sim[v].accepted
        /\ \A t \in offered : lifecycle[t.candidate_id].assembly_status # None

\* What became of the candidate of a task: the log has a simulation status of it, it was
\* registered again, or a transaction of it was replaced.
Concluded(t) ==
    \/ lifecycle[t.candidate_id].simulation_status # None
    \/ \E u \in tasks : u.candidate_id = t.candidate_id /\ u.generation > t.generation
    \/ \E h \in retired : Touches(t, h)

\* Whatever the workers interleave, when they and the simulations have come to rest
\* every candidate that was registered is settled in the scheduler, and the log has its
\* simulation status unless it was registered again or lost a transaction to a
\* replacement.  Only a task that found the simulation queue full is settled by nobody,
\* and what was to follow a write or a command that was refused.
CandidatesSettle ==
    Reliable /\ WorkersIdle /\ sim_queue = <<>> /\ (\A v \in SimWorkers : sim[v] = None)
    => \A t \in tasks \ shed : t \in superseded /\ Concluded(t)
=============================================================================
