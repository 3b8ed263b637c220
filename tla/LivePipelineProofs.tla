------------------------- MODULE LivePipelineProofs -------------------------
(***************************************************************************)
(* The live pipeline for any number of workers, transactions, candidates   *)
(* and deployments.                                                        *)
(***************************************************************************)
EXTENDS LivePipeline, SchedulerProofs

\* The locals of a worker and what they say about each other.
LocalsOK ==
    \A w \in Workers :
        /\ worker[w].pc = "idle" => worker[w] = Idle
        /\ worker[w].pc # "idle" => worker[w].hash # None
        /\ worker[w].replaced # None => worker[w].decision = "admitted"
        /\ worker[w].pc \in {"replaced", "invalidate"} => worker[w].replaced # None

\* Every task spec on its way was made by the scheduler.
TasksKnown ==
    /\ \A w \in Workers : \A g \in worker[w].groups : g \subseteq tasks
    /\ sim_queue \in Seq(SUBSET tasks)
    /\ \A v \in SimWorkers : sim[v] # None => sim[v].todo \subseteq tasks /\ sim[v].accepted \subseteq tasks
    /\ offered \subseteq tasks

PipelineTypeOK ==
    /\ TypeOK
    /\ deployment \in Deployment
    /\ worker \in [Workers -> WorkerState]
    /\ lifecycle \in [CandidateIds -> CandidateLifecycleEntry]
    /\ sim \in [SimWorkers -> SimulationTask \cup {None}]
    /\ LocalsOK
    /\ TasksKnown

----------------------------------------------------------------------------
(* Types *)

Pcs == {"idle", "seen", "replaced", "invalidate", "decide", "collect", "context",
        "transitions", "register", "queued", "enqueue"}

\* One worker moves to pc and nothing else.
LEMMA GotoFacts ==
    ASSUME worker \in [Workers -> WorkerState], NEW w \in Workers, NEW pc \in Pcs, Goto(w, pc)
    PROVE  /\ worker' \in [Workers -> WorkerState]
           /\ worker'[w] = [worker[w] EXCEPT !.pc = pc]
           /\ \A u \in Workers : u # w => worker'[u] = worker[u]
<1>1. worker' = [worker EXCEPT ![w] = [worker[w] EXCEPT !.pc = pc]]
  BY DEF Goto
<1>2. [worker[w] EXCEPT !.pc = pc] \in WorkerState
  BY DEF WorkerState, Pcs
<1>3. QED
  BY <1>1, <1>2

\* The locals of a worker that has nothing to do.
LEMMA IdleType == Idle \in WorkerState
BY DEF Idle, WorkerState

\* One worker returns and nothing else.
LEMMA ReturnFacts ==
    ASSUME worker \in [Workers -> WorkerState], NEW w \in Workers, Return(w)
    PROVE  /\ worker' \in [Workers -> WorkerState]
           /\ worker'[w] = Idle
           /\ \A u \in Workers : u # w => worker'[u] = worker[u]
BY IdleType DEF Return

\* A worker that moves on keeps its locals in order ...
LEMMA GotoLocals ==
    ASSUME worker \in [Workers -> WorkerState], LocalsOK, NEW w \in Workers,
           NEW pc \in Pcs \ {"idle"}, Goto(w, pc), worker[w].pc # "idle",
           pc \in {"replaced", "invalidate"} => worker[w].replaced # None
    PROVE  LocalsOK'
<1>1. worker'[w] = [worker[w] EXCEPT !.pc = pc] /\ \A u \in Workers : u # w => worker'[u] = worker[u]
  BY GotoFacts
<1>2. /\ worker'[w].pc = pc /\ worker'[w].hash = worker[w].hash
      /\ worker'[w].replaced = worker[w].replaced /\ worker'[w].decision = worker[w].decision
  BY <1>1 DEF WorkerState
<1>3. QED
  BY <1>1, <1>2 DEF LocalsOK

\* ... and so does one that returns.
LEMMA ReturnLocals ==
    ASSUME worker \in [Workers -> WorkerState], LocalsOK, NEW w \in Workers, Return(w)
    PROVE  LocalsOK'
<1>1. worker'[w] = Idle /\ \A u \in Workers : u # w => worker'[u] = worker[u]
  BY ReturnFacts
<1>2. Idle.pc = "idle" /\ Idle.replaced = None
  BY DEF Idle
<1>3. QED
  BY <1>1, <1>2 DEF LocalsOK

\* The spec that names a candidate.
LEMMA SpecChoice ==
    ASSUME NEW specs \in SUBSET SimulationTaskSpec, NEW id, \E t \in specs : t.candidate_id = id
    PROVE  LET spec == CHOOSE t \in specs : t.candidate_id = id
           IN  spec \in specs /\ spec.candidate_id = id /\ spec \in SimulationTaskSpec
OBVIOUS

\* The events that name candidates keep the type of what replay collects of them ...
LEMMA LifecycleType ==
    ASSUME lifecycle \in [CandidateIds -> CandidateLifecycleEntry],
           NEW specs \in SUBSET SimulationTaskSpec,
           \/ ApplyCandidateQueued(specs) \/ ApplySimDispatched(specs)
           \/ ApplyAssemblyDecisions(specs)
    PROVE  lifecycle' \in [CandidateIds -> CandidateLifecycleEntry]
<1> DEFINE named(id) == \E t \in specs : t.candidate_id = id
           spec(id) == CHOOSE t \in specs : t.candidate_id = id
<1>1. ASSUME NEW id \in CandidateIds, named(id)
      PROVE  spec(id).tx_hash \in Hashes /\ spec(id).block_number \in Blocks
  BY <1>1, SpecChoice DEF SimulationTaskSpec
<1> HIDE DEF spec, named
<1>2. CASE ApplyCandidateQueued(specs)
  <2>1. lifecycle' = [id \in CandidateIds |->
          IF named(id) THEN [lifecycle[id] EXCEPT !.tx_hash = spec(id).tx_hash, !.queued = TRUE]
          ELSE lifecycle[id]]
    BY <1>2 DEF ApplyCandidateQueued, spec, named
  <2>2. QED
    BY <1>1, <2>1 DEF CandidateLifecycleEntry
<1>3. CASE ApplySimDispatched(specs)
  <2>1. lifecycle' = [id \in CandidateIds |->
          IF named(id) THEN [lifecycle[id] EXCEPT
                               !.tx_hash = spec(id).tx_hash,
                               !.simulation_block_number = spec(id).block_number]
          ELSE lifecycle[id]]
    BY <1>3 DEF ApplySimDispatched, spec, named
  <2>2. QED
    BY <1>1, <2>1 DEF CandidateLifecycleEntry
<1>4. CASE ApplyAssemblyDecisions(specs)
  <2>1. lifecycle' = [id \in CandidateIds |->
          IF named(id) THEN [lifecycle[id] EXCEPT !.tx_hash = spec(id).tx_hash,
                                                  !.assembly_status = "decided"]
          ELSE lifecycle[id]]
    BY <1>4 DEF ApplyAssemblyDecisions, spec, named
  <2>2. QED
    BY <1>1, <2>1 DEF CandidateLifecycleEntry
<1>5. QED
  BY <1>2, <1>3, <1>4

\* ... and so does the one that names a transaction.
LEMMA CompletedType ==
    ASSUME lifecycle \in [CandidateIds -> CandidateLifecycleEntry], NEW hash,
           NEW status \in {"ok", "failed"}, ApplySimCompleted(hash, status)
    PROVE  lifecycle' \in [CandidateIds -> CandidateLifecycleEntry]
BY DEF ApplySimCompleted, CandidateLifecycleEntry

\* What a registration makes are tasks of the scheduler.
LEMMA GroupsKnown ==
    ASSUME TypeOK, NEW batch \in RegistrationBatches, NEW context,
           RegisterCandidates(batch)
    PROVE  /\ TaskGroups(batch, context) \in SUBSET (SUBSET tasks')
           /\ tasks \subseteq tasks'
<1>1. tasks' = tasks \cup {TaskFor(c) : c \in batch}
  BY DEF RegisterCandidates
<1>2. QED
  BY <1>1 DEF TaskGroups

\* Tasks are never forgotten.
LEMMA TasksGrow == ASSUME [Next]_vars PROVE tasks \subseteq tasks'
BY DEF Next, Admit, AdmitDuplicate, AdmitReplacement, AdmitUnderpriced, AdmitOverLimit, AdmitNew,
       RegisterCandidates, ApplySimulationResult, RecordStaleSimulationResult,
       InvalidateCandidateHash, AdvanceHead, vars, candidate_vars

\* The transitions an admission returns.
LEMMA TransitionsType ==
    ASSUME TypeOK, TypeOK', NEW s \in Senders
    PROVE  AdmissionTransitions(s) \in SUBSET Transition
<1> DEFINE occupied == Occupied(pending', sender_queues'[s])
           nonceOf(h) == CHOOSE n \in occupied : sender_queues'[s][n] = h
           next == SenderQueuePositions(pending', sender_queues'[s])
<1>1. occupied \subseteq Nonces /\ \A n \in occupied : sender_queues'[s][n] \in pending'
  BY DEF Occupied
<1>2. next = [h \in {sender_queues'[s][n] : n \in occupied} |->
                QueueEntryState(occupied, nonceOf(h))]
  BY DEF SenderQueuePositions
<1>3. pending' \subseteq Hashes
  BY DEF TypeOK
<1> HIDE DEF occupied, nonceOf
<1>4. ASSUME NEW h \in DOMAIN next
      PROVE  h \in Hashes /\ next[h] \in QueueState
  <2>1. PICK n \in occupied : h = sender_queues'[s][n]
    BY <1>2
  <2>2. next[h] = QueueEntryState(occupied, nonceOf(h))
    BY <1>2
  <2>3. QED
    BY <1>1, <1>3, <2>1, <2>2, QueueEntryStateType
<1>5. AdmissionTransitions(s) \subseteq {[hash |-> h, state |-> next[h]] : h \in DOMAIN next}
  BY DEF AdmissionTransitions, QueueTransitions
<1> HIDE DEF next
<1>6. QED
  BY <1>4, <1>5 DEF Transition

----------------------------------------------------------------------------
(* The pipeline runs the scheduler *)

\* Every step of the pipeline is a step of the scheduler, or leaves it alone.
LEMMA StepIsScheduler ==
    ASSUME PipelineTypeOK, [PipelineNext]_pipeline_vars
    PROVE  [Next]_vars
<1>1. /\ deployment.workers \subseteq Workers /\ deployment.sim_workers \subseteq SimWorkers
      /\ deployment.reported \subseteq Hashes
  BY DEF PipelineTypeOK, Deployment
<1>2. UNCHANGED scheduler_vars => UNCHANGED vars
  BY DEF scheduler_vars, vars
<1>3. CASE UNCHANGED pipeline_vars
  BY <1>2, <1>3 DEF pipeline_vars
<1>4. ASSUME NEW w \in Workers, NEW h \in Hashes,
             ObserveFetched(w, h) \/ ObserveRefused(w, h) \/ ObserveUnfetched(w, h)
      PROVE  [Next]_vars
  BY <1>2, <1>4 DEF ObserveFetched, ObserveRefused, ObserveUnfetched, Next
<1>5. ASSUME NEW w \in Workers, Process(w)
      PROVE  [Next]_vars
  <2>1. CASE Invalidate(w)
    <3>1. worker[w].replaced \in Hashes
      BY <2>1 DEF Invalidate, At, PipelineTypeOK, LocalsOK, WorkerState
    <3>2. QED
      BY <2>1, <3>1 DEF Invalidate, Next
  <2>2. CASE Register(w)
    BY <2>2 DEF Register, PreparedBatches, Next
  <2>3. CASE WriteSeen(w) \/ WriteReplaced(w) \/ WriteDecision(w) \/ CollectExecutable(w)
             \/ CollectContext(w) \/ WriteTransition(w)
    BY <1>2, <2>3 DEF WriteSeen, WriteReplaced, WriteDecision, CollectExecutable,
                      CollectContext, WriteTransition
  <2>4. CASE FindNothing(w) \/ WriteQueued(w) \/ Enqueue(w) \/ GiveUp(w)
    BY <1>2, <2>4 DEF FindNothing, WriteQueued, Enqueue, GiveUp
  <2>5. QED
    BY <1>5, <2>1, <2>2, <2>3, <2>4 DEF Process
<1>6. ASSUME NEW v \in SimWorkers, Simulate(v)
      PROVE  [Next]_vars
  <2>1. CASE sim[v] # None /\ (SettleResult(v) \/ DropStaleResult(v))
    <3>1. sim[v].todo \subseteq tasks
      BY <2>1 DEF PipelineTypeOK, TasksKnown
    <3>2. QED
      BY <2>1, <3>1 DEF SettleResult, DropStaleResult, Next
  <2>2. CASE TakeTask(v) \/ FailResult(v) \/ Deliver(v)
    BY <1>2, <2>2 DEF TakeTask, FailResult, Deliver
  <2>3. QED
    BY <1>6, <2>1, <2>2 DEF Simulate
<1>7. QED
  BY <1>1, <1>3, <1>4, <1>5, <1>6 DEF PipelineNext, Observe

\* A larger set of tasks will do as well.
LEMMA SeqGrows ==
    ASSUME NEW S, NEW T, S \subseteq T, NEW q \in Seq(SUBSET S)
    PROVE  q \in Seq(SUBSET T)
OBVIOUS

\* What the workers do leaves the simulations alone.
LEMMA WorkersKeepKnown ==
    ASSUME TasksKnown, tasks \subseteq tasks', UNCHANGED <<sim_queue, sim, offered>>,
           \A w \in Workers : \A g \in worker'[w].groups : g \subseteq tasks'
    PROVE  TasksKnown'
<1>1. sim_queue' \in Seq(SUBSET tasks')
  BY SeqGrows DEF TasksKnown
<1>2. QED
  BY <1>1 DEF TasksKnown

\* The step of a worker that gets new locals.
LEMMA LocalsReplaced ==
    ASSUME worker \in [Workers -> WorkerState], LocalsOK, TasksKnown, tasks \subseteq tasks',
           NEW w \in Workers, NEW locals \in WorkerState,
           worker' = [worker EXCEPT ![w] = locals],
           UNCHANGED <<sim_queue, sim, offered>>,
           locals.pc = "idle" => locals = Idle,
           locals.pc # "idle" => locals.hash # None,
           locals.replaced # None => locals.decision = "admitted",
           locals.pc \in {"replaced", "invalidate"} => locals.replaced # None,
           \A g \in locals.groups : g \subseteq tasks'
    PROVE  /\ worker' \in [Workers -> WorkerState]
           /\ LocalsOK' /\ TasksKnown'
<1>1. /\ worker' \in [Workers -> WorkerState] /\ worker'[w] = locals
      /\ \A u \in Workers : u # w => worker'[u] = worker[u]
  OBVIOUS
<1>2. LocalsOK'
  BY <1>1 DEF LocalsOK
<1>3. \A u \in Workers : \A g \in worker'[u].groups : g \subseteq tasks'
  BY <1>1 DEF TasksKnown
<1>4. QED
  BY <1>1, <1>2, <1>3, WorkersKeepKnown

\* A worker takes up a transaction.
LEMMA ObserveType ==
    ASSUME PipelineTypeOK, TypeOK', tasks \subseteq tasks', NEW w \in Workers, NEW h \in Hashes,
           ObserveFetched(w, h) \/ ObserveRefused(w, h) \/ ObserveUnfetched(w, h)
    PROVE  /\ worker' \in [Workers -> WorkerState]
           /\ LocalsOK' /\ TasksKnown'
           /\ UNCHANGED <<lifecycle, sim>>
<1>1. /\ worker \in [Workers -> WorkerState] /\ LocalsOK /\ TasksKnown /\ TypeOK
      /\ worker[w] = Idle
  BY DEF PipelineTypeOK, LocalsOK, ObserveFetched, ObserveRefused, ObserveUnfetched, At
<1>2. UNCHANGED <<sim_queue, sim, offered, lifecycle>>
  BY DEF ObserveFetched, ObserveRefused, ObserveUnfetched, sim_vars, log_vars
<1>3. h # None /\ Tx[h].sender \in Senders /\ Tx[h].nonce \in Nonces
  BY TransactionAssumption DEF TxRecord
<1>4. CASE ObserveFetched(w, h)
  <2>1. PICK decision \in {"admitted", "duplicate", "dropped"} : decision = AdmissionDecision(h)
    BY DEF AdmissionDecision
  <2>2. PICK replaced \in Hashes \cup {None} :
          /\ replaced = IF h \notin pending /\ h \in pending' /\ Incumbent(h) \in pending
                        THEN Incumbent(h) ELSE None
          /\ replaced # None => decision = "admitted"
    BY <1>1, <2>1 DEF TypeOK, AdmissionDecision
  <2>3. PICK transitions \in SUBSET Transition : transitions = AdmissionTransitions(Tx[h].sender)
    BY <1>1, <1>3, TransitionsType
  <2>4. PICK locals : locals = [Idle EXCEPT !.pc = "seen", !.hash = h, !.decision = decision,
                                            !.replaced = replaced, !.transitions = transitions]
    OBVIOUS
  <2>5. worker' = [worker EXCEPT ![w] = locals]
    BY <1>1, <1>4, <2>1, <2>2, <2>3, <2>4 DEF ObserveFetched
  <2>6. /\ locals \in WorkerState /\ locals.pc = "seen" /\ locals.hash = h
        /\ locals.decision = decision /\ locals.replaced = replaced /\ locals.groups = {}
    BY <2>4 DEF Idle, WorkerState
  <2>7. QED
    BY <1>1, <1>2, <1>3, <2>2, <2>5, <2>6, LocalsReplaced
<1>5. CASE ObserveRefused(w, h) \/ ObserveUnfetched(w, h)
  <2>1. PICK decision \in {"dropped", "unfetched"} :
          worker' = [worker EXCEPT ![w].pc = "seen", ![w].hash = h, ![w].decision = decision]
    BY <1>5 DEF ObserveRefused, ObserveUnfetched
  <2>2. PICK locals : locals = [Idle EXCEPT !.pc = "seen", !.hash = h, !.decision = decision]
    OBVIOUS
  <2>3. worker' = [worker EXCEPT ![w] = locals]
    BY <1>1, <2>1, <2>2
  <2>4. /\ locals \in WorkerState /\ locals.pc = "seen" /\ locals.hash = h
        /\ locals.replaced = None /\ locals.groups = {}
    BY <2>2 DEF Idle, WorkerState
  <2>5. QED
    BY <1>1, <1>2, <1>3, <2>3, <2>4, LocalsReplaced
<1>6. QED
  BY <1>4, <1>5

\* A worker that only moves on or returns.
LEMMA MoveType ==
    ASSUME worker \in [Workers -> WorkerState], LocalsOK, TasksKnown, tasks \subseteq tasks',
           NEW w \in Workers, worker[w].pc # "idle", UNCHANGED <<sim_queue, sim, offered>>,
           \/ Return(w)
           \/ \E pc \in Pcs \ {"idle"} :
                Goto(w, pc) /\ (pc \in {"replaced", "invalidate"} => worker[w].replaced # None)
    PROVE  /\ worker' \in [Workers -> WorkerState]
           /\ LocalsOK' /\ TasksKnown'
<1>1. CASE Return(w)
  <2>1. Idle.groups = {}
    BY DEF Idle
  <2>2. \A u \in Workers : \A g \in worker'[u].groups : g \subseteq tasks'
    BY <1>1, <2>1, ReturnFacts DEF TasksKnown
  <2>3. QED
    BY <1>1, <2>2, ReturnFacts, ReturnLocals, WorkersKeepKnown
<1>2. CASE ~Return(w)
  <2>1. PICK pc \in Pcs \ {"idle"} :
          Goto(w, pc) /\ (pc \in {"replaced", "invalidate"} => worker[w].replaced # None)
    BY <1>2
  <2>2. worker'[w] = [worker[w] EXCEPT !.pc = pc] /\ \A u \in Workers : u # w => worker'[u] = worker[u]
    BY <2>1, GotoFacts
  <2>3. worker'[w].groups = worker[w].groups
    BY <2>2 DEF WorkerState
  <2>4. \A u \in Workers : \A g \in worker'[u].groups : g \subseteq tasks'
    BY <2>2, <2>3 DEF TasksKnown
  <2>5. QED
    BY <2>1, <2>4, GotoFacts, GotoLocals, WorkersKeepKnown
<1>3. QED
  BY <1>1, <1>2

\* The steps between two events, and the events of transactions.
LEMMA HandlerType ==
    ASSUME PipelineTypeOK, tasks \subseteq tasks', NEW w \in Workers,
           \/ WriteSeen(w) \/ WriteReplaced(w) \/ Invalidate(w) \/ WriteDecision(w)
           \/ FindNothing(w) \/ GiveUp(w)
    PROVE  /\ worker' \in [Workers -> WorkerState]
           /\ LocalsOK' /\ TasksKnown'
           /\ UNCHANGED <<lifecycle, sim>>
<1>1. worker \in [Workers -> WorkerState] /\ LocalsOK /\ TasksKnown
  BY DEF PipelineTypeOK
<1>2. UNCHANGED <<sim_queue, sim, offered, lifecycle>> /\ worker[w].pc # "idle"
  BY DEF WriteSeen, WriteReplaced, Invalidate, WriteDecision, FindNothing, GiveUp, At,
         sim_vars, log_vars
<1>3. \/ Return(w)
      \/ \E pc \in Pcs \ {"idle"} :
           Goto(w, pc) /\ (pc \in {"replaced", "invalidate"} => worker[w].replaced # None)
  <2>1. CASE WriteSeen(w)
    BY <2>1 DEF WriteSeen, Pcs
  <2>2. CASE WriteReplaced(w)
    BY <1>1, <2>2 DEF WriteReplaced, Pcs, At, LocalsOK
  <2>3. CASE Invalidate(w) \/ WriteDecision(w) \/ FindNothing(w) \/ GiveUp(w)
    BY <2>3 DEF Invalidate, WriteDecision, FindNothing, GiveUp, Pcs
  <2>4. QED
    BY <2>1, <2>2, <2>3
<1>4. QED
  BY <1>1, <1>2, <1>3, MoveType

\* The steps that change the locals.
LEMMA LocalsType ==
    ASSUME PipelineTypeOK, tasks \subseteq tasks', TypeOK', NEW w \in Workers,
           \/ CollectExecutable(w) \/ CollectContext(w) \/ WriteTransition(w) \/ Register(w)
    PROVE  /\ worker' \in [Workers -> WorkerState]
           /\ LocalsOK' /\ TasksKnown'
           /\ UNCHANGED <<lifecycle, sim>>
<1>1. worker \in [Workers -> WorkerState] /\ LocalsOK /\ TasksKnown /\ TypeOK
  BY DEF PipelineTypeOK
<1>2. UNCHANGED <<sim_queue, sim, offered, lifecycle>> /\ worker[w].pc # "idle"
  BY DEF CollectExecutable, CollectContext, WriteTransition, Register, At, sim_vars, log_vars
<1>3. /\ worker[w] \in WorkerState /\ worker[w].hash # None
      /\ worker[w].replaced # None => worker[w].decision = "admitted"
      /\ \A g \in worker[w].groups : g \subseteq tasks'
  BY <1>1, <1>2 DEF LocalsOK, TasksKnown
<1>4. CASE CollectExecutable(w)
  <2>1. PICK set \in SUBSET Hashes :
          worker' = [worker EXCEPT ![w].pc = "context", ![w].executable = set]
    BY <1>1, <1>4 DEF CollectExecutable, TypeOK
  <2>2. PICK locals : locals = [worker[w] EXCEPT !.pc = "context", !.executable = set]
    OBVIOUS
  <2>3. worker' = [worker EXCEPT ![w] = locals]
    BY <1>1, <2>1, <2>2
  <2>4. /\ locals \in WorkerState /\ locals.pc = "context" /\ locals.hash = worker[w].hash
        /\ locals.decision = worker[w].decision /\ locals.replaced = worker[w].replaced
        /\ locals.groups = worker[w].groups
    BY <1>3, <2>2 DEF WorkerState
  <2>5. QED
    BY <1>1, <1>2, <1>3, <2>3, <2>4, LocalsReplaced
<1>5. CASE CollectContext(w)
  <2>1. ReadyHashes \subseteq Hashes
    BY <1>1 DEF ReadyHashes, TypeOK
  <2>2. PICK set \in SUBSET Hashes, pc \in {"register", "transitions"} :
          worker' = [worker EXCEPT ![w].pc = pc, ![w].context = set]
    BY <1>5, <2>1 DEF CollectContext
  <2>3. PICK locals : locals = [worker[w] EXCEPT !.pc = pc, !.context = set]
    OBVIOUS
  <2>4. worker' = [worker EXCEPT ![w] = locals]
    BY <1>1, <2>2, <2>3
  <2>5. /\ locals \in WorkerState /\ locals.pc = pc /\ locals.hash = worker[w].hash
        /\ locals.decision = worker[w].decision /\ locals.replaced = worker[w].replaced
        /\ locals.groups = worker[w].groups
    BY <1>3, <2>3 DEF WorkerState
  <2>6. QED
    BY <1>1, <1>2, <1>3, <2>4, <2>5, LocalsReplaced
<1>6. CASE WriteTransition(w)
  <2>1. worker[w].transitions \in SUBSET Transition
    BY <1>3 DEF WorkerState
  <2>2. PICK set \in SUBSET Transition, pc \in {"register", "transitions"} :
          worker' = [worker EXCEPT ![w].pc = pc, ![w].transitions = set]
    BY <1>6, <2>1 DEF WriteTransition
  <2>3. PICK locals : locals = [worker[w] EXCEPT !.pc = pc, !.transitions = set]
    OBVIOUS
  <2>4. worker' = [worker EXCEPT ![w] = locals]
    BY <1>1, <2>2, <2>3
  <2>5. /\ locals \in WorkerState /\ locals.pc = pc /\ locals.hash = worker[w].hash
        /\ locals.decision = worker[w].decision /\ locals.replaced = worker[w].replaced
        /\ locals.groups = worker[w].groups
    BY <1>3, <2>3 DEF WorkerState
  <2>6. QED
    BY <1>1, <1>2, <1>3, <2>4, <2>5, LocalsReplaced
<1>7. CASE Register(w)
  <2>1. PICK batch \in RegistrationBatches :
          /\ RegisterCandidates(batch)
          /\ worker' = [worker EXCEPT ![w].pc = "queued",
                                      ![w].groups = TaskGroups(batch, worker[w].context)]
    BY <1>7 DEF Register, PreparedBatches
  <2>2. PICK groups \in SUBSET (SUBSET tasks') : groups = TaskGroups(batch, worker[w].context)
    BY <1>1, <2>1, GroupsKnown
  <2>3. groups \in SUBSET (SUBSET SimulationTaskSpec)
    BY <2>2 DEF TypeOK
  <2>4. PICK locals : locals = [worker[w] EXCEPT !.pc = "queued", !.groups = groups]
    OBVIOUS
  <2>5. worker' = [worker EXCEPT ![w] = locals]
    BY <1>1, <2>1, <2>2, <2>4
  <2>6. /\ locals \in WorkerState /\ locals.pc = "queued" /\ locals.hash = worker[w].hash
        /\ locals.decision = worker[w].decision /\ locals.replaced = worker[w].replaced
        /\ locals.groups = groups
    BY <1>3, <2>3, <2>4 DEF WorkerState
  <2>7. QED
    BY <1>1, <1>2, <1>3, <2>2, <2>5, <2>6, LocalsReplaced
<1>8. QED
  BY <1>4, <1>5, <1>6, <1>7

\* The locals of a worker after one of its tasks was queued or dropped.
LEMMA TaskLeavesFacts ==
    ASSUME worker \in [Workers -> WorkerState], LocalsOK, NEW w \in Workers,
           worker[w].pc = "enqueue", NEW g, TaskLeaves(w, g)
    PROVE  /\ worker' \in [Workers -> WorkerState] /\ LocalsOK'
           /\ worker'[w].groups \subseteq worker[w].groups
           /\ worker'[w].pc \in {"idle", "enqueue"}
           /\ \A u \in Workers : u # w => worker'[u] = worker[u]
<1>1. PICK locals : locals = IF worker[w].groups = {g} THEN Idle
                             ELSE [worker[w] EXCEPT !.groups = worker[w].groups \ {g}]
  OBVIOUS
<1>2. worker' = [worker EXCEPT ![w] = locals]
  BY <1>1 DEF TaskLeaves
<1>3. /\ worker[w] \in WorkerState /\ worker[w].hash # None
      /\ worker[w].replaced # None => worker[w].decision = "admitted"
  BY DEF LocalsOK
<1>4. CASE worker[w].groups = {g}
  <2>1. locals = Idle
    BY <1>1, <1>4
  <2>2. Idle.pc = "idle" /\ Idle.replaced = None /\ Idle.groups = {}
    BY DEF Idle
  <2>3. worker' \in [Workers -> WorkerState] /\ worker'[w] = Idle
        /\ \A u \in Workers : u # w => worker'[u] = worker[u]
    BY <1>2, <2>1, IdleType
  <2>4. LocalsOK'
    BY <2>2, <2>3 DEF LocalsOK
  <2>5. QED
    BY <2>2, <2>3, <2>4
<1>5. CASE worker[w].groups # {g}
  <2>1. locals = [worker[w] EXCEPT !.groups = worker[w].groups \ {g}]
    BY <1>1, <1>5
  <2>2. /\ locals \in WorkerState /\ locals.pc = "enqueue" /\ locals.hash = worker[w].hash
        /\ locals.decision = worker[w].decision /\ locals.replaced = worker[w].replaced
        /\ locals.groups = worker[w].groups \ {g}
    BY <1>3, <2>1 DEF WorkerState
  <2>3. worker' \in [Workers -> WorkerState] /\ worker'[w] = locals
        /\ \A u \in Workers : u # w => worker'[u] = worker[u]
    BY <1>2, <2>2
  <2>4. LocalsOK'
    BY <1>3, <2>2, <2>3 DEF LocalsOK
  <2>5. QED
    BY <2>2, <2>3, <2>4
<1>6. QED
  BY <1>4, <1>5

\* CandidateQueued.
LEMMA QueuedType ==
    ASSUME PipelineTypeOK, tasks \subseteq tasks', NEW w \in Workers, WriteQueued(w)
    PROVE  /\ worker' \in [Workers -> WorkerState]
           /\ LocalsOK' /\ TasksKnown' /\ sim' = sim
           /\ lifecycle' \in [CandidateIds -> CandidateLifecycleEntry]
<1>1. /\ worker \in [Workers -> WorkerState] /\ LocalsOK /\ TasksKnown
      /\ lifecycle \in [CandidateIds -> CandidateLifecycleEntry]
  BY DEF PipelineTypeOK
<1>2. UNCHANGED <<sim_queue, sim, offered>> /\ worker[w].pc # "idle"
  BY DEF WriteQueued, At, sim_vars
<1>3. PICK written \in SUBSET UNION worker[w].groups :
        ApplyCandidateQueued(written) /\ (Goto(w, "enqueue") \/ Return(w))
  BY DEF WriteQueued
<1>4. written \in SUBSET SimulationTaskSpec
  BY <1>1 DEF WorkerState
<1>5. lifecycle' \in [CandidateIds -> CandidateLifecycleEntry]
  BY <1>1, <1>3, <1>4, LifecycleType
<1>6. worker' \in [Workers -> WorkerState] /\ LocalsOK' /\ TasksKnown'
  BY <1>1, <1>2, <1>3, MoveType DEF Pcs
<1>7. QED
  BY <1>2, <1>5, <1>6

\* A task is queued, or dropped.
LEMMA EnqueueType ==
    ASSUME PipelineTypeOK, tasks \subseteq tasks', NEW w \in Workers, Enqueue(w)
    PROVE  /\ worker' \in [Workers -> WorkerState]
           /\ LocalsOK' /\ TasksKnown' /\ sim' = sim
           /\ lifecycle' \in [CandidateIds -> CandidateLifecycleEntry]
<1>1. /\ worker \in [Workers -> WorkerState] /\ LocalsOK /\ TasksKnown
      /\ lifecycle \in [CandidateIds -> CandidateLifecycleEntry]
  BY DEF PipelineTypeOK
<1>2. UNCHANGED <<sim, offered>> /\ worker[w].pc = "enqueue"
  BY DEF Enqueue, At
<1>3. PICK g \in worker[w].groups :
        \/ /\ sim_queue' = Append(sim_queue, g)
           /\ \E written \in SUBSET g :
                ApplySimDispatched(written) /\ (TaskLeaves(w, g) \/ Return(w))
        \/ TaskLeaves(w, g) /\ UNCHANGED <<sim_queue, lifecycle>>
  BY DEF Enqueue
<1>4. g \in SUBSET SimulationTaskSpec /\ g \in SUBSET tasks
  BY <1>1, <1>2 DEF WorkerState, TasksKnown
<1>5. lifecycle' \in [CandidateIds -> CandidateLifecycleEntry]
  <2>1. CASE UNCHANGED lifecycle
    BY <1>1, <2>1
  <2>2. ASSUME NEW written \in SUBSET g, ApplySimDispatched(written)
        PROVE  lifecycle' \in [CandidateIds -> CandidateLifecycleEntry]
    BY <1>1, <1>4, <2>2, LifecycleType
  <2>3. QED
    BY <1>3, <2>1, <2>2
<1>6. /\ worker' \in [Workers -> WorkerState] /\ LocalsOK'
      /\ worker'[w].groups \subseteq worker[w].groups
      /\ \A u \in Workers : u # w => worker'[u] = worker[u]
  <2>1. CASE TaskLeaves(w, g)
    BY <1>1, <1>2, <2>1, TaskLeavesFacts
  <2>2. CASE Return(w)
    <3>1. Idle.groups = {}
      BY DEF Idle
    <3>2. QED
      BY <1>1, <2>2, <3>1, ReturnFacts, ReturnLocals
  <2>3. QED
    BY <1>3, <2>1, <2>2
<1>7. \A u \in Workers : \A x \in worker'[u].groups : x \subseteq tasks'
  BY <1>1, <1>6 DEF TasksKnown
<1>8. sim_queue' \in Seq(SUBSET tasks)
  <2>1. sim_queue \in Seq(SUBSET tasks)
    BY <1>1 DEF TasksKnown
  <2>2. QED
    BY <1>3, <1>4, <2>1
<1>9. sim_queue' \in Seq(SUBSET tasks')
  BY <1>8, SeqGrows
<1>10. TasksKnown'
  BY <1>1, <1>2, <1>7, <1>9 DEF TasksKnown
<1>11. QED
  BY <1>2, <1>5, <1>6, <1>10

\* The simulation workers.
LEMMA SimulateType ==
    ASSUME PipelineTypeOK, tasks \subseteq tasks', NEW v \in SimWorkers, Simulate(v)
    PROVE  /\ worker' = worker /\ TasksKnown'
           /\ lifecycle' \in [CandidateIds -> CandidateLifecycleEntry]
           /\ sim' \in [SimWorkers -> SimulationTask \cup {None}]
<1>1. /\ TasksKnown /\ lifecycle \in [CandidateIds -> CandidateLifecycleEntry]
      /\ sim \in [SimWorkers -> SimulationTask \cup {None}]
      /\ tasks \subseteq SimulationTaskSpec
      /\ sim_queue \in Seq(SUBSET tasks)
  BY DEF PipelineTypeOK, TasksKnown, TypeOK
<1>2. worker' = worker
  BY DEF Simulate, TakeTask, SettleResult, DropStaleResult, FailResult, Deliver
<1>3. ASSUME NEW work, sim' = [sim EXCEPT ![v] = work],
             work = None \/ /\ work \in SimulationTask
                            /\ work.todo \subseteq tasks /\ work.accepted \subseteq tasks,
             sim_queue' \in Seq(SUBSET tasks), offered' \subseteq tasks
      PROVE  sim' \in [SimWorkers -> SimulationTask \cup {None}] /\ TasksKnown'
  <2>1. sim'[v] = work /\ \A u \in SimWorkers : u # v => sim'[u] = sim[u]
    BY <1>1, <1>3
  <2>2. sim_queue' \in Seq(SUBSET tasks')
    BY <1>3, SeqGrows
  <2>3. TasksKnown'
    BY <1>1, <1>2, <1>3, <2>1, <2>2 DEF TasksKnown
  <2>4. QED
    BY <1>1, <1>3, <2>3
<1>4. CASE TakeTask(v)
  <2>1. PICK approved \in BOOLEAN :
          sim' = [sim EXCEPT ![v] = [todo |-> Head(sim_queue), approved |-> approved,
                                     accepted |-> {}]]
    BY <1>4 DEF TakeTask
  <2>2. Head(sim_queue) \subseteq tasks /\ sim_queue' \in Seq(SUBSET tasks)
    <3>1. sim_queue # <<>> /\ sim_queue' = Tail(sim_queue)
      BY <1>4 DEF TakeTask
    <3>2. Head(sim_queue) \in SUBSET tasks /\ Tail(sim_queue) \in Seq(SUBSET tasks)
      BY <1>1, <3>1
    <3>3. QED
      BY <3>1, <3>2
  <2>3. PICK work : work = [todo |-> Head(sim_queue), approved |-> approved, accepted |-> {}]
    OBVIOUS
  <2>4. work \in SimulationTask /\ work.todo \subseteq tasks /\ work.accepted \subseteq tasks
    BY <1>1, <2>2, <2>3 DEF SimulationTask
  <2>5. UNCHANGED <<lifecycle, offered>>
    BY <1>4 DEF TakeTask, log_vars
  <2>6. offered' \subseteq tasks
    BY <1>1, <2>5 DEF TasksKnown
  <2>7. QED
    BY <1>1, <1>2, <1>3, <2>1, <2>2, <2>3, <2>4, <2>5, <2>6
<1>5. CASE sim[v] # None /\ SettleResult(v)
  <2>1. /\ sim[v] \in SimulationTask /\ sim[v].todo \subseteq tasks
        /\ sim[v].accepted \subseteq tasks
    BY <1>1, <1>5 DEF TasksKnown
  <2> DEFINE handed(t) == IF sim[v].approved THEN {t} ELSE {}
  <2>2. PICK t \in sim[v].todo :
          /\ \/ UNCHANGED lifecycle
             \/ ApplySimCompleted(t.tx_hash, SimulationStatus(sim[v].approved))
          /\ \/ sim' = [sim EXCEPT ![v].todo = @ \ {t}, ![v].accepted = @ \cup handed(t)]
             \/ sim' = [sim EXCEPT ![v] = None]
          /\ UNCHANGED <<sim_queue, offered>>
    BY <1>5 DEF SettleResult
  <2>3. SimulationStatus(sim[v].approved) \in {"ok", "failed"}
    BY DEF SimulationStatus
  <2>4. lifecycle' \in [CandidateIds -> CandidateLifecycleEntry]
    BY <1>1, <2>2, <2>3, CompletedType
  <2>5. PICK work : work = [sim[v] EXCEPT !.todo = sim[v].todo \ {t},
                                          !.accepted = sim[v].accepted \cup handed(t)]
    OBVIOUS
  <2>6. work \in SimulationTask /\ work.todo \subseteq tasks /\ work.accepted \subseteq tasks
    BY <1>1, <2>1, <2>2, <2>5 DEF SimulationTask
  <2>7. sim' = [sim EXCEPT ![v] = work] \/ sim' = [sim EXCEPT ![v] = None]
    BY <1>1, <2>2, <2>5
  <2>8. sim_queue' \in Seq(SUBSET tasks) /\ offered' \subseteq tasks
    BY <1>1, <2>2 DEF TasksKnown
  <2>9. QED
    BY <1>2, <1>3, <2>4, <2>6, <2>7, <2>8
<1>6. CASE sim[v] # None /\ DropStaleResult(v)
  <2>1. /\ sim[v] \in SimulationTask /\ sim[v].todo \subseteq tasks
        /\ sim[v].accepted \subseteq tasks
    BY <1>1, <1>6 DEF TasksKnown
  <2>2. PICK t \in sim[v].todo : /\ sim' = [sim EXCEPT ![v].todo = @ \ {t}]
                                 /\ UNCHANGED <<sim_queue, offered, lifecycle>>
    BY <1>6 DEF DropStaleResult, log_vars
  <2>3. PICK work : work = [sim[v] EXCEPT !.todo = sim[v].todo \ {t}]
    OBVIOUS
  <2>4. work \in SimulationTask /\ work.todo \subseteq tasks /\ work.accepted \subseteq tasks
    BY <1>1, <2>1, <2>2, <2>3 DEF SimulationTask
  <2>5. sim' = [sim EXCEPT ![v] = work]
    BY <1>1, <2>2, <2>3
  <2>6. sim_queue' \in Seq(SUBSET tasks) /\ offered' \subseteq tasks
    BY <1>1, <2>2 DEF TasksKnown
  <2>7. QED
    BY <1>1, <1>2, <1>3, <2>2, <2>4, <2>5, <2>6
<1>7. CASE FailResult(v)
  <2>1. sim' = [sim EXCEPT ![v] = None] /\ UNCHANGED <<sim_queue, offered, lifecycle>>
    BY <1>7 DEF FailResult, log_vars
  <2>2. sim_queue' \in Seq(SUBSET tasks) /\ offered' \subseteq tasks
    BY <1>1, <2>1 DEF TasksKnown
  <2>3. QED
    BY <1>1, <1>2, <1>3, <2>1, <2>2
<1>8. CASE sim[v] # None /\ Deliver(v)
  <2>1. sim[v] \in SimulationTask /\ sim[v].accepted \subseteq tasks
    BY <1>1, <1>8 DEF TasksKnown
  <2>2. PICK written \in SUBSET sim[v].accepted : ApplyAssemblyDecisions(written)
    BY <1>8 DEF Deliver
  <2>3. lifecycle' \in [CandidateIds -> CandidateLifecycleEntry]
    BY <1>1, <2>1, <2>2, LifecycleType
  <2>4. /\ sim' = [sim EXCEPT ![v] = None] /\ sim_queue' = sim_queue
        /\ offered' = offered \cup sim[v].accepted
    BY <1>8 DEF Deliver
  <2>5. sim_queue' \in Seq(SUBSET tasks) /\ offered' \subseteq tasks
    BY <1>1, <2>1, <2>4 DEF TasksKnown
  <2>6. QED
    BY <1>2, <1>3, <2>3, <2>4, <2>5
<1>9. QED
  BY <1>4, <1>5, <1>6, <1>7, <1>8 DEF Simulate

\* Nothing is on its way at the start.
LEMMA InitPipelineType == PipelineInit => PipelineTypeOK
<1> SUFFICES ASSUME PipelineInit PROVE PipelineTypeOK
  OBVIOUS
<1>1. TypeOK
  BY InitTypeOK DEF PipelineInit
<1>2. deployment \in Deployment
  BY PipelineAssumption DEF PipelineInit
<1>3. worker \in [Workers -> WorkerState] /\ \A w \in Workers : worker[w] = Idle
  BY IdleType DEF PipelineInit
<1>4. lifecycle \in [CandidateIds -> CandidateLifecycleEntry]
  BY DEF PipelineInit, NoCandidate, CandidateLifecycleEntry
<1>5. sim \in [SimWorkers -> SimulationTask \cup {None}] /\ \A v \in SimWorkers : sim[v] = None
  BY DEF PipelineInit
<1>6. Idle.pc = "idle" /\ Idle.replaced = None /\ Idle.groups = {}
  BY DEF Idle
<1>7. LocalsOK
  BY <1>3, <1>6 DEF LocalsOK
<1>8. TasksKnown
  <2>1. sim_queue = <<>> /\ offered = {}
    BY DEF PipelineInit
  <2>2. sim_queue \in Seq(SUBSET tasks)
    BY <2>1
  <2>3. QED
    BY <1>3, <1>5, <1>6, <2>1, <2>2 DEF TasksKnown
<1>9. QED
  BY <1>1, <1>2, <1>3, <1>4, <1>5, <1>7, <1>8 DEF PipelineTypeOK

\* Every step keeps the types.
LEMMA NextPipelineType ==
    ASSUME PipelineTypeOK, [PipelineNext]_pipeline_vars
    PROVE  PipelineTypeOK'
<1>1. [Next]_vars
  BY StepIsScheduler
<1>2. TypeOK' /\ tasks \subseteq tasks'
  BY <1>1, NextTypeOK, TasksGrow DEF PipelineTypeOK
<1>3. /\ deployment \in Deployment
      /\ deployment.workers \subseteq Workers /\ deployment.sim_workers \subseteq SimWorkers
      /\ deployment.reported \subseteq Hashes
  BY DEF PipelineTypeOK, Deployment
<1>4. deployment' \in Deployment
  BY <1>3 DEF PipelineNext, pipeline_vars
<1>5. /\ worker \in [Workers -> WorkerState]
      /\ lifecycle \in [CandidateIds -> CandidateLifecycleEntry]
      /\ sim \in [SimWorkers -> SimulationTask \cup {None}]
      /\ LocalsOK /\ TasksKnown
  BY DEF PipelineTypeOK
<1> DEFINE Kept == /\ worker' \in [Workers -> WorkerState]
                   /\ lifecycle' \in [CandidateIds -> CandidateLifecycleEntry]
                   /\ sim' \in [SimWorkers -> SimulationTask \cup {None}]
                   /\ LocalsOK' /\ TasksKnown'
<1>6. CASE UNCHANGED pipeline_vars
  <2>1. UNCHANGED <<worker, lifecycle, sim, sim_queue, offered, tasks>>
    BY <1>6 DEF pipeline_vars, log_vars, sim_vars, scheduler_vars, candidate_vars
  <2>2. LocalsOK' /\ TasksKnown'
    BY <1>5, <2>1 DEF LocalsOK, TasksKnown
  <2>3. Kept
    BY <1>5, <2>1, <2>2
  <2>4. QED
    BY <1>2, <1>4, <2>3 DEF PipelineTypeOK
<1>7. ASSUME NEW w \in Workers, NEW h \in Hashes,
             ObserveFetched(w, h) \/ ObserveRefused(w, h) \/ ObserveUnfetched(w, h)
      PROVE  Kept
  <2>1. /\ worker' \in [Workers -> WorkerState] /\ LocalsOK' /\ TasksKnown'
        /\ UNCHANGED <<lifecycle, sim>>
    BY <1>2, <1>7, ObserveType
  <2>2. QED
    BY <1>5, <2>1
<1>8. ASSUME NEW w \in Workers, Process(w)
      PROVE  Kept
  <2>1. CASE WriteSeen(w) \/ WriteReplaced(w) \/ Invalidate(w) \/ WriteDecision(w)
             \/ FindNothing(w) \/ GiveUp(w)
    <3>1. /\ worker' \in [Workers -> WorkerState] /\ LocalsOK' /\ TasksKnown'
          /\ UNCHANGED <<lifecycle, sim>>
      BY <1>2, <2>1, HandlerType
    <3>2. QED
      BY <1>5, <3>1
  <2>2. CASE CollectExecutable(w) \/ CollectContext(w) \/ WriteTransition(w) \/ Register(w)
    <3>1. /\ worker' \in [Workers -> WorkerState] /\ LocalsOK' /\ TasksKnown'
          /\ UNCHANGED <<lifecycle, sim>>
      BY <1>2, <2>2, LocalsType
    <3>2. QED
      BY <1>5, <3>1
  <2>3. CASE WriteQueued(w) \/ Enqueue(w)
    BY <1>2, <1>5, <2>3, QueuedType, EnqueueType
  <2>4. QED
    BY <1>8, <2>1, <2>2, <2>3 DEF Process
<1>9. ASSUME NEW v \in SimWorkers, Simulate(v)
      PROVE  Kept
  <2>1. /\ worker' = worker /\ TasksKnown'
        /\ lifecycle' \in [CandidateIds -> CandidateLifecycleEntry]
        /\ sim' \in [SimWorkers -> SimulationTask \cup {None}]
    BY <1>2, <1>9, SimulateType
  <2>2. LocalsOK'
    BY <1>5, <2>1 DEF LocalsOK
  <2>3. QED
    BY <1>5, <2>1, <2>2
<1>10. CASE PipelineNext
  <2>1. Kept
    BY <1>3, <1>7, <1>8, <1>9, <1>10 DEF PipelineNext, Observe
  <2>2. QED
    BY <1>2, <1>4, <2>1 DEF PipelineTypeOK
<1>11. QED
  BY <1>6, <1>10

\* The state of the pipeline has the types its steps rely on, and every task spec on
\* its way is one of the scheduler's.
THEOREM PipelineTypeCorrect == PipelineSpec => []PipelineTypeOK
BY InitPipelineType, NextPipelineType, PTL DEF PipelineSpec

\* However many workers and simulations call it, what the scheduler goes through in the
\* pipeline is a behaviour of Scheduler: every theorem about that one holds here.
THEOREM PipelineRunsScheduler == PipelineSpec => Spec
<1>1. PipelineInit => Init
  BY DEF PipelineInit
<1>2. PipelineTypeOK /\ [PipelineNext]_pipeline_vars => [Next]_vars
  BY StepIsScheduler
<1>3. QED
  BY <1>1, <1>2, PipelineTypeCorrect, PTL DEF PipelineSpec, Spec

----------------------------------------------------------------------------
(* What the events of candidates say about one candidate *)

Named(specs, id) == \E t \in specs : t.candidate_id = id

\* CandidateQueued.
LEMMA QueuedEntry ==
    ASSUME lifecycle \in [CandidateIds -> CandidateLifecycleEntry],
           NEW specs \in SUBSET SimulationTaskSpec, ApplyCandidateQueued(specs),
           NEW id \in CandidateIds
    PROVE  /\ lifecycle[id].queued => lifecycle'[id].queued
           /\ Named(specs, id) => lifecycle'[id].queued
           /\ lifecycle'[id].simulation_block_number = lifecycle[id].simulation_block_number
           /\ lifecycle'[id].simulation_status = lifecycle[id].simulation_status
           /\ lifecycle'[id].assembly_status = lifecycle[id].assembly_status
           /\ ~Named(specs, id) => lifecycle'[id].tx_hash = lifecycle[id].tx_hash
<1> DEFINE spec == CHOOSE t \in specs : t.candidate_id = id
<1>1. lifecycle'[id] = IF Named(specs, id)
                       THEN [lifecycle[id] EXCEPT !.tx_hash = spec.tx_hash, !.queued = TRUE]
                       ELSE lifecycle[id]
  BY DEF ApplyCandidateQueued, Named
<1> HIDE DEF spec
<1>2. lifecycle[id] \in CandidateLifecycleEntry
  OBVIOUS
<1>3. QED
  BY <1>1, <1>2 DEF CandidateLifecycleEntry

\* SimDispatched.
LEMMA DispatchedEntry ==
    ASSUME lifecycle \in [CandidateIds -> CandidateLifecycleEntry],
           NEW specs \in SUBSET SimulationTaskSpec, ApplySimDispatched(specs),
           NEW id \in CandidateIds
    PROVE  /\ lifecycle'[id].queued = lifecycle[id].queued
           /\ lifecycle'[id].simulation_status = lifecycle[id].simulation_status
           /\ lifecycle'[id].assembly_status = lifecycle[id].assembly_status
           /\ ~Named(specs, id) => lifecycle'[id] = lifecycle[id]
<1> DEFINE spec == CHOOSE t \in specs : t.candidate_id = id
<1>1. lifecycle'[id] = IF Named(specs, id)
                       THEN [lifecycle[id] EXCEPT !.tx_hash = spec.tx_hash,
                                                  !.simulation_block_number = spec.block_number]
                       ELSE lifecycle[id]
  BY DEF ApplySimDispatched, Named
<1> HIDE DEF spec
<1>2. lifecycle[id] \in CandidateLifecycleEntry
  OBVIOUS
<1>3. QED
  BY <1>1, <1>2 DEF CandidateLifecycleEntry

\* SimCompleted.
LEMMA CompletedEntry ==
    ASSUME lifecycle \in [CandidateIds -> CandidateLifecycleEntry], NEW hash, NEW status,
           ApplySimCompleted(hash, status), NEW id \in CandidateIds
    PROVE  /\ lifecycle'[id].queued = lifecycle[id].queued
           /\ lifecycle'[id].tx_hash = lifecycle[id].tx_hash
           /\ lifecycle'[id].simulation_block_number = lifecycle[id].simulation_block_number
           /\ lifecycle'[id].assembly_status = lifecycle[id].assembly_status
           /\ lifecycle[id].tx_hash # hash => lifecycle'[id] = lifecycle[id]
<1>1. lifecycle'[id] = IF lifecycle[id].tx_hash = hash
                       THEN [lifecycle[id] EXCEPT !.simulation_status = status]
                       ELSE lifecycle[id]
  BY DEF ApplySimCompleted
<1>2. lifecycle[id] \in CandidateLifecycleEntry
  OBVIOUS
<1>3. QED
  BY <1>1, <1>2 DEF CandidateLifecycleEntry

\* AssemblyDecision.
LEMMA AssemblyEntry ==
    ASSUME lifecycle \in [CandidateIds -> CandidateLifecycleEntry],
           NEW specs \in SUBSET SimulationTaskSpec, ApplyAssemblyDecisions(specs),
           NEW id \in CandidateIds
    PROVE  /\ lifecycle'[id].queued = lifecycle[id].queued
           /\ lifecycle'[id].simulation_block_number = lifecycle[id].simulation_block_number
           /\ lifecycle'[id].simulation_status = lifecycle[id].simulation_status
           /\ Named(specs, id) => lifecycle'[id].assembly_status # None
           /\ ~Named(specs, id) => lifecycle'[id] = lifecycle[id]
<1> DEFINE spec == CHOOSE t \in specs : t.candidate_id = id
<1>1. lifecycle'[id] = IF Named(specs, id)
                       THEN [lifecycle[id] EXCEPT !.tx_hash = spec.tx_hash,
                                                  !.assembly_status = "decided"]
                       ELSE lifecycle[id]
  BY DEF ApplyAssemblyDecisions, Named
<1> HIDE DEF spec
<1>2. lifecycle[id] \in CandidateLifecycleEntry
  OBVIOUS
<1>3. QED
  BY <1>1, <1>2, PipelineAssumption DEF CandidateLifecycleEntry

\* What a worker's step may do to the candidates and the simulations.
LEMMA WorkerEvents ==
    ASSUME PipelineTypeOK, NEW w \in Workers, Observe(w) \/ Process(w)
    PROVE  /\ UNCHANGED <<sim, handoffs, offered, late>>
           /\ \/ UNCHANGED lifecycle
              \/ \E specs \in SUBSET SimulationTaskSpec :
                   ApplyCandidateQueued(specs) \/ ApplySimDispatched(specs)
<1>1. CASE WriteQueued(w)
  <2>1. PICK written \in SUBSET UNION worker[w].groups : ApplyCandidateQueued(written)
    BY <1>1 DEF WriteQueued
  <2>2. written \in SUBSET SimulationTaskSpec
    BY <2>1 DEF PipelineTypeOK, WorkerState
  <2>3. UNCHANGED <<sim, handoffs, offered, late>>
    BY <1>1 DEF WriteQueued, sim_vars
  <2>4. QED
    BY <2>1, <2>2, <2>3
<1>2. CASE Enqueue(w)
  <2>1. PICK g \in worker[w].groups :
          UNCHANGED lifecycle \/ \E written \in SUBSET g : ApplySimDispatched(written)
    BY <1>2 DEF Enqueue
  <2>2. g \in SUBSET SimulationTaskSpec
    BY <2>1 DEF PipelineTypeOK, WorkerState
  <2>3. UNCHANGED <<sim, handoffs, offered, late>>
    BY <1>2 DEF Enqueue
  <2>4. QED
    BY <2>1, <2>2, <2>3
<1>3. CASE Observe(w)
  BY <1>3 DEF Observe, ObserveFetched, ObserveRefused, ObserveUnfetched, sim_vars, log_vars
<1>4. CASE WriteSeen(w) \/ WriteReplaced(w) \/ Invalidate(w) \/ WriteDecision(w)
           \/ FindNothing(w) \/ GiveUp(w)
  BY <1>4 DEF WriteSeen, WriteReplaced, Invalidate, WriteDecision, FindNothing, GiveUp,
              sim_vars, log_vars
<1>5. CASE CollectExecutable(w) \/ CollectContext(w) \/ WriteTransition(w) \/ Register(w)
  BY <1>5 DEF CollectExecutable, CollectContext, WriteTransition, Register, sim_vars, log_vars
<1>6. QED
  BY <1>1, <1>2, <1>3, <1>4, <1>5 DEF Process

----------------------------------------------------------------------------
(* What is handed off reaches the builder *)

\* No event takes an assembly decision back.
LEMMA DecidedStays ==
    ASSUME PipelineTypeOK, PipelineNext, NEW id \in CandidateIds,
           lifecycle[id].assembly_status # None
    PROVE  lifecycle'[id].assembly_status # None
<1>1. /\ lifecycle \in [CandidateIds -> CandidateLifecycleEntry]
      /\ sim \in [SimWorkers -> SimulationTask \cup {None}]
      /\ deployment.workers \subseteq Workers /\ deployment.sim_workers \subseteq SimWorkers
  BY DEF PipelineTypeOK, Deployment
<1>2. ASSUME NEW w \in Workers, Observe(w) \/ Process(w)
      PROVE  lifecycle'[id].assembly_status # None
  <2>1. CASE UNCHANGED lifecycle
    BY <2>1
  <2>2. ASSUME NEW specs \in SUBSET SimulationTaskSpec,
               ApplyCandidateQueued(specs) \/ ApplySimDispatched(specs)
        PROVE  lifecycle'[id].assembly_status # None
    BY <1>1, <2>2, QueuedEntry, DispatchedEntry
  <2>3. QED
    BY <1>2, <2>1, <2>2, WorkerEvents
<1>3. ASSUME NEW v \in SimWorkers, Simulate(v)
      PROVE  lifecycle'[id].assembly_status # None
  <2>1. CASE UNCHANGED lifecycle
    BY <2>1
  <2>2. ASSUME NEW hash, NEW status, ApplySimCompleted(hash, status)
        PROVE  lifecycle'[id].assembly_status # None
    BY <1>1, <2>2, CompletedEntry
  <2>3. CASE sim[v] # None /\ Deliver(v)
    <3>1. PICK written \in SUBSET sim[v].accepted : ApplyAssemblyDecisions(written)
      BY <2>3 DEF Deliver
    <3>2. written \in SUBSET SimulationTaskSpec
      BY <1>1, <2>3, <3>1 DEF SimulationTask
    <3>3. QED
      BY <1>1, <3>1, <3>2, AssemblyEntry
  <2>4. CASE SettleResult(v)
    BY <2>1, <2>2, <2>4 DEF SettleResult
  <2>5. CASE TakeTask(v) \/ DropStaleResult(v) \/ FailResult(v)
    BY <2>1, <2>5 DEF TakeTask, DropStaleResult, FailResult, log_vars
  <2>6. QED
    BY <1>3, <2>3, <2>4, <2>5 DEF Simulate
<1>4. QED
  BY <1>1, <1>2, <1>3 DEF PipelineNext

\* Some simulation worker is about to deliver the task spec.
Carried(t) == \E v \in SimWorkers : sim[v] # None /\ t \in sim[v].accepted

\* Nothing refused, a simulation worker loses no accepted candidate.
LEMMA SimulateHandoffs ==
    ASSUME PipelineTypeOK, Reliable, NEW v \in SimWorkers, Simulate(v),
           \A t \in handoffs \ offered : Carried(t)
    PROVE  /\ \A t \in handoffs' \ offered' : Carried(t)'
           /\ \A t \in offered' \ offered :
                t \in tasks /\ lifecycle'[t.candidate_id].assembly_status # None
<1>1. /\ lifecycle \in [CandidateIds -> CandidateLifecycleEntry]
      /\ sim \in [SimWorkers -> SimulationTask \cup {None}]
      /\ sim[v] # None => sim[v] \in SimulationTask /\ sim[v].accepted \subseteq tasks
      /\ tasks \subseteq SimulationTaskSpec
  BY DEF PipelineTypeOK, TasksKnown, TypeOK
<1>2. ~StorageMayFill /\ ~SchedulerMayRefuse
  BY DEF Reliable
<1>3. ASSUME NEW work \in SimulationTask,
             sim' = [sim EXCEPT ![v] = work],
             sim[v] # None => sim[v].accepted \subseteq work.accepted
      PROVE  \A t : Carried(t) => Carried(t)'
  <2>1. sim'[v] = work /\ work # None /\ \A u \in SimWorkers : u # v => sim'[u] = sim[u]
    BY <1>1, <1>3, PipelineAssumption
  <2>2. QED
    BY <1>3, <2>1 DEF Carried
<1>4. CASE TakeTask(v)
  <2>1. PICK approved \in BOOLEAN :
          sim' = [sim EXCEPT ![v] = [todo |-> Head(sim_queue), approved |-> approved,
                                     accepted |-> {}]]
    BY <1>4 DEF TakeTask
  <2>2. sim[v] = None /\ UNCHANGED <<handoffs, offered>>
    BY <1>4 DEF TakeTask
  <2>3. \A u \in SimWorkers : u # v => sim'[u] = sim[u]
    BY <1>1, <2>1
  <2>4. \A t : Carried(t) => Carried(t)'
    BY <2>2, <2>3 DEF Carried
  <2>5. QED
    BY <2>2, <2>4
<1>5. CASE sim[v] # None /\ SettleResult(v)
  <2> DEFINE handed(t) == IF sim[v].approved THEN {t} ELSE {}
  <2>1. PICK t \in sim[v].todo :
          /\ sim' = [sim EXCEPT ![v].todo = @ \ {t}, ![v].accepted = @ \cup handed(t)]
          /\ handoffs' = handoffs \cup handed(t)
          /\ UNCHANGED offered
    BY <1>2, <1>5 DEF SettleResult
  <2>2. PICK work : work = [sim[v] EXCEPT !.todo = sim[v].todo \ {t},
                                          !.accepted = sim[v].accepted \cup handed(t)]
    OBVIOUS
  <2>3. /\ work \in SimulationTask /\ work.accepted = sim[v].accepted \cup handed(t)
        /\ sim' = [sim EXCEPT ![v] = work]
    BY <1>1, <1>5, <2>1, <2>2 DEF SimulationTask
  <2>4. \A u : Carried(u) => Carried(u)'
    BY <1>3, <2>3
  <2>5. sim'[v] = work /\ work # None
    BY <1>1, <2>3, PipelineAssumption
  <2>6. \A u \in handed(t) : Carried(u)'
    BY <2>3, <2>5 DEF Carried
  <2> HIDE DEF handed
  <2>7. QED
    BY <2>1, <2>4, <2>6
<1>6. CASE sim[v] # None /\ DropStaleResult(v)
  <2>1. PICK t \in sim[v].todo : /\ sim' = [sim EXCEPT ![v].todo = @ \ {t}]
                                 /\ UNCHANGED <<handoffs, offered>>
    BY <1>6 DEF DropStaleResult
  <2>2. PICK work : work = [sim[v] EXCEPT !.todo = sim[v].todo \ {t}]
    OBVIOUS
  <2>3. /\ work \in SimulationTask /\ work.accepted = sim[v].accepted
        /\ sim' = [sim EXCEPT ![v] = work]
    BY <1>1, <1>6, <2>1, <2>2 DEF SimulationTask
  <2>4. \A u : Carried(u) => Carried(u)'
    BY <1>3, <2>3
  <2>5. QED
    BY <2>1, <2>4
<1>7. CASE FailResult(v)
  BY <1>2, <1>7 DEF FailResult
<1>8. CASE sim[v] # None /\ Deliver(v)
  <2>1. /\ ApplyAssemblyDecisions(sim[v].accepted) /\ sim' = [sim EXCEPT ![v] = None]
        /\ offered' = offered \cup sim[v].accepted /\ handoffs' = handoffs
    BY <1>2, <1>8 DEF Deliver
  <2>2. sim[v].accepted \in SUBSET SimulationTaskSpec
    BY <1>1, <1>8 DEF SimulationTask
  <2>3. ASSUME NEW t \in sim[v].accepted
        PROVE  t \in tasks /\ lifecycle'[t.candidate_id].assembly_status # None
    <3>1. t.candidate_id \in CandidateIds /\ Named(sim[v].accepted, t.candidate_id)
      BY <2>2 DEF SimulationTaskSpec, Named
    <3>2. QED
      BY <1>1, <1>8, <2>1, <2>2, <3>1, AssemblyEntry
  <2>4. \A u \in SimWorkers : u # v => sim'[u] = sim[u]
    BY <1>1, <2>1
  <2>5. \A t : Carried(t) /\ t \notin sim[v].accepted => Carried(t)'
    BY <2>4 DEF Carried
  <2>6. QED
    BY <2>1, <2>3, <2>5
<1>9. QED
  BY <1>4, <1>5, <1>6, <1>7, <1>8 DEF Simulate

\* A candidate the scheduler handed off is never lost between the scheduler and the
\* builder while nothing is refused, for any number of workers and simulations, and what
\* the builder got is assembled in a replay of the log.
THEOREM HandoffsDelivered == PipelineSpec => []HandoffsReachBuilder
<1>1. PipelineInit => HandoffsReachBuilder
  BY DEF PipelineInit, HandoffsReachBuilder
<1>2. ASSUME PipelineTypeOK, HandoffsReachBuilder, [PipelineNext]_pipeline_vars
      PROVE  HandoffsReachBuilder'
  <2>1. CASE UNCHANGED pipeline_vars
    BY <1>2, <2>1 DEF pipeline_vars, HandoffsReachBuilder, Reliable, StorageMayFill,
                      SchedulerMayRefuse, sim_vars, log_vars
  <2>2. CASE PipelineNext
    <3> SUFFICES ASSUME Reliable'
                 PROVE  /\ \A t \in handoffs' \ offered' : Carried(t)'
                        /\ \A t \in offered' : lifecycle'[t.candidate_id].assembly_status # None
      BY DEF HandoffsReachBuilder, Carried
    <3>1. Reliable
      BY <2>2 DEF PipelineNext, Reliable, StorageMayFill, SchedulerMayRefuse
    <3>2. /\ \A t \in handoffs \ offered : Carried(t)
          /\ \A t \in offered : lifecycle[t.candidate_id].assembly_status # None
      BY <1>2, <3>1 DEF HandoffsReachBuilder, Carried
    <3>3. \A t \in offered : t.candidate_id \in CandidateIds
      BY <1>2 DEF PipelineTypeOK, TasksKnown, TypeOK, SimulationTaskSpec
    <3>4. \A t \in offered : lifecycle'[t.candidate_id].assembly_status # None
      BY <1>2, <2>2, <3>2, <3>3, DecidedStays
    <3>5. deployment.workers \subseteq Workers /\ deployment.sim_workers \subseteq SimWorkers
      BY <1>2 DEF PipelineTypeOK, Deployment
    <3>6. CASE \E w \in Workers : Observe(w) \/ Process(w)
      <4>1. UNCHANGED <<sim, handoffs, offered>>
        BY <1>2, <3>6, WorkerEvents
      <4>2. \A t : Carried(t) => Carried(t)'
        BY <4>1 DEF Carried
      <4>3. QED
        BY <3>2, <3>4, <4>1, <4>2
    <3>7. CASE \E v \in SimWorkers : Simulate(v)
      <4>1. /\ \A t \in handoffs' \ offered' : Carried(t)'
            /\ \A t \in offered' \ offered : lifecycle'[t.candidate_id].assembly_status # None
        BY <1>2, <3>1, <3>2, <3>7, SimulateHandoffs
      <4>2. QED
        BY <3>4, <4>1
    <3>8. QED
      BY <2>2, <3>5, <3>6, <3>7 DEF PipelineNext
  <2>3. QED
    BY <1>2, <2>1, <2>2
<1>3. QED
  BY <1>1, <1>2, PipelineTypeCorrect, PTL DEF PipelineSpec

----------------------------------------------------------------------------
(* Replaced transactions are not handed off *)

\* A worker's step leaves the locals of the others alone.
LEMMA OthersStay ==
    ASSUME PipelineTypeOK, NEW w \in Workers, Observe(w) \/ Process(w),
           NEW u \in Workers, u # w
    PROVE  worker'[u] = worker[u]
<1>1. worker \in [Workers -> WorkerState]
  BY DEF PipelineTypeOK
<1>2. CASE Observe(w)
  BY <1>1, <1>2 DEF Observe, ObserveFetched, ObserveRefused, ObserveUnfetched
<1>3. CASE WriteSeen(w) \/ WriteReplaced(w) \/ Invalidate(w) \/ WriteDecision(w)
           \/ FindNothing(w) \/ GiveUp(w)
  BY <1>1, <1>3 DEF WriteSeen, WriteReplaced, Invalidate, WriteDecision, FindNothing, GiveUp,
                    Goto, Return
<1>4. CASE CollectExecutable(w) \/ CollectContext(w) \/ WriteTransition(w) \/ Register(w)
  BY <1>1, <1>4 DEF CollectExecutable, CollectContext, WriteTransition, Register
<1>5. CASE WriteQueued(w) \/ Enqueue(w)
  BY <1>1, <1>5 DEF WriteQueued, Enqueue, Goto, Return, TaskLeaves
<1>6. QED
  BY <1>2, <1>3, <1>4, <1>5 DEF Process

\* Only an admission changes the pool.
LEMMA PoolStays ==
    ASSUME \/ \E w \in Workers : Process(w)
           \/ \E v \in SimWorkers : Simulate(v)
    PROVE  UNCHANGED <<pending, retired>>
<1>1. UNCHANGED scheduler_vars => UNCHANGED <<pending, retired>>
  BY DEF scheduler_vars, admission_vars
<1>2. ASSUME NEW w \in Workers, Process(w) PROVE UNCHANGED <<pending, retired>>
  <2>1. CASE Invalidate(w) \/ Register(w)
    BY <2>1 DEF Invalidate, Register, InvalidateCandidateHash, RegisterCandidates,
                admission_vars
  <2>2. CASE WriteSeen(w) \/ WriteReplaced(w) \/ WriteDecision(w) \/ CollectExecutable(w)
             \/ CollectContext(w) \/ WriteTransition(w)
    BY <1>1, <2>2 DEF WriteSeen, WriteReplaced, WriteDecision, CollectExecutable,
                      CollectContext, WriteTransition
  <2>3. CASE FindNothing(w) \/ WriteQueued(w) \/ Enqueue(w) \/ GiveUp(w)
    BY <1>1, <2>3 DEF FindNothing, WriteQueued, Enqueue, GiveUp
  <2>4. QED
    BY <1>2, <2>1, <2>2, <2>3 DEF Process
<1>3. ASSUME NEW v \in SimWorkers, Simulate(v) PROVE UNCHANGED <<pending, retired>>
  BY <1>1, <1>3 DEF Simulate, TakeTask, SettleResult, DropStaleResult, FailResult, Deliver,
                    ApplySimulationResult, RecordStaleSimulationResult, admission_vars
<1>4. QED
  BY <1>2, <1>3

\* The worker has yet to tell the scheduler that m was replaced.
Invalidating(w, m) ==
    worker[w].replaced = m /\ worker[w].pc \in {"seen", "replaced", "invalidate"}

\* Nothing refused, it does so: it stays on the way or takes the step.
LEMMA KeepsInvalidating ==
    ASSUME PipelineTypeOK, Reliable, NEW w \in Workers, Process(w), NEW m \in Hashes,
           Invalidating(w, m)
    PROVE  Invalidating(w, m)' \/ (Invalidate(w) /\ worker[w].replaced = m)
<1>1. /\ worker \in [Workers -> WorkerState] /\ worker[w].replaced = m
      /\ worker[w].pc \in {"seen", "replaced", "invalidate"}
      /\ worker[w].decision = "admitted" /\ m # None
  BY TransactionAssumption DEF PipelineTypeOK, LocalsOK, Invalidating
<1>2. CASE WriteSeen(w)
  <2>1. Goto(w, "replaced")
    BY <1>1, <1>2 DEF WriteSeen
  <2>2. worker'[w] = [worker[w] EXCEPT !.pc = "replaced"]
    BY <1>1, <2>1, GotoFacts DEF Pcs
  <2>3. QED
    BY <1>1, <2>2 DEF Invalidating, WorkerState
<1>3. CASE WriteReplaced(w)
  <2>1. worker'[w] = [worker[w] EXCEPT !.pc = "invalidate"]
    BY <1>1, <1>3, GotoFacts DEF Pcs, WriteReplaced
  <2>2. QED
    BY <1>1, <2>1 DEF Invalidating, WorkerState
<1>4. CASE Invalidate(w)
  BY <1>1, <1>4
<1>5. CASE GiveUp(w)
  BY <1>5 DEF GiveUp, Reliable
<1>6. CASE WriteDecision(w) \/ CollectExecutable(w) \/ CollectContext(w) \/ WriteTransition(w)
           \/ Register(w) \/ FindNothing(w) \/ WriteQueued(w) \/ Enqueue(w)
  BY <1>1, <1>6 DEF WriteDecision, CollectExecutable, CollectContext, WriteTransition,
                    Register, FindNothing, WriteQueued, Enqueue, At
<1>7. QED
  BY <1>2, <1>3, <1>4, <1>5, <1>6 DEF Process

\* What a worker holds for executable comes from the pool.
LEMMA ExecutableStep ==
    ASSUME PipelineTypeOK, NEW w \in Workers, Process(w), worker[w].executable \subseteq pending
    PROVE  worker'[w].executable \subseteq pending
<1>1. worker \in [Workers -> WorkerState] /\ worker[w] \in WorkerState /\ Idle.executable = {}
  BY DEF PipelineTypeOK, Idle
<1>2. ASSUME Return(w) PROVE worker'[w].executable \subseteq pending
  BY <1>1, <1>2, ReturnFacts
<1>3. ASSUME NEW pc \in Pcs, Goto(w, pc) PROVE worker'[w].executable \subseteq pending
  <2>1. worker'[w] = [worker[w] EXCEPT !.pc = pc]
    BY <1>1, <1>3, GotoFacts
  <2>2. QED
    BY <1>1, <2>1 DEF WorkerState
<1>4. CASE WriteSeen(w) \/ WriteReplaced(w) \/ Invalidate(w) \/ WriteDecision(w)
           \/ FindNothing(w) \/ GiveUp(w) \/ WriteQueued(w)
  BY <1>2, <1>3, <1>4 DEF WriteSeen, WriteReplaced, Invalidate, WriteDecision, FindNothing,
                          GiveUp, WriteQueued, Pcs
<1>5. CASE CollectExecutable(w)
  BY <1>1, <1>5 DEF CollectExecutable, WorkerState
<1>6. CASE CollectContext(w) \/ WriteTransition(w) \/ Register(w)
  BY <1>1, <1>6 DEF CollectContext, WriteTransition, Register, WorkerState
<1>7. CASE Enqueue(w)
  <2>1. ASSUME NEW g, TaskLeaves(w, g) PROVE worker'[w].executable \subseteq pending
    <3>1. worker'[w] = IF worker[w].groups = {g} THEN Idle
                       ELSE [worker[w] EXCEPT !.groups = worker[w].groups \ {g}]
      BY <1>1, <2>1 DEF TaskLeaves
    <3>2. QED
      BY <1>1, <3>1 DEF WorkerState
  <2>2. QED
    BY <1>2, <1>7, <2>1 DEF Enqueue
<1>8. QED
  BY <1>4, <1>5, <1>6, <1>7 DEF Process

\* An admission retires nothing but what its worker will have invalidated.
LEMMA ObservedPool ==
    ASSUME PipelineTypeOK, NEW w \in Workers, NEW h \in Hashes,
           ObserveFetched(w, h) \/ ObserveRefused(w, h) \/ ObserveUnfetched(w, h)
    PROVE  /\ UNCHANGED <<tasks, superseded>>
           /\ worker[w] = Idle /\ worker'[w].executable = {}
           /\ \A m \in retired' \ pending' : ~Invalidating(w, m)' => m \in retired \ pending
<1>1. /\ worker \in [Workers -> WorkerState] /\ worker[w] = Idle
      /\ Idle \in WorkerState /\ Idle.executable = {}
  BY IdleType DEF PipelineTypeOK, LocalsOK, ObserveFetched, ObserveRefused, ObserveUnfetched,
                  At, Idle
<1>2. CASE ObserveFetched(w, h)
  <2>1. UNCHANGED <<tasks, superseded>>
    BY <1>2 DEF ObserveFetched, Admit, AdmitDuplicate, AdmitReplacement, AdmitUnderpriced,
                AdmitOverLimit, AdmitNew, candidate_vars
  <2>2. PICK locals : locals = [Idle EXCEPT
          !.pc = "seen", !.hash = h, !.decision = AdmissionDecision(h),
          !.replaced = IF h \notin pending /\ h \in pending' /\ Incumbent(h) \in pending
                       THEN Incumbent(h) ELSE None,
          !.transitions = AdmissionTransitions(Tx[h].sender)]
    OBVIOUS
  <2>3. worker' = [worker EXCEPT ![w] = locals]
    BY <1>1, <1>2, <2>2 DEF ObserveFetched
  <2>4. /\ worker'[w].executable = {} /\ worker'[w].pc = "seen"
        /\ worker'[w].replaced = IF h \notin pending /\ h \in pending' /\ Incumbent(h) \in pending
                                 THEN Incumbent(h) ELSE None
    BY <1>1, <2>2, <2>3 DEF Idle
  <2>5. ASSUME NEW m \in retired' \ pending', ~Invalidating(w, m)'
        PROVE  m \in retired \ pending
    <3>1. CASE AdmitReplacement(h)
      <4>1. /\ h \notin pending /\ Incumbent(h) \in pending
            /\ pending' = (pending \ {Incumbent(h)}) \cup {h}
            /\ retired' = retired \cup {Incumbent(h)}
        BY <3>1 DEF AdmitReplacement, Place
      <4>2. m # Incumbent(h)
        BY <2>4, <2>5, <4>1 DEF Invalidating
      <4>3. QED
        BY <2>5, <4>1, <4>2
    <3>2. CASE AdmitNew(h)
      <4>1. pending' = (pending \ {None}) \cup {h} /\ retired' = retired
        BY <3>2 DEF AdmitNew, Place
      <4>2. None \notin pending
        BY TransactionAssumption DEF PipelineTypeOK, TypeOK
      <4>3. QED
        BY <2>5, <4>1, <4>2
    <3>3. CASE AdmitDuplicate(h) \/ AdmitUnderpriced(h) \/ AdmitOverLimit(h)
      BY <2>5, <3>3 DEF AdmitDuplicate, AdmitUnderpriced, AdmitOverLimit, admission_vars
    <3>4. QED
      BY <1>2, <3>1, <3>2, <3>3 DEF ObserveFetched, Admit
  <2>6. QED
    BY <1>1, <2>1, <2>4, <2>5
<1>3. CASE ObserveRefused(w, h) \/ ObserveUnfetched(w, h)
  <2>1. UNCHANGED <<tasks, superseded, pending, retired>>
    BY <1>3 DEF ObserveRefused, ObserveUnfetched, scheduler_vars, admission_vars, candidate_vars
  <2>2. worker'[w].executable = {}
    BY <1>1, <1>3 DEF ObserveRefused, ObserveUnfetched, WorkerState
  <2>3. QED
    BY <1>1, <2>1, <2>2
<1>4. QED
  BY <1>2, <1>3

\* Tasks are registered for members that the worker holds for executable.
LEMMA RegisteredMembers ==
    ASSUME NEW w \in Workers, NEW batch \in PreparedBatches(w), RegisterCandidates(batch)
    PROVE  /\ superseded \subseteq superseded'
           /\ \A t \in tasks' \ tasks : MembersOf(t) \subseteq worker[w].executable
<1>1. /\ tasks' = tasks \cup {TaskFor(c) : c \in batch}
      /\ superseded \subseteq superseded'
  BY DEF RegisterCandidates
<1>2. ASSUME NEW c \in batch PROVE MembersOf(TaskFor(c)) = MembersOf(c)
  BY DEF TaskFor, MembersOf, NormalizedMemberHashes
<1>3. \A c \in batch : MembersOf(c) \subseteq worker[w].executable
  BY DEF PreparedBatches
<1>4. QED
  BY <1>1, <1>2, <1>3

OthersIdle == \A w \in Workers \ deployment.workers : worker[w] = Idle

\* What a worker holds for executable is pending, and a task that the scheduler may still
\* accept has no member whose replacement it is done with.
ReplacementsHeeded ==
    /\ \A w \in Workers : worker[w].executable \subseteq pending
    /\ \A t \in tasks \ superseded : \A m \in MembersOf(t) : ~ReplacementDone(m)
    /\ late = {}

HeedInv == OthersIdle /\ (Reliable /\ OneWorker => ReplacementsHeeded)

\* The members of a task are transactions.
LEMMA TaskMembers ==
    ASSUME TypeOK, NEW t \in tasks
    PROVE  MembersOf(t) \subseteq Hashes
BY DEF TypeOK, SimulationTaskSpec, MembersOf, NormalizedMemberHashes

\* The one worker takes up a transaction.
LEMMA ObserveHeeds ==
    ASSUME PipelineTypeOK, NEW w \in Workers, Observe(w), ReplacementsHeeded,
           \A u \in Workers : u # w => worker[u] = Idle
    PROVE  ReplacementsHeeded'
<1>1. PICK h \in Hashes :
        ObserveFetched(w, h) \/ ObserveRefused(w, h) \/ ObserveUnfetched(w, h)
  BY DEF Observe, PipelineTypeOK, Deployment
<1>2. /\ UNCHANGED <<tasks, superseded>> /\ worker[w] = Idle /\ worker'[w].executable = {}
      /\ \A m \in retired' \ pending' : ~Invalidating(w, m)' => m \in retired \ pending
  BY <1>1, ObservedPool
<1>3. \A u \in Workers : worker[u] = Idle
  BY <1>2
<1>4. \A u \in Workers : u # w => worker'[u] = Idle
  BY <1>3, OthersStay
<1>5. Idle.executable = {} /\ Idle.pc = "idle"
  BY DEF Idle
<1>6. \A u \in Workers : worker'[u].executable \subseteq pending'
  BY <1>2, <1>4, <1>5
<1>7. ASSUME NEW m, ReplacementDone(m)' PROVE ReplacementDone(m)
  <2>1. m \in retired' \ pending' /\ ~Invalidating(w, m)'
    BY <1>7 DEF ReplacementDone, Invalidating
  <2>2. m \in retired \ pending
    BY <1>2, <2>1
  <2>3. QED
    BY <1>3, <1>5, <2>2 DEF ReplacementDone
<1>8. late' = {}
  BY WorkerEvents DEF ReplacementsHeeded
<1>9. QED
  BY <1>2, <1>6, <1>7, <1>8 DEF ReplacementsHeeded

\* The one worker goes on.
LEMMA ProcessHeeds ==
    ASSUME PipelineTypeOK, Reliable, NEW w \in Workers, Process(w), ReplacementsHeeded
    PROVE  ReplacementsHeeded'
<1>1. UNCHANGED <<pending, retired>>
  BY PoolStays
<1>2. \A u \in Workers : u # w => worker'[u] = worker[u]
  BY OthersStay
<1>3. \A u \in Workers : worker'[u].executable \subseteq pending'
  BY <1>1, <1>2, ExecutableStep DEF ReplacementsHeeded
<1>4. ASSUME NEW t \in tasks' \ superseded', NEW m \in MembersOf(t), ReplacementDone(m)'
      PROVE  FALSE
  <2>1. m \in retired \ pending /\ \A u \in Workers : ~Invalidating(u, m)'
    BY <1>1, <1>4 DEF ReplacementDone, Invalidating
  <2>2. t \in tasks
    <3>1. CASE Register(w)
      <4>1. PICK batch \in PreparedBatches(w) : RegisterCandidates(batch)
        BY <3>1 DEF Register
      <4>2. t \notin tasks => MembersOf(t) \subseteq worker[w].executable
        BY <1>4, <4>1, RegisteredMembers
      <4>3. t \notin tasks => m \in pending
        BY <1>4, <4>2 DEF ReplacementsHeeded
      <4>4. QED
        BY <2>1, <4>3
    <3>2. CASE Invalidate(w)
      BY <1>4, <3>2 DEF Invalidate, InvalidateCandidateHash
    <3>3. CASE UNCHANGED scheduler_vars
      BY <1>4, <3>3 DEF scheduler_vars, candidate_vars
    <3>4. QED
      BY <3>1, <3>2, <3>3 DEF Process, WriteSeen, WriteReplaced, WriteDecision,
         CollectExecutable, CollectContext, WriteTransition, FindNothing, WriteQueued, Enqueue,
         GiveUp
  <2>3. m \in Hashes
    BY <1>4, <2>2, TaskMembers DEF PipelineTypeOK
  <2>4. superseded \subseteq superseded'
    <3>1. CASE Register(w)
      BY <3>1, RegisteredMembers DEF Register
    <3>2. CASE Invalidate(w)
      BY <3>2 DEF Invalidate, InvalidateCandidateHash
    <3>3. CASE UNCHANGED scheduler_vars
      BY <3>3 DEF scheduler_vars, candidate_vars
    <3>4. QED
      BY <3>1, <3>2, <3>3 DEF Process, WriteSeen, WriteReplaced, WriteDecision,
         CollectExecutable, CollectContext, WriteTransition, FindNothing, WriteQueued, Enqueue,
         GiveUp
  <2>5. ~ReplacementDone(m)
    BY <1>4, <2>2, <2>4 DEF ReplacementsHeeded
  <2>6. PICK u \in Workers : Invalidating(u, m)
    BY <2>1, <2>5 DEF ReplacementDone, Invalidating
  <2>7. u = w
    BY <1>2, <2>1, <2>6 DEF Invalidating
  <2>8. Invalidate(w) /\ worker[w].replaced = m
    BY <2>1, <2>3, <2>6, <2>7, KeepsInvalidating
  <2>9. t \in superseded'
    BY <1>4, <2>2, <2>8 DEF Invalidate, InvalidateCandidateHash, Touches
  <2>10. QED
    BY <1>4, <2>9
<1>5. late' = {}
  BY WorkerEvents DEF ReplacementsHeeded
<1>6. QED
  BY <1>3, <1>4, <1>5 DEF ReplacementsHeeded

\* The scheduler accepts no result of a superseded task, so that no result is late.
LEMMA SimulateHeeds ==
    ASSUME PipelineTypeOK, StaleResultsRejected, NEW v \in SimWorkers, Simulate(v),
           ReplacementsHeeded
    PROVE  ReplacementsHeeded'
<1>1. UNCHANGED <<pending, retired>>
  BY PoolStays
<1>2. worker' = worker /\ tasks' = tasks /\ superseded \subseteq superseded'
  BY DEF Simulate, TakeTask, SettleResult, DropStaleResult, FailResult, Deliver,
         ApplySimulationResult, RecordStaleSimulationResult, scheduler_vars, candidate_vars
<1>3. \A m : ReplacementDone(m)' => ReplacementDone(m)
  BY <1>1, <1>2 DEF ReplacementDone
<1>4. late' = {}
  <2>1. CASE sim[v] # None /\ SettleResult(v)
    <3>1. PICK t \in sim[v].todo :
            /\ AcceptsResult(t)
            /\ late' \subseteq late \cup {u \in {t} : \E m \in MembersOf(u) : ReplacementDone(m)}
      BY <2>1 DEF SettleResult, ApplySimulationResult
    <3>2. t \in tasks \ superseded
      BY <2>1, <3>1 DEF PipelineTypeOK, TasksKnown, StaleResultsRejected
    <3>3. QED
      BY <3>1, <3>2 DEF ReplacementsHeeded
  <2>2. CASE TakeTask(v) \/ DropStaleResult(v) \/ FailResult(v) \/ Deliver(v)
    BY <2>2 DEF TakeTask, DropStaleResult, FailResult, Deliver, ReplacementsHeeded
  <2>3. QED
    BY <2>1, <2>2 DEF Simulate
<1>5. QED
  BY <1>1, <1>2, <1>3, <1>4 DEF ReplacementsHeeded

\* Where one worker runs and nothing is refused, no result of a simulation that took its
\* time makes the scheduler hand off a candidate with a replaced transaction, for any
\* pool, queue and number of simulation workers.  It rests on StaleNeverAccepted.
THEOREM ReplacedRejected == PipelineSpec => []ReplacedNotHandedOff
<1>1. PipelineInit => HeedInv
  <2> SUFFICES ASSUME PipelineInit PROVE HeedInv
    OBVIOUS
  <2>1. \A w \in Workers : worker[w] = Idle
    BY DEF PipelineInit
  <2>2. tasks = {} /\ late = {} /\ Idle.executable = {}
    BY DEF PipelineInit, Init, Idle
  <2>3. QED
    BY <2>1, <2>2 DEF HeedInv, OthersIdle, ReplacementsHeeded
<1>2. ASSUME PipelineTypeOK, StaleResultsRejected, HeedInv, [PipelineNext]_pipeline_vars
      PROVE  HeedInv'
  <2>1. CASE UNCHANGED pipeline_vars
    <3>1. UNCHANGED <<deployment, worker, pending, retired, tasks, superseded, late>>
      BY <2>1 DEF pipeline_vars, scheduler_vars, admission_vars, candidate_vars, sim_vars
    <3>2. QED
      BY <1>2, <3>1 DEF HeedInv, OthersIdle, ReplacementsHeeded, ReplacementDone, Reliable,
                        OneWorker, StorageMayFill, SchedulerMayRefuse
  <2>2. CASE PipelineNext
    <3>1. /\ deployment.workers \subseteq Workers /\ deployment.sim_workers \subseteq SimWorkers
          /\ deployment' = deployment
      BY <1>2, <2>2 DEF PipelineTypeOK, Deployment, PipelineNext
    <3>2. Reliable' = Reliable /\ OneWorker' = OneWorker
      BY <3>1 DEF Reliable, OneWorker, StorageMayFill, SchedulerMayRefuse
    <3>3. CASE \E w \in deployment.workers : Observe(w) \/ Process(w)
      <4>1. PICK w \in deployment.workers : Observe(w) \/ Process(w)
        BY <3>3
      <4>2. OthersIdle'
        BY <1>2, <3>1, <4>1, OthersStay DEF HeedInv, OthersIdle
      <4>3. ASSUME Reliable, OneWorker PROVE ReplacementsHeeded'
        <5>1. deployment.workers = {w}
          BY <4>1, <4>3 DEF OneWorker
        <5>2. \A u \in Workers : u # w => worker[u] = Idle
          BY <1>2, <5>1 DEF HeedInv, OthersIdle
        <5>3. ReplacementsHeeded
          BY <1>2, <4>3 DEF HeedInv
        <5>4. QED
          BY <1>2, <3>1, <4>1, <4>3, <5>2, <5>3, ObserveHeeds, ProcessHeeds
      <4>4. QED
        BY <3>2, <4>2, <4>3 DEF HeedInv
    <3>4. CASE \E v \in deployment.sim_workers : Simulate(v)
      <4>1. PICK v \in SimWorkers : Simulate(v)
        BY <3>1, <3>4
      <4>2. worker' = worker
        BY <4>1 DEF Simulate, TakeTask, SettleResult, DropStaleResult, FailResult, Deliver
      <4>3. OthersIdle'
        BY <1>2, <3>1, <4>2 DEF HeedInv, OthersIdle
      <4>4. ASSUME ReplacementsHeeded PROVE ReplacementsHeeded'
        BY <1>2, <4>1, <4>4, SimulateHeeds
      <4>5. QED
        BY <1>2, <3>2, <4>3, <4>4 DEF HeedInv
    <3>5. QED
      BY <2>2, <3>3, <3>4 DEF PipelineNext
  <2>3. QED
    BY <1>2, <2>1, <2>2
<1>3. HeedInv => ReplacedNotHandedOff
  BY DEF HeedInv, ReplacementsHeeded, ReplacedNotHandedOff
<1>4. QED
  BY <1>1, <1>2, <1>3, PipelineTypeCorrect, PipelineRunsScheduler, StaleNeverAccepted, PTL
     DEF PipelineSpec

----------------------------------------------------------------------------
(* What an event adds to the pending hashes of the replay *)

\* u has no pending hash that m does not have, except h.
AddsOnly(m, u, h) == \A x \in Hashes : IsPending(u, x) => x = h \/ IsPending(m, x)

\* A classification adds nothing.
LEMMA RecomputeAdds ==
    ASSUME NEW m \in MempoolState, NEW s \in Senders, NEW r,
           r = RecomputeSenderQueueStates(m, s)
    PROVE  /\ r \in MempoolState
           /\ \A x \in Hashes : m.txs[x] # None => r.txs[x] # None
           /\ AddsOnly(m, r, None)
<1> DEFINE occupied == PendingNonces(m, s)
           queue == m.sender_queues[s]
           place(h) == CHOOSE k \in Nonces : queue[k] = h
           stateIn(h) == IF place(h) \in occupied THEN QueueEntryState(occupied, place(h))
                         ELSE None
           entry(h) == IF m.txs[h] # None /\ \E n \in Nonces : queue[n] = h
                       THEN [m.txs[h] EXCEPT !.queue_state = stateIn(h)]
                       ELSE m.txs[h]
           slots == [n \in Nonces |-> IF n \in occupied THEN queue[n] ELSE None]
<1>1. /\ r.txs = [h \in Hashes |-> entry(h)]
      /\ r.sender_queues = [m.sender_queues EXCEPT ![s] = slots]
      /\ r = [txs |-> r.txs, sender_queues |-> r.sender_queues]
  BY DEF RecomputeSenderQueueStates
<1>2. occupied \subseteq Nonces /\ m.txs \in [Hashes -> TxEntry \cup {None}]
      /\ m.sender_queues \in [Senders -> [Nonces -> Hashes \cup {None}]]
  BY DEF PendingNonces, MempoolState
<1>3. ASSUME NEW h
      PROVE  stateIn(h) \in QueueState \cup {None}
  BY <1>2, QueueEntryStateType
<1> HIDE DEF stateIn
<1>4. ASSUME NEW h \in Hashes
      PROVE  /\ entry(h) \in TxEntry \cup {None}
             /\ m.txs[h] # None => entry(h) # None /\ entry(h).status = m.txs[h].status
             /\ m.txs[h] = None => entry(h) = None
  <2>1. m.txs[h] \in TxEntry \cup {None} /\ None \notin TxEntry
    BY <1>2, ReplayAssumption
  <2>2. m.txs[h] # None => /\ [m.txs[h] EXCEPT !.queue_state = stateIn(h)] \in TxEntry
                           /\ [m.txs[h] EXCEPT !.queue_state = stateIn(h)].status
                                = m.txs[h].status
    BY <1>3, <2>1 DEF TxEntry
  <2>3. QED
    BY <2>1, <2>2
<1> HIDE DEF entry
<1>5. slots \in [Nonces -> Hashes \cup {None}]
  BY <1>2
<1> HIDE DEF slots
<1>6. r.txs \in [Hashes -> TxEntry \cup {None}]
  BY <1>1, <1>4
<1>7. r.sender_queues \in [Senders -> [Nonces -> Hashes \cup {None}]]
  BY <1>1, <1>2, <1>5
<1>8. \A x \in Hashes : r.txs[x] = entry(x)
  BY <1>1
<1>9. r \in MempoolState
  BY <1>1, <1>6, <1>7 DEF MempoolState
<1>10. QED
  BY <1>4, <1>8, <1>9 DEF AddsOnly, IsPending

\* A hash that is placed in its queue.
LEMMA PlacedAdds ==
    ASSUME NEW m \in MempoolState, NEW h \in Hashes, NEW p, p = Placed(m, h)
    PROVE  p \in MempoolState /\ p.txs[h] # None /\ AddsOnly(m, p, h)
<1> DEFINE entry == [EntryOf(m, h) EXCEPT !.placed = TRUE, !.status = "pending",
                                          !.block_hash = None]
<1>1. PICK e : e = EnsureSenderQueueEntry(m, h)
  OBVIOUS
<1>2. /\ e.txs = [m.txs EXCEPT ![h] = entry]
      /\ e.sender_queues = [m.sender_queues EXCEPT ![Tx[h].sender][Tx[h].nonce] = h]
      /\ e = [txs |-> e.txs, sender_queues |-> e.sender_queues]
  BY <1>1 DEF EnsureSenderQueueEntry
<1>3. /\ m.txs \in [Hashes -> TxEntry \cup {None}]
      /\ m.sender_queues \in [Senders -> [Nonces -> Hashes \cup {None}]]
      /\ Tx[h].sender \in Senders /\ Tx[h].nonce \in Nonces /\ None \notin TxEntry
  BY TransactionAssumption, ReplayAssumption DEF MempoolState, TxRecord
<1>4. entry \in TxEntry
  <2>1. EntryOf(m, h) \in TxEntry
    BY <1>3 DEF EntryOf, UnplacedEntry, TxEntry
  <2>2. QED
    BY <2>1 DEF TxEntry
<1> HIDE DEF entry
<1>5. /\ e.txs \in [Hashes -> TxEntry \cup {None}] /\ e.txs[h] = entry
      /\ \A x \in Hashes : x # h => e.txs[x] = m.txs[x]
  BY <1>2, <1>3, <1>4
<1>6. e.sender_queues \in [Senders -> [Nonces -> Hashes \cup {None}]]
  BY <1>2, <1>3
<1>7. e \in MempoolState
  BY <1>2, <1>5, <1>6 DEF MempoolState
<1>8. p = RecomputeSenderQueueStates(e, Tx[h].sender)
  BY <1>1 DEF Placed
<1>9. /\ p \in MempoolState /\ AddsOnly(e, p, None)
      /\ e.txs[h] # None => p.txs[h] # None
  BY <1>3, <1>7, <1>8, RecomputeAdds
<1>10. AddsOnly(m, e, h)
  BY <1>5 DEF AddsOnly, IsPending
<1>11. None \notin Hashes /\ e.txs[h] # None
  BY <1>3, <1>4, <1>5, TransactionAssumption
<1>12. QED
  BY <1>9, <1>10, <1>11 DEF AddsOnly

\* A hash that is not pending any more.
LEMMA SetStatusAdds ==
    ASSUME NEW m \in MempoolState, NEW h \in Hashes, NEW status \in {"replaced", "dropped"},
           NEW u, u = SetStatus(m, h, status, None)
    PROVE  u \in MempoolState /\ u.txs[h] # None /\ AddsOnly(m, u, None)
<1> DEFINE entry == [EntryOf(m, h) EXCEPT !.status = status, !.block_hash = None,
                                          !.queue_state = None]
<1>1. /\ u.txs = [m.txs EXCEPT ![h] = entry] /\ u.sender_queues = m.sender_queues
      /\ u = [txs |-> u.txs, sender_queues |-> u.sender_queues]
  BY DEF SetStatus, MempoolState
<1>2. /\ m.txs \in [Hashes -> TxEntry \cup {None}]
      /\ m.sender_queues \in [Senders -> [Nonces -> Hashes \cup {None}]]
      /\ None \notin TxEntry
  BY ReplayAssumption DEF MempoolState
<1>3. EntryOf(m, h) \in TxEntry
  BY <1>2 DEF EntryOf, UnplacedEntry, TxEntry
<1>4. entry \in TxEntry /\ entry.status # "pending"
  BY <1>3 DEF TxEntry
<1> HIDE DEF entry
<1>5. /\ u.txs \in [Hashes -> TxEntry \cup {None}] /\ u.txs[h] = entry
      /\ \A x \in Hashes : x # h => u.txs[x] = m.txs[x]
  BY <1>1, <1>2, <1>4
<1>6. u \in MempoolState
  BY <1>1, <1>2, <1>5 DEF MempoolState
<1>7. QED
  BY <1>2, <1>4, <1>5, <1>6 DEF AddsOnly, IsPending

\* TxDropped, and TxReplaced of a hash with an entry.
LEMMA FinishedAdds ==
    ASSUME NEW m \in MempoolState, NEW h \in Hashes, NEW status \in {"replaced", "dropped"},
           NEW u, u = Unqueued(SetStatus(m, h, status, None), h)
    PROVE  u \in MempoolState /\ AddsOnly(m, u, None)
<1>1. PICK e : e = SetStatus(m, h, status, None)
  OBVIOUS
<1>2. e \in MempoolState /\ AddsOnly(m, e, None)
  BY <1>1, SetStatusAdds
<1>3. Tx[h].sender \in Senders /\ Tx[h].nonce \in Nonces
  BY TransactionAssumption DEF TxRecord
<1>4. PICK q : q = RemoveSenderQueueEntry(e, h)
  OBVIOUS
<1>5. q \in MempoolState /\ q.txs = e.txs
  BY <1>2, <1>3, <1>4 DEF RemoveSenderQueueEntry, MempoolState
<1>6. AddsOnly(e, q, None)
  BY <1>5 DEF AddsOnly, IsPending
<1>7. CASE u = RecomputeSenderQueueStates(q, Tx[h].sender)
  <2>1. u \in MempoolState /\ AddsOnly(q, u, None)
    BY <1>3, <1>5, <1>7, RecomputeAdds
  <2>2. QED
    BY <1>2, <1>6, <2>1, TransactionAssumption DEF AddsOnly
<1>8. CASE u = e
  BY <1>2, <1>8
<1>9. QED
  BY <1>1, <1>4, <1>7, <1>8 DEF Unqueued

\* The events of a transaction add nothing but the transaction they name.
LEMMA EventsAdd ==
    ASSUME NEW m \in MempoolState, NEW h \in Hashes, NEW u
    PROVE  /\ u = ApplyDecoded(m, h) => u \in MempoolState /\ AddsOnly(m, u, h)
           /\ u = ApplyDropped(m, h) => u \in MempoolState /\ AddsOnly(m, u, None)
           /\ u = ApplyReplaced(m, h) => u \in MempoolState /\ AddsOnly(m, u, None)
           /\ u = ApplyReady(m, h) => u \in MempoolState /\ AddsOnly(m, u, h)
           /\ \A expected \in Nat \cup {None} :
                u = ApplyBlocked(m, h, expected) => u \in MempoolState /\ AddsOnly(m, u, h)
<1>1. ASSUME u = ApplyDecoded(m, h) PROVE u \in MempoolState /\ AddsOnly(m, u, h)
  <2> DEFINE old == SlotOf(m.sender_queues, h)
  <2>1. PICK d : d = IF old # None /\ old # h /\ m.txs[old] # None
                     THEN SetStatus(m, old, "replaced", None) ELSE m
    OBVIOUS
  <2>2. old \in Hashes \cup {None}
    BY TransactionAssumption DEF SlotOf, MempoolState, TxRecord
  <2>3. u = Placed(d, h)
    BY <1>1, <2>1 DEF ApplyDecoded
  <2> HIDE DEF old
  <2>4. d \in MempoolState /\ AddsOnly(m, d, None)
    <3>1. CASE d = m
      BY <3>1 DEF AddsOnly
    <3>2. CASE old \in Hashes /\ d = SetStatus(m, old, "replaced", None)
      BY <3>2, SetStatusAdds
    <3>3. QED
      BY <2>1, <2>2, <3>1, <3>2
  <2>5. u \in MempoolState /\ AddsOnly(d, u, h)
    BY <2>3, <2>4, PlacedAdds
  <2>6. QED
    BY <2>4, <2>5, TransactionAssumption DEF AddsOnly
<1>2. ASSUME u = ApplyDropped(m, h) PROVE u \in MempoolState /\ AddsOnly(m, u, None)
  BY <1>2, FinishedAdds DEF ApplyDropped
<1>3. ASSUME u = ApplyReplaced(m, h) PROVE u \in MempoolState /\ AddsOnly(m, u, None)
  <2>1. CASE u = m
    BY <2>1 DEF AddsOnly
  <2>2. CASE u = Unqueued(SetStatus(m, h, "replaced", None), h)
    BY <2>2, FinishedAdds
  <2>3. QED
    BY <1>3, <2>1, <2>2 DEF ApplyReplaced
<1>4. PICK p : p = Placed(m, h)
  OBVIOUS
<1>5. p \in MempoolState /\ p.txs[h] # None /\ AddsOnly(m, p, h)
  BY <1>4, PlacedAdds
<1>6. ASSUME NEW state \in QueueState, u = [p EXCEPT !.txs[h].queue_state = state]
      PROVE  u \in MempoolState /\ AddsOnly(m, u, h)
  <2>1. p.txs \in [Hashes -> TxEntry \cup {None}] /\ p.txs[h] \in TxEntry
    BY <1>5 DEF MempoolState
  <2>2. PICK entry : entry = [p.txs[h] EXCEPT !.queue_state = state]
    OBVIOUS
  <2>3. entry \in TxEntry
    BY <2>1, <2>2 DEF TxEntry
  <2>4. u = [p EXCEPT !.txs = [p.txs EXCEPT ![h] = entry]]
    BY <1>5, <1>6, <2>1, <2>2 DEF MempoolState
  <2>5. u.txs = [p.txs EXCEPT ![h] = entry] /\ u \in MempoolState
    BY <1>5, <2>1, <2>3, <2>4 DEF MempoolState
  <2>6. \A x \in Hashes : x # h => u.txs[x] = p.txs[x]
    BY <2>1, <2>5
  <2>7. AddsOnly(p, u, h)
    BY <2>6 DEF AddsOnly, IsPending
  <2>8. QED
    BY <1>5, <2>5, <2>7 DEF AddsOnly
<1>7. ASSUME u = ApplyReady(m, h) PROVE u \in MempoolState /\ AddsOnly(m, u, h)
  <2>1. Ready \in QueueState
    BY DEF Ready, QueueState
  <2>2. QED
    BY <1>4, <1>6, <1>7, <2>1 DEF ApplyReady
<1>8. ASSUME NEW expected \in Nat \cup {None}, u = ApplyBlocked(m, h, expected)
      PROVE  u \in MempoolState /\ AddsOnly(m, u, h)
  <2>1. Blocked(expected) \in QueueState
    BY DEF Blocked, QueueState
  <2>2. QED
    BY <1>4, <1>5, <1>6, <1>8, <2>1 DEF ApplyBlocked
<1>9. QED
  BY <1>1, <1>2, <1>3, <1>7, <1>8

----------------------------------------------------------------------------
(* The replay and what the scheduler admitted *)

EverAdmitted == pending \cup retired

\* What the worker will write about transactions is true of them.
LocalsAdmitted(w) ==
    /\ worker[w].decision = "admitted" => worker[w].hash \in EverAdmitted
    /\ \A t \in worker[w].transitions : t.hash \in EverAdmitted

\* A transaction that was admitted has its TxSeen, or its worker is about to write it.
SeenOrAbout ==
    \A h \in EverAdmitted \ introduced :
        \E w \in Workers : At(w, "seen") /\ worker[w].hash = h

AdmittedInv ==
    /\ replica \in MempoolState
    /\ PendingHashes(replica) \subseteq EverAdmitted
    /\ \A w \in Workers : LocalsAdmitted(w)
    /\ Reliable => SeenOrAbout

\* The queue transitions of an admission are those of pending transactions.
LEMMA TransitionsPending ==
    ASSUME NEW s \in Senders, NEW t \in AdmissionTransitions(s)
    PROVE  t.hash \in pending'
<1> DEFINE occupied == Occupied(pending', sender_queues'[s])
           next == SenderQueuePositions(pending', sender_queues'[s])
<1>1. DOMAIN next = {sender_queues'[s][n] : n \in occupied}
  BY DEF SenderQueuePositions
<1>2. \A n \in occupied : sender_queues'[s][n] \in pending'
  BY DEF Occupied
<1>3. t.hash \in DOMAIN next
  BY DEF AdmissionTransitions, QueueTransitions
<1>4. QED
  BY <1>1, <1>2, <1>3

\* An admission adds its transaction, if any, and forgets none.
LEMMA AdmitAdds ==
    ASSUME TypeOK, NEW h \in Hashes, Admit(h)
    PROVE  EverAdmitted \subseteq EverAdmitted' /\ EverAdmitted' \subseteq EverAdmitted \cup {h}
<1>1. None \notin pending
  BY TransactionAssumption DEF TypeOK
<1>2. CASE AdmitReplacement(h)
  BY <1>2 DEF AdmitReplacement, Place, EverAdmitted
<1>3. CASE AdmitNew(h)
  BY <1>1, <1>3 DEF AdmitNew, Place, EverAdmitted
<1>4. CASE AdmitDuplicate(h) \/ AdmitUnderpriced(h) \/ AdmitOverLimit(h)
  BY <1>4 DEF AdmitDuplicate, AdmitUnderpriced, AdmitOverLimit, admission_vars, EverAdmitted
<1>5. QED
  BY <1>2, <1>3, <1>4 DEF Admit

\* The worker that takes a transaction up is about to write its TxSeen.
LEMMA ObserveAdmitted ==
    ASSUME PipelineTypeOK, AdmittedInv, NEW w \in Workers, Observe(w), Reliable' = Reliable
    PROVE  AdmittedInv'
<1>1. PICK h \in Hashes :
        ObserveFetched(w, h) \/ ObserveRefused(w, h) \/ ObserveUnfetched(w, h)
  BY DEF Observe, PipelineTypeOK, Deployment
<1>2. /\ worker \in [Workers -> WorkerState] /\ worker[w] = Idle /\ TypeOK
      /\ Idle.pc = "idle" /\ Idle.transitions = {} /\ Idle \in WorkerState
  BY <1>1, IdleType DEF PipelineTypeOK, LocalsOK, ObserveFetched, ObserveRefused,
                        ObserveUnfetched, At, Idle
<1>3. replica' = replica /\ introduced' = introduced
  BY <1>1 DEF ObserveFetched, ObserveRefused, ObserveUnfetched, log_vars
<1>4. \A u \in Workers : u # w => worker'[u] = worker[u]
  BY OthersStay
<1>5. /\ worker'[w].pc = "seen" /\ worker'[w].hash = h
      /\ EverAdmitted \subseteq EverAdmitted' /\ EverAdmitted' \subseteq EverAdmitted \cup {h}
      /\ LocalsAdmitted(w)'
  <2>1. CASE ObserveFetched(w, h)
    <3>1. PICK locals : locals = [Idle EXCEPT
            !.pc = "seen", !.hash = h, !.decision = AdmissionDecision(h),
            !.replaced = IF h \notin pending /\ h \in pending' /\ Incumbent(h) \in pending
                         THEN Incumbent(h) ELSE None,
            !.transitions = AdmissionTransitions(Tx[h].sender)]
      OBVIOUS
    <3>2. worker' = [worker EXCEPT ![w] = locals]
      BY <1>2, <2>1, <3>1 DEF ObserveFetched
    <3>3. /\ worker'[w].pc = "seen" /\ worker'[w].hash = h
          /\ worker'[w].decision = AdmissionDecision(h)
          /\ worker'[w].transitions = AdmissionTransitions(Tx[h].sender)
      BY <1>2, <3>1, <3>2 DEF Idle
    <3>4. AdmissionDecision(h) = "admitted" => h \in pending'
      BY DEF AdmissionDecision
    <3>5. Tx[h].sender \in Senders
      BY TransactionAssumption DEF TxRecord
    <3>6. \A t \in worker'[w].transitions : t.hash \in pending'
      BY <3>3, <3>5, TransitionsPending
    <3>7. LocalsAdmitted(w)'
      BY <3>3, <3>4, <3>6 DEF LocalsAdmitted, EverAdmitted
    <3>8. QED
      BY <1>2, <2>1, <3>3, <3>7, AdmitAdds DEF ObserveFetched
  <2>2. CASE ObserveRefused(w, h) \/ ObserveUnfetched(w, h)
    <3>1. PICK decision \in {"dropped", "unfetched"} :
            worker' = [worker EXCEPT ![w].pc = "seen", ![w].hash = h, ![w].decision = decision]
      BY <2>2 DEF ObserveRefused, ObserveUnfetched
    <3>2. /\ worker'[w].pc = "seen" /\ worker'[w].hash = h /\ worker'[w].decision = decision
          /\ worker'[w].transitions = {}
      BY <1>2, <3>1 DEF WorkerState
    <3>3. UNCHANGED <<pending, retired>>
      BY <2>2 DEF ObserveRefused, ObserveUnfetched, scheduler_vars, admission_vars
    <3>4. QED
      BY <3>2, <3>3 DEF LocalsAdmitted, EverAdmitted
  <2>3. QED
    BY <1>1, <2>1, <2>2
<1>6. ASSUME NEW u \in Workers PROVE LocalsAdmitted(u)'
  BY <1>4, <1>5 DEF AdmittedInv, LocalsAdmitted
<1>7. ASSUME Reliable PROVE SeenOrAbout'
  <2> SUFFICES ASSUME NEW x \in EverAdmitted' \ introduced'
               PROVE  \E u \in Workers : worker'[u].pc = "seen" /\ worker'[u].hash = x
    BY DEF SeenOrAbout, At
  <2>1. CASE x = h
    BY <1>5, <2>1
  <2>2. CASE x # h
    <3>1. PICK u \in Workers : worker[u].pc = "seen" /\ worker[u].hash = x
      BY <1>3, <1>5, <1>7, <2>2 DEF AdmittedInv, SeenOrAbout, At
    <3>2. u # w
      BY <1>2, <3>1
    <3>3. QED
      BY <1>4, <3>1, <3>2
  <2>3. QED
    BY <2>1, <2>2
<1>8. QED
  BY <1>3, <1>5, <1>6, <1>7 DEF AdmittedInv

\* What becomes of the locals as a worker goes on.
LEMMA ProcessLocals ==
    ASSUME PipelineTypeOK, NEW w \in Workers, Process(w)
    PROVE  \/ worker'[w] = Idle
           \/ /\ worker'[w].hash = worker[w].hash /\ worker'[w].decision = worker[w].decision
              /\ worker'[w].transitions \subseteq worker[w].transitions
<1>1. worker \in [Workers -> WorkerState] /\ worker[w] \in WorkerState
  BY DEF PipelineTypeOK
<1> DEFINE Goal == \/ worker'[w] = Idle
                   \/ /\ worker'[w].hash = worker[w].hash
                      /\ worker'[w].decision = worker[w].decision
                      /\ worker'[w].transitions \subseteq worker[w].transitions
<1>2. ASSUME Return(w) PROVE Goal
  BY <1>1, <1>2, ReturnFacts
<1>3. ASSUME NEW pc \in Pcs, Goto(w, pc) PROVE Goal
  <2>1. worker'[w] = [worker[w] EXCEPT !.pc = pc]
    BY <1>1, <1>3, GotoFacts
  <2>2. QED
    BY <1>1, <2>1 DEF WorkerState
<1>4. CASE WriteSeen(w) \/ WriteReplaced(w) \/ Invalidate(w) \/ WriteDecision(w)
           \/ FindNothing(w) \/ GiveUp(w) \/ WriteQueued(w)
  BY <1>2, <1>3, <1>4 DEF WriteSeen, WriteReplaced, Invalidate, WriteDecision, FindNothing,
                          GiveUp, WriteQueued, Pcs
<1>5. CASE CollectExecutable(w) \/ CollectContext(w) \/ Register(w)
  BY <1>1, <1>5 DEF CollectExecutable, CollectContext, Register, WorkerState
<1>6. CASE WriteTransition(w)
  BY <1>1, <1>6 DEF WriteTransition, WorkerState
<1>7. CASE Enqueue(w)
  <2>1. ASSUME NEW g, TaskLeaves(w, g) PROVE Goal
    <3>1. worker'[w] = IF worker[w].groups = {g} THEN Idle
                       ELSE [worker[w] EXCEPT !.groups = worker[w].groups \ {g}]
      BY <1>1, <2>1 DEF TaskLeaves
    <3>2. QED
      BY <1>1, <3>1 DEF WorkerState
  <2>2. QED
    BY <1>2, <1>7, <2>1 DEF Enqueue
<1>8. QED
  BY <1>4, <1>5, <1>6, <1>7 DEF Process

\* What a worker writes adds no transaction that was never admitted.
LEMMA ReplicaStep ==
    ASSUME PipelineTypeOK, AdmittedInv, NEW w \in Workers, Process(w)
    PROVE  /\ replica' \in MempoolState
           /\ PendingHashes(replica') \subseteq EverAdmitted
<1>1. /\ replica \in MempoolState /\ PendingHashes(replica) \subseteq EverAdmitted
      /\ LocalsAdmitted(w) /\ worker[w] \in WorkerState /\ None \notin Hashes
  BY TransactionAssumption DEF AdmittedInv, PipelineTypeOK
<1>2. ASSUME NEW h, h \in EverAdmitted \cup {None}, replica' \in MempoolState,
             AddsOnly(replica, replica', h)
      PROVE  PendingHashes(replica') \subseteq EverAdmitted
  BY <1>1, <1>2 DEF AddsOnly, PendingHashes
<1>3. CASE UNCHANGED replica
  BY <1>1, <1>3
<1>4. CASE WriteReplaced(w)
  <2>1. worker[w].replaced \in Hashes /\ replica' = ApplyReplaced(replica, worker[w].replaced)
    BY <1>1, <1>4 DEF WriteReplaced, At, PipelineTypeOK, LocalsOK, WorkerState
  <2>2. replica' \in MempoolState /\ AddsOnly(replica, replica', None)
    BY <1>1, <2>1, EventsAdd
  <2>3. QED
    BY <1>2, <2>2
<1>5. CASE WriteDecision(w)
  <2>1. worker[w].hash \in Hashes
    BY <1>1, <1>5 DEF WriteDecision, At, PipelineTypeOK, LocalsOK, WorkerState
  <2>2. CASE worker[w].decision = "admitted"
    <3>1. replica' = ApplyDecoded(replica, worker[w].hash) /\ worker[w].hash \in EverAdmitted
      BY <1>1, <1>5, <2>2 DEF WriteDecision, LocalsAdmitted
    <3>2. replica' \in MempoolState /\ AddsOnly(replica, replica', worker[w].hash)
      BY <1>1, <2>1, <3>1, EventsAdd
    <3>3. QED
      BY <1>2, <3>1, <3>2
  <2>3. CASE worker[w].decision # "admitted"
    <3>1. replica' = ApplyDropped(replica, worker[w].hash)
      BY <1>5, <2>3 DEF WriteDecision
    <3>2. replica' \in MempoolState /\ AddsOnly(replica, replica', None)
      BY <1>1, <2>1, <3>1, EventsAdd
    <3>3. QED
      BY <1>2, <3>2
  <2>4. QED
    BY <2>2, <2>3
<1>6. CASE WriteTransition(w)
  <2>1. PICK t \in worker[w].transitions :
          replica' = IF t.state = Ready THEN ApplyReady(replica, t.hash)
                     ELSE ApplyBlocked(replica, t.hash, t.state.expected_nonce)
    BY <1>6 DEF WriteTransition
  <2>2. /\ t.hash \in Hashes /\ t.state.expected_nonce \in Nat \cup {None}
        /\ t.hash \in EverAdmitted
    BY <1>1, <2>1 DEF WorkerState, Transition, QueueState, LocalsAdmitted
  <2>3. replica' \in MempoolState /\ AddsOnly(replica, replica', t.hash)
    BY <1>1, <2>1, <2>2, EventsAdd
  <2>4. QED
    BY <1>2, <2>2, <2>3
<1>7. QED
  BY <1>3, <1>4, <1>5, <1>6 DEF Process, WriteSeen, Invalidate, CollectExecutable,
     CollectContext, Register, FindNothing, WriteQueued, Enqueue, GiveUp, log_vars

\* Nothing refused, a worker at its TxSeen writes it.
LEMMA ProcessAdmitted ==
    ASSUME PipelineTypeOK, AdmittedInv, NEW w \in Workers, Process(w), Reliable' = Reliable
    PROVE  AdmittedInv'
<1>1. UNCHANGED <<pending, retired>>
  BY PoolStays
<1>2. EverAdmitted' = EverAdmitted
  BY <1>1 DEF EverAdmitted
<1>3. \A u \in Workers : u # w => worker'[u] = worker[u]
  BY OthersStay
<1>4. replica' \in MempoolState /\ PendingHashes(replica)' \subseteq EverAdmitted
  BY ReplicaStep DEF PendingHashes, IsPending
<1>5. LocalsAdmitted(w)'
  <2>1. LocalsAdmitted(w)
    BY DEF AdmittedInv
  <2>2. CASE worker'[w] = Idle
    <3>1. Idle.decision = None /\ Idle.transitions = {}
      BY DEF Idle
    <3>2. worker'[w].decision = "admitted" => worker'[w].hash \in EverAdmitted
      BY <2>2, <3>1, PipelineAssumption
    <3>3. QED
      BY <1>2, <2>2, <3>1, <3>2 DEF LocalsAdmitted
  <2>3. CASE /\ worker'[w].hash = worker[w].hash /\ worker'[w].decision = worker[w].decision
             /\ worker'[w].transitions \subseteq worker[w].transitions
    BY <1>2, <2>1, <2>3 DEF LocalsAdmitted
  <2>4. QED
    BY <2>2, <2>3, ProcessLocals
<1>6. \A u \in Workers : LocalsAdmitted(u)'
  BY <1>2, <1>3, <1>5 DEF AdmittedInv, LocalsAdmitted
<1>7. ASSUME Reliable PROVE SeenOrAbout'
  <2> SUFFICES ASSUME NEW x \in EverAdmitted \ introduced'
               PROVE  \E u \in Workers : worker'[u].pc = "seen" /\ worker'[u].hash = x
    BY <1>2 DEF SeenOrAbout, At
  <2>1. introduced \subseteq introduced'
    BY DEF Process, WriteSeen, WriteReplaced, Invalidate, WriteDecision, CollectExecutable,
           CollectContext, WriteTransition, Register, FindNothing, WriteQueued, Enqueue, GiveUp,
           log_vars
  <2>2. PICK u \in Workers : worker[u].pc = "seen" /\ worker[u].hash = x
    BY <1>7, <2>1 DEF AdmittedInv, SeenOrAbout, At
  <2>3. CASE u = w
    <3>1. WriteSeen(w)
      BY <1>7, <2>2, <2>3 DEF Process, WriteReplaced, Invalidate, WriteDecision,
         CollectExecutable, CollectContext, WriteTransition, Register, FindNothing, WriteQueued,
         Enqueue, GiveUp, At, Reliable
    <3>2. QED
      BY <2>2, <2>3, <3>1 DEF WriteSeen
  <2>4. CASE u # w
    BY <1>3, <2>2, <2>4
  <2>5. QED
    BY <2>3, <2>4
<1>8. QED
  BY <1>2, <1>4, <1>6, <1>7 DEF AdmittedInv

----------------------------------------------------------------------------
(* The replay and the candidates *)

\* The tasks whose CandidateQueued is in the log.
QueuedTasks == {t \in tasks : lifecycle[t.candidate_id].queued}

\* A task is queued only after that, and so is everything that follows.
QueuedFirst ==
    /\ \A w \in Workers : At(w, "enqueue") => \A g \in worker[w].groups : g \subseteq QueuedTasks
    /\ sim_queue \in Seq(SUBSET QueuedTasks)
    /\ \A v \in SimWorkers : sim[v] # None => /\ sim[v].todo \subseteq QueuedTasks
                                              /\ sim[v].accepted \subseteq QueuedTasks

\* What the replay knows of a candidate has a CandidateQueued before it.
Founded(id) ==
    /\ lifecycle[id].tx_hash # None => lifecycle[id].queued
    /\ lifecycle[id].simulation_block_number # None => lifecycle[id].queued
    /\ lifecycle[id].simulation_status # None => lifecycle[id].queued
    /\ lifecycle[id].assembly_status # None => lifecycle[id].queued /\ id \in IdsOf(offered)

CandidatesInv == QueuedFirst /\ \A id \in CandidateIds : Founded(id)

\* Tasks have a candidate.
LEMMA QueuedTaskFacts ==
    ASSUME TypeOK, NEW specs \in SUBSET QueuedTasks
    PROVE  /\ specs \in SUBSET SimulationTaskSpec
           /\ \A id : Named(specs, id) => lifecycle[id].queued
           /\ \A t \in specs : t.candidate_id \in CandidateIds /\ t.tx_hash \in Hashes
BY DEF QueuedTasks, Named, TypeOK, SimulationTaskSpec

\* A worker's step: the log knows a candidate before its task is queued.
LEMMA WorkerCandidates ==
    ASSUME PipelineTypeOK, CandidatesInv, tasks \subseteq tasks', NEW w \in Workers,
           Observe(w) \/ Process(w)
    PROVE  CandidatesInv'
<1>1. /\ worker \in [Workers -> WorkerState] /\ worker[w] \in WorkerState /\ TypeOK
      /\ lifecycle \in [CandidateIds -> CandidateLifecycleEntry]
      /\ tasks \subseteq SimulationTaskSpec
      /\ UNCHANGED <<sim, offered>>
  BY WorkerEvents DEF PipelineTypeOK, TypeOK
<1>2. \A u \in Workers : u # w => worker'[u] = worker[u]
  BY OthersStay
<1>3. \A t \in tasks : t.candidate_id \in CandidateIds
  BY <1>1 DEF SimulationTaskSpec
<1>4. ASSUME \A id \in CandidateIds : lifecycle[id].queued => lifecycle'[id].queued,
             \A id \in CandidateIds : Founded(id)',
             worker'[w].pc = "enqueue" => \A g \in worker'[w].groups : g \subseteq QueuedTasks',
             sim_queue' \in Seq(SUBSET QueuedTasks)
      PROVE  CandidatesInv'
  <2>1. QueuedTasks \subseteq QueuedTasks'
    BY <1>3, <1>4 DEF QueuedTasks
  <2>2. sim_queue' \in Seq(SUBSET QueuedTasks')
    BY <1>4, <2>1, SeqGrows
  <2>3. ASSUME NEW u \in Workers, worker'[u].pc = "enqueue", NEW g \in worker'[u].groups
        PROVE  g \subseteq QueuedTasks'
    <3>1. CASE u = w
      BY <1>4, <2>3, <3>1
    <3>2. CASE u # w
      BY <1>2, <2>1, <2>3, <3>2 DEF CandidatesInv, QueuedFirst, At
    <3>3. QED
      BY <3>1, <3>2
  <2>4. \A v \in SimWorkers : sim'[v] # None => /\ sim'[v].todo \subseteq QueuedTasks'
                                                /\ sim'[v].accepted \subseteq QueuedTasks'
    BY <1>1, <2>1 DEF CandidatesInv, QueuedFirst
  <2>5. QueuedFirst'
    BY <2>2, <2>3, <2>4 DEF QueuedFirst, At
  <2>6. QED
    BY <1>4, <2>5 DEF CandidatesInv
<1>5. CASE WriteQueued(w)
  <2>1. PICK written \in SUBSET UNION worker[w].groups :
          /\ ApplyCandidateQueued(written)
          /\ \/ written = UNION worker[w].groups /\ Goto(w, "enqueue")
             \/ Return(w)
    BY <1>5 DEF WriteQueued
  <2>2. written \in SUBSET SimulationTaskSpec
    BY <1>1 DEF WorkerState
  <2>3. \A id \in CandidateIds : lifecycle[id].queued => lifecycle'[id].queued
    BY <1>1, <2>1, <2>2, QueuedEntry
  <2>4. ASSUME NEW id \in CandidateIds PROVE Founded(id)'
    <3>1. Founded(id)
      BY DEF CandidatesInv
    <3>2. /\ lifecycle[id].queued => lifecycle'[id].queued
          /\ Named(written, id) => lifecycle'[id].queued
          /\ lifecycle'[id].simulation_block_number = lifecycle[id].simulation_block_number
          /\ lifecycle'[id].simulation_status = lifecycle[id].simulation_status
          /\ lifecycle'[id].assembly_status = lifecycle[id].assembly_status
          /\ ~Named(written, id) => lifecycle'[id].tx_hash = lifecycle[id].tx_hash
      BY <1>1, <2>1, <2>2, QueuedEntry
    <3>3. QED
      BY <1>1, <3>1, <3>2 DEF Founded
  <2>5. ASSUME worker'[w].pc = "enqueue", NEW g \in worker'[w].groups
        PROVE  g \subseteq QueuedTasks'
    <3>1. CASE Return(w)
      <4>1. worker'[w] = Idle /\ Idle.groups = {}
        BY <1>1, <3>1, ReturnFacts DEF Idle
      <4>2. QED
        BY <2>5, <4>1
    <3>2. CASE written = UNION worker[w].groups /\ Goto(w, "enqueue")
      <4>1. worker'[w] = [worker[w] EXCEPT !.pc = "enqueue"]
        BY <1>1, <3>2, GotoFacts DEF Pcs
      <4>2. g \in worker[w].groups
        BY <1>1, <2>5, <4>1 DEF WorkerState
      <4>3. g \subseteq written /\ g \subseteq tasks
        BY <3>2, <4>2 DEF PipelineTypeOK, TasksKnown
      <4>4. \A t \in g : lifecycle'[t.candidate_id].queued
        <5>1. SUFFICES ASSUME NEW t \in g PROVE lifecycle'[t.candidate_id].queued
          OBVIOUS
        <5>2. t.candidate_id \in CandidateIds /\ Named(written, t.candidate_id)
          BY <1>3, <4>3 DEF Named
        <5>3. QED
          BY <1>1, <2>1, <2>2, <5>2, QueuedEntry
      <4>5. QED
        BY <4>3, <4>4 DEF QueuedTasks
    <3>3. QED
      BY <2>1, <3>1, <3>2
  <2>6. sim_queue' = sim_queue
    BY <1>5 DEF WriteQueued, sim_vars
  <2>7. sim_queue' \in Seq(SUBSET QueuedTasks)
    BY <2>6 DEF CandidatesInv, QueuedFirst
  <2>8. QED
    BY <1>4, <2>3, <2>4, <2>5, <2>7
<1>6. CASE Enqueue(w)
  <2>1. PICK g \in worker[w].groups :
          \/ /\ sim_queue' = Append(sim_queue, g)
             /\ \E written \in SUBSET g :
                  ApplySimDispatched(written) /\ (TaskLeaves(w, g) \/ Return(w))
          \/ TaskLeaves(w, g) /\ UNCHANGED <<sim_queue, lifecycle>>
    BY <1>6 DEF Enqueue
  <2>2. worker[w].pc = "enqueue" /\ \A x \in worker[w].groups : x \subseteq QueuedTasks
    BY <1>6 DEF Enqueue, At, CandidatesInv, QueuedFirst
  <2>3. sim_queue \in Seq(SUBSET QueuedTasks)
    BY DEF CandidatesInv, QueuedFirst
  <2>4. sim_queue' \in Seq(SUBSET QueuedTasks)
    <3>1. g \in SUBSET QueuedTasks
      BY <2>2
    <3>2. QED
      BY <2>1, <2>3, <3>1
  <2>5. ASSUME NEW id \in CandidateIds
        PROVE  (lifecycle[id].queued => lifecycle'[id].queued) /\ Founded(id)'
    <3>1. Founded(id)
      BY DEF CandidatesInv
    <3>2. CASE UNCHANGED lifecycle
      BY <1>1, <3>1, <3>2 DEF Founded
    <3>3. ASSUME NEW written \in SUBSET g, ApplySimDispatched(written)
          PROVE  (lifecycle[id].queued => lifecycle'[id].queued) /\ Founded(id)'
      <4>1. /\ written \in SUBSET SimulationTaskSpec
            /\ Named(written, id) => lifecycle[id].queued
        BY <1>1, <2>2, <3>3, QueuedTaskFacts
      <4>2. /\ lifecycle'[id].queued = lifecycle[id].queued
            /\ lifecycle'[id].simulation_status = lifecycle[id].simulation_status
            /\ lifecycle'[id].assembly_status = lifecycle[id].assembly_status
            /\ ~Named(written, id) => lifecycle'[id] = lifecycle[id]
        BY <1>1, <3>3, <4>1, DispatchedEntry
      <4>3. QED
        BY <1>1, <3>1, <4>1, <4>2 DEF Founded
    <3>4. QED
      BY <2>1, <3>2, <3>3
  <2>6. worker'[w].groups \subseteq worker[w].groups
    <3>1. CASE TaskLeaves(w, g)
      <4>1. worker'[w] = IF worker[w].groups = {g} THEN Idle
                         ELSE [worker[w] EXCEPT !.groups = worker[w].groups \ {g}]
        BY <1>1, <3>1 DEF TaskLeaves
      <4>2. Idle.groups = {}
        BY DEF Idle
      <4>3. QED
        BY <1>1, <4>1, <4>2 DEF WorkerState
    <3>2. CASE Return(w)
      <4>1. worker'[w] = Idle /\ Idle.groups = {}
        BY <1>1, <3>2, ReturnFacts DEF Idle
      <4>2. QED
        BY <4>1
    <3>3. QED
      BY <2>1, <3>1, <3>2
  <2>7. QueuedTasks \subseteq QueuedTasks'
    BY <1>3, <2>5 DEF QueuedTasks
  <2>8. \A x \in worker'[w].groups : x \subseteq QueuedTasks'
    BY <2>2, <2>6, <2>7
  <2>9. QED
    BY <1>4, <2>4, <2>5, <2>8
<1>7. ASSUME UNCHANGED <<lifecycle, sim_queue>>, worker'[w].pc # "enqueue"
      PROVE  CandidatesInv'
  <2>1. \A id \in CandidateIds : Founded(id)'
    BY <1>1, <1>7 DEF CandidatesInv, Founded
  <2>2. sim_queue' \in Seq(SUBSET QueuedTasks)
    BY <1>7 DEF CandidatesInv, QueuedFirst
  <2>3. QED
    BY <1>4, <1>7, <2>1, <2>2
<1>8. CASE Observe(w)
  <2>1. worker'[w].pc = "seen"
    <3>1. ASSUME NEW h, NEW decision, NEW replaced, NEW transitions,
                 worker' = [worker EXCEPT ![w].pc = "seen", ![w].hash = h,
                              ![w].decision = decision, ![w].replaced = replaced,
                              ![w].transitions = transitions]
          PROVE  worker'[w].pc = "seen"
      BY <1>1, <3>1 DEF WorkerState
    <3>2. ASSUME NEW h, ObserveFetched(w, h) PROVE worker'[w].pc = "seen"
      BY <3>1, <3>2 DEF ObserveFetched
    <3>3. ASSUME NEW h, ObserveRefused(w, h) \/ ObserveUnfetched(w, h)
          PROVE  worker'[w].pc = "seen"
      BY <1>1, <3>3 DEF ObserveRefused, ObserveUnfetched, WorkerState
    <3>4. QED
      BY <1>8, <3>2, <3>3 DEF Observe
  <2>2. UNCHANGED <<lifecycle, sim_queue>>
    BY <1>8 DEF Observe, ObserveFetched, ObserveRefused, ObserveUnfetched, log_vars, sim_vars
  <2>3. QED
    BY <1>7, <2>1, <2>2
<1>9. CASE WriteSeen(w) \/ WriteReplaced(w) \/ Invalidate(w) \/ WriteDecision(w)
           \/ FindNothing(w) \/ GiveUp(w)
  <2>1. UNCHANGED <<lifecycle, sim_queue>>
    BY <1>9 DEF WriteSeen, WriteReplaced, Invalidate, WriteDecision, FindNothing, GiveUp,
                log_vars, sim_vars
  <2>2. Return(w) \/ \E pc \in Pcs \ {"enqueue"} : Goto(w, pc)
    BY <1>9 DEF WriteSeen, WriteReplaced, Invalidate, WriteDecision, FindNothing, GiveUp, Pcs
  <2>3. CASE Return(w)
    BY <1>1, <1>7, <2>1, <2>3, ReturnFacts DEF Idle
  <2>4. ASSUME NEW pc \in Pcs \ {"enqueue"}, Goto(w, pc) PROVE CandidatesInv'
    <3>1. worker'[w] = [worker[w] EXCEPT !.pc = pc]
      BY <1>1, <2>4, GotoFacts
    <3>2. worker'[w].pc # "enqueue"
      BY <1>1, <2>4, <3>1 DEF WorkerState
    <3>3. QED
      BY <1>7, <2>1, <3>2
  <2>5. QED
    BY <2>2, <2>3, <2>4
<1>10. CASE CollectExecutable(w) \/ CollectContext(w) \/ WriteTransition(w) \/ Register(w)
  <2>1. UNCHANGED <<lifecycle, sim_queue>>
    BY <1>10 DEF CollectExecutable, CollectContext, WriteTransition, Register, log_vars,
                 sim_vars
  <2>2. worker'[w].pc # "enqueue"
    BY <1>1, <1>10 DEF CollectExecutable, CollectContext, WriteTransition, Register,
                       WorkerState
  <2>3. QED
    BY <1>7, <2>1, <2>2
<1>11. QED
  BY <1>5, <1>6, <1>8, <1>9, <1>10 DEF Process

\* A simulation worker's step: what it writes is about candidates the log knows.
LEMMA SimulateCandidates ==
    ASSUME PipelineTypeOK, CandidatesInv, tasks \subseteq tasks', NEW v \in SimWorkers,
           Simulate(v)
    PROVE  CandidatesInv'
<1>1. /\ lifecycle \in [CandidateIds -> CandidateLifecycleEntry] /\ TypeOK
      /\ sim \in [SimWorkers -> SimulationTask \cup {None}]
      /\ tasks \subseteq SimulationTaskSpec /\ worker' = worker
      /\ sim_queue \in Seq(SUBSET QueuedTasks)
      /\ sim[v] # None => /\ sim[v] \in SimulationTask
                          /\ sim[v].todo \subseteq QueuedTasks
                          /\ sim[v].accepted \subseteq QueuedTasks
  BY SimulateType DEF PipelineTypeOK, TypeOK, CandidatesInv, QueuedFirst
<1>2. \A t \in tasks : t.candidate_id \in CandidateIds
  BY <1>1 DEF SimulationTaskSpec
<1>3. ASSUME \A id \in CandidateIds : lifecycle[id].queued => lifecycle'[id].queued,
             \A id \in CandidateIds : Founded(id)',
             NEW work, sim' = [sim EXCEPT ![v] = work],
             work # None => work.todo \subseteq QueuedTasks /\ work.accepted \subseteq QueuedTasks,
             sim_queue' \in Seq(SUBSET QueuedTasks)
      PROVE  CandidatesInv'
  <2>1. QueuedTasks \subseteq QueuedTasks'
    BY <1>2, <1>3 DEF QueuedTasks
  <2>2. sim_queue' \in Seq(SUBSET QueuedTasks')
    BY <1>3, <2>1, SeqGrows
  <2>3. sim'[v] = work /\ \A u \in SimWorkers : u # v => sim'[u] = sim[u]
    BY <1>1, <1>3
  <2>4. \A u \in SimWorkers : sim'[u] # None => /\ sim'[u].todo \subseteq QueuedTasks'
                                                /\ sim'[u].accepted \subseteq QueuedTasks'
    BY <1>3, <2>1, <2>3 DEF CandidatesInv, QueuedFirst
  <2>5. \A w \in Workers : worker'[w].pc = "enqueue" =>
          \A g \in worker'[w].groups : g \subseteq QueuedTasks'
    BY <1>1, <2>1 DEF CandidatesInv, QueuedFirst, At
  <2>6. QueuedFirst'
    BY <2>2, <2>4, <2>5 DEF QueuedFirst, At
  <2>7. QED
    BY <1>3, <2>6 DEF CandidatesInv
<1>4. ASSUME UNCHANGED lifecycle, offered \subseteq offered'
      PROVE  /\ \A id \in CandidateIds : lifecycle[id].queued => lifecycle'[id].queued
             /\ \A id \in CandidateIds : Founded(id)'
  BY <1>4 DEF CandidatesInv, Founded, IdsOf
<1>5. CASE TakeTask(v)
  <2>1. /\ sim_queue # <<>> /\ sim_queue' = Tail(sim_queue)
        /\ UNCHANGED <<lifecycle, offered>>
    BY <1>5 DEF TakeTask, log_vars
  <2>2. PICK work : /\ sim' = [sim EXCEPT ![v] = work]
                    /\ work.todo = Head(sim_queue) /\ work.accepted = {}
    <3>1. PICK approved \in BOOLEAN :
            sim' = [sim EXCEPT ![v] = [todo |-> Head(sim_queue), approved |-> approved,
                                       accepted |-> {}]]
      BY <1>5 DEF TakeTask
    <3>2. PICK task : task = [todo |-> Head(sim_queue), approved |-> approved, accepted |-> {}]
      OBVIOUS
    <3>3. /\ sim' = [sim EXCEPT ![v] = task]
          /\ task.todo = Head(sim_queue) /\ task.accepted = {}
      BY <3>1, <3>2
    <3>4. QED
      BY <3>3
  <2>3. Head(sim_queue) \in SUBSET QueuedTasks /\ sim_queue' \in Seq(SUBSET QueuedTasks)
    BY <1>1, <2>1
  <2>4. QED
    BY <1>3, <1>4, <2>1, <2>2, <2>3
<1>6. CASE sim[v] # None /\ SettleResult(v)
  <2> DEFINE handed(t) == IF sim[v].approved THEN {t} ELSE {}
  <2>1. PICK t \in sim[v].todo :
          /\ \/ UNCHANGED lifecycle
             \/ ApplySimCompleted(t.tx_hash, SimulationStatus(sim[v].approved))
          /\ \/ sim' = [sim EXCEPT ![v].todo = @ \ {t}, ![v].accepted = @ \cup handed(t)]
             \/ sim' = [sim EXCEPT ![v] = None]
          /\ UNCHANGED <<sim_queue, offered>>
    BY <1>6 DEF SettleResult
  <2>2. ASSUME NEW id \in CandidateIds
        PROVE  (lifecycle[id].queued => lifecycle'[id].queued) /\ Founded(id)'
    <3>1. Founded(id)
      BY DEF CandidatesInv
    <3>2. CASE UNCHANGED lifecycle
      BY <2>1, <3>1, <3>2 DEF Founded
    <3>3. CASE ApplySimCompleted(t.tx_hash, SimulationStatus(sim[v].approved))
      <4>1. t.tx_hash # None
        <5>1. sim[v].todo \in SUBSET QueuedTasks
          BY <1>1, <1>6
        <5>2. t.tx_hash \in Hashes
          BY <1>1, <2>1, <5>1, QueuedTaskFacts
        <5>3. QED
          BY <5>2, TransactionAssumption
      <4>2. PICK hash, status : hash = t.tx_hash /\ status = SimulationStatus(sim[v].approved)
        OBVIOUS
      <4>3. /\ lifecycle'[id].queued = lifecycle[id].queued
            /\ lifecycle'[id].tx_hash = lifecycle[id].tx_hash
            /\ lifecycle'[id].simulation_block_number = lifecycle[id].simulation_block_number
            /\ lifecycle'[id].assembly_status = lifecycle[id].assembly_status
            /\ lifecycle[id].tx_hash # hash => lifecycle'[id] = lifecycle[id]
        BY <1>1, <3>3, <4>2, CompletedEntry
      <4>4. QED
        BY <2>1, <3>1, <4>1, <4>2, <4>3 DEF Founded
    <3>4. QED
      BY <2>1, <3>2, <3>3
  <2>3. PICK work : work = [sim[v] EXCEPT !.todo = sim[v].todo \ {t},
                                          !.accepted = sim[v].accepted \cup handed(t)]
    OBVIOUS
  <2>4. work.todo \subseteq QueuedTasks /\ work.accepted \subseteq QueuedTasks
    BY <1>1, <1>6, <2>1, <2>3 DEF SimulationTask
  <2>5. sim' = [sim EXCEPT ![v] = work] \/ sim' = [sim EXCEPT ![v] = None]
    BY <1>1, <2>1, <2>3
  <2>6. sim_queue' \in Seq(SUBSET QueuedTasks)
    BY <1>1, <2>1
  <2>7. QED
    BY <1>3, <2>2, <2>4, <2>5, <2>6
<1>7. CASE sim[v] # None /\ DropStaleResult(v)
  <2>1. PICK t \in sim[v].todo : /\ sim' = [sim EXCEPT ![v].todo = @ \ {t}]
                                 /\ UNCHANGED <<sim_queue, offered, lifecycle>>
    BY <1>7 DEF DropStaleResult, log_vars
  <2>2. PICK work : work = [sim[v] EXCEPT !.todo = sim[v].todo \ {t}]
    OBVIOUS
  <2>3. work.todo \subseteq QueuedTasks /\ work.accepted \subseteq QueuedTasks
    BY <1>1, <1>7, <2>1, <2>2 DEF SimulationTask
  <2>4. sim' = [sim EXCEPT ![v] = work]
    BY <1>1, <2>1, <2>2
  <2>5. sim_queue' \in Seq(SUBSET QueuedTasks)
    BY <1>1, <2>1
  <2>6. QED
    BY <1>3, <1>4, <2>1, <2>3, <2>4, <2>5
<1>8. CASE FailResult(v)
  <2>1. sim' = [sim EXCEPT ![v] = None] /\ UNCHANGED <<sim_queue, offered, lifecycle>>
    BY <1>8 DEF FailResult, log_vars
  <2>2. sim_queue' \in Seq(SUBSET QueuedTasks)
    BY <1>1, <2>1
  <2>3. QED
    BY <1>3, <1>4, <2>1, <2>2
<1>9. CASE sim[v] # None /\ Deliver(v)
  <2>1. PICK written \in SUBSET sim[v].accepted : ApplyAssemblyDecisions(written)
    BY <1>9 DEF Deliver
  <2>2. /\ sim' = [sim EXCEPT ![v] = None] /\ sim_queue' = sim_queue
        /\ offered' = offered \cup sim[v].accepted
    BY <1>9 DEF Deliver
  <2>3. /\ written \in SUBSET SimulationTaskSpec
        /\ \A id : Named(written, id) => lifecycle[id].queued
    BY <1>1, <1>9, <2>1, QueuedTaskFacts
  <2>4. ASSUME NEW id \in CandidateIds
        PROVE  (lifecycle[id].queued => lifecycle'[id].queued) /\ Founded(id)'
    <3>1. Founded(id) /\ (id \in IdsOf(offered) => id \in IdsOf(offered'))
      BY <2>2 DEF CandidatesInv, IdsOf
    <3>2. /\ lifecycle'[id].queued = lifecycle[id].queued
          /\ lifecycle'[id].simulation_block_number = lifecycle[id].simulation_block_number
          /\ lifecycle'[id].simulation_status = lifecycle[id].simulation_status
          /\ ~Named(written, id) => lifecycle'[id] = lifecycle[id]
      BY <1>1, <2>1, <2>3, AssemblyEntry
    <3>3. Named(written, id) => id \in IdsOf(offered')
      BY <2>1, <2>2 DEF Named, IdsOf
    <3>4. QED
      BY <2>3, <3>1, <3>2, <3>3 DEF Founded, IdsOf
  <2>5. sim_queue' \in Seq(SUBSET QueuedTasks)
    BY <1>1, <2>2
  <2>6. QED
    BY <1>3, <2>2, <2>4, <2>5
<1>10. QED
  BY <1>5, <1>6, <1>7, <1>8, <1>9 DEF Simulate

\* What the log has been told has its grounds in every reachable state.
LEMMA LogIsFounded == PipelineSpec => [](AdmittedInv /\ CandidatesInv)
<1> DEFINE Inv == AdmittedInv /\ CandidatesInv
<1>1. PipelineInit => Inv
  <2> SUFFICES ASSUME PipelineInit PROVE Inv
    OBVIOUS
  <2>1. /\ \A w \in Workers : worker[w] = Idle
        /\ Idle.pc = "idle" /\ Idle.decision = None /\ Idle.transitions = {}
    BY DEF PipelineInit, Idle
  <2>2. replica \in MempoolState /\ \A h \in Hashes : replica.txs[h] = None
    BY DEF PipelineInit, EmptyMempool, MempoolState, NoQueues
  <2>3. EverAdmitted = {} /\ tasks = {}
    BY DEF PipelineInit, Init, EverAdmitted
  <2>4. \A w \in Workers : LocalsAdmitted(w)
    BY <2>1, PipelineAssumption DEF LocalsAdmitted
  <2>5. AdmittedInv
    BY <2>2, <2>3, <2>4 DEF AdmittedInv, PendingHashes, IsPending, SeenOrAbout
  <2>6. \A id \in CandidateIds : Founded(id)
    BY DEF PipelineInit, Founded, NoCandidate
  <2>7. QueuedFirst
    <3>1. sim_queue = <<>> /\ \A v \in SimWorkers : sim[v] = None
      BY DEF PipelineInit
    <3>2. sim_queue \in Seq(SUBSET QueuedTasks)
      BY <3>1
    <3>3. QED
      BY <2>1, <3>1, <3>2 DEF QueuedFirst, At
  <2>8. QED
    BY <2>5, <2>6, <2>7 DEF CandidatesInv
<1>2. ASSUME PipelineTypeOK, Inv, [PipelineNext]_pipeline_vars
      PROVE  Inv'
  <2>1. tasks \subseteq tasks'
    BY <1>2, StepIsScheduler, TasksGrow
  <2>2. CASE UNCHANGED pipeline_vars
    <3>1. UNCHANGED <<deployment, worker, pending, retired, tasks, replica, introduced,
                      lifecycle, sim, sim_queue, offered>>
      BY <2>2 DEF pipeline_vars, scheduler_vars, admission_vars, candidate_vars, sim_vars,
                  log_vars
    <3>2. AdmittedInv'
      BY <1>2, <3>1 DEF AdmittedInv, EverAdmitted, LocalsAdmitted, SeenOrAbout, At, Reliable,
                        StorageMayFill, SchedulerMayRefuse, PendingHashes, IsPending
    <3>3. CandidatesInv'
      BY <1>2, <3>1 DEF CandidatesInv, QueuedFirst, QueuedTasks, Founded, IdsOf, At
    <3>4. QED
      BY <3>2, <3>3
  <2>3. CASE PipelineNext
    <3>1. /\ deployment.workers \subseteq Workers /\ deployment.sim_workers \subseteq SimWorkers
          /\ deployment' = deployment
      BY <1>2, <2>3 DEF PipelineTypeOK, Deployment, PipelineNext
    <3>2. Reliable' = Reliable
      BY <3>1 DEF Reliable, StorageMayFill, SchedulerMayRefuse
    <3>3. ASSUME NEW w \in Workers, Observe(w) \/ Process(w) PROVE Inv'
      BY <1>2, <2>1, <3>2, <3>3, ObserveAdmitted, ProcessAdmitted, WorkerCandidates
    <3>4. ASSUME NEW v \in SimWorkers, Simulate(v) PROVE Inv'
      <4>1. UNCHANGED <<pending, retired>>
        BY <3>4, PoolStays
      <4>2. UNCHANGED <<worker, replica, introduced>>
        BY <3>4 DEF Simulate, TakeTask, SettleResult, DropStaleResult, FailResult, Deliver,
                    log_vars
      <4>3. AdmittedInv'
        BY <1>2, <3>2, <4>1, <4>2 DEF AdmittedInv, EverAdmitted, LocalsAdmitted, SeenOrAbout,
                                      At, PendingHashes, IsPending
      <4>4. QED
        BY <1>2, <2>1, <3>4, <4>3, SimulateCandidates
    <3>5. QED
      BY <2>3, <3>1, <3>3, <3>4 DEF PipelineNext
  <2>4. QED
    BY <1>2, <2>2, <2>3
<1>3. QED
  BY <1>1, <1>2, PipelineTypeCorrect, PTL DEF PipelineSpec

\* However workers interleave and whatever is refused, a replay of the log shows no
\* transaction as pending that the scheduler did not admit, and no candidate as
\* dispatched, simulated or assembled that was not queued before.
THEOREM ReplayIsFounded == PipelineSpec => []ReplayInventsNothing
<1>1. AdmittedInv /\ CandidatesInv => ReplayInventsNothing
  BY DEF AdmittedInv, CandidatesInv, Founded, SeenOrAbout, ReplayInventsNothing, EverAdmitted
<1>2. QED
  BY <1>1, LogIsFounded, PTL

----------------------------------------------------------------------------
(* The replay in step with the queues it has been told of *)

\* Every slot holds a transaction of its own sender and nonce, or none.
Ordered(q) ==
    \A s \in Senders, n \in Nonces :
        q[s][n] # None => Tx[q[s][n]].sender = s /\ Tx[q[s][n]].nonce = n

Filled(q, s) == {n \in Nonces : q[s][n] # None}

\* The recorded states of the senders in S are those the queues q imply.
StatesTold(m, q, S) ==
    \A x \in Hashes : IsPending(m, x) /\ Tx[x].sender \in S =>
        m.txs[x].queue_state = QueueEntryState(Filled(q, Tx[x].sender), Tx[x].nonce)

PendingTold(m, q) ==
    \A x \in Hashes : /\ IsPending(m, x) <=> SlotOf(q, x) = x
                      /\ IsPending(m, x) => m.txs[x].placed

\* m shows the transactions in the queues q as pending, each of them in its slot, and
\* nothing else.
Told(m, q, S) ==
    /\ m \in MempoolState
    /\ m.sender_queues = q
    /\ Ordered(q)
    /\ PendingTold(m, q)
    /\ StatesTold(m, q, S)

\* Classifying a queue changes nothing but the states of its sender, which are right
\* afterwards.
LEMMA RecomputeTold ==
    ASSUME NEW m, NEW q, NEW S, Told(m, q, S), NEW s \in Senders, NEW r,
           r = RecomputeSenderQueueStates(m, s)
    PROVE  Told(r, q, S \cup {s})
<1> DEFINE occupied == PendingNonces(m, s)
           queue == m.sender_queues[s]
           place(h) == CHOOSE k \in Nonces : queue[k] = h
           stateIn(h) == IF place(h) \in occupied THEN QueueEntryState(occupied, place(h))
                         ELSE None
           entry(h) == IF m.txs[h] # None /\ \E n \in Nonces : queue[n] = h
                       THEN [m.txs[h] EXCEPT !.queue_state = stateIn(h)]
                       ELSE m.txs[h]
           slots == [n \in Nonces |-> IF n \in occupied THEN queue[n] ELSE None]
<1>1. /\ r.txs = [h \in Hashes |-> entry(h)]
      /\ r.sender_queues = [m.sender_queues EXCEPT ![s] = slots]
  BY DEF RecomputeSenderQueueStates
<1>2. /\ m \in MempoolState /\ m.sender_queues = q /\ Ordered(q) /\ PendingTold(m, q)
      /\ StatesTold(m, q, S)
      /\ m.txs \in [Hashes -> TxEntry \cup {None}]
      /\ q \in [Senders -> [Nonces -> Hashes \cup {None}]]
      /\ None \notin TxEntry /\ None \notin Hashes
  BY ReplayAssumption, TransactionAssumption DEF Told, MempoolState
<1>3. r \in MempoolState
  BY <1>2, RecomputeAdds
<1>4. occupied = Filled(q, s)
  <2>1. ASSUME NEW n \in Nonces, q[s][n] # None PROVE IsPending(m, q[s][n])
    <3>1. q[s][n] \in Hashes /\ SlotOf(q, q[s][n]) = q[s][n]
      BY <1>2, <2>1 DEF Ordered, SlotOf
    <3>2. QED
      BY <1>2, <3>1 DEF PendingTold
  <2>2. QED
    BY <1>2, <2>1 DEF PendingNonces, Filled
<1>5. r.sender_queues = q
  <2>1. slots = q[s]
    BY <1>2, <1>4 DEF Filled
  <2>2. QED
    BY <1>1, <1>2, <2>1
<1>6. ASSUME NEW h \in Hashes, IsPending(m, h), Tx[h].sender = s
      PROVE  stateIn(h) = QueueEntryState(Filled(q, s), Tx[h].nonce) /\ \E n \in Nonces : queue[n] = h
  <2>1. q[s][Tx[h].nonce] = h /\ Tx[h].nonce \in Nonces
    BY <1>2, <1>6, TransactionAssumption DEF PendingTold, SlotOf, TxRecord
  <2>2. \A k \in Nonces : queue[k] = h => k = Tx[h].nonce
    BY <1>2 DEF Ordered
  <2>3. place(h) = Tx[h].nonce
    BY <1>2, <2>1, <2>2
  <2>4. Tx[h].nonce \in Filled(q, s)
    BY <1>2, <2>1 DEF Filled
  <2> HIDE DEF place, occupied, queue
  <2>5. QED
    BY <1>2, <1>4, <2>1, <2>3, <2>4 DEF queue
<1>7. ASSUME NEW h \in Hashes, Tx[h].sender # s
      PROVE  ~\E n \in Nonces : queue[n] = h
  BY <1>2, <1>7 DEF Ordered
<1> HIDE DEF stateIn, queue
<1>8. ASSUME NEW h \in Hashes
      PROVE  /\ m.txs[h] = None <=> entry(h) = None
             /\ m.txs[h] # None => /\ entry(h).status = m.txs[h].status
                                   /\ entry(h).placed = m.txs[h].placed
             /\ IsPending(m, h) /\ Tx[h].sender = s => entry(h).queue_state = stateIn(h)
             /\ Tx[h].sender # s => entry(h) = m.txs[h]
  <2>1. m.txs[h] \in TxEntry \cup {None}
    BY <1>2
  <2>2. stateIn(h) \in QueueState \cup {None}
    BY QueueEntryStateType DEF stateIn, PendingNonces
  <2>3. m.txs[h] # None => /\ [m.txs[h] EXCEPT !.queue_state = stateIn(h)] \in TxEntry
                           /\ [m.txs[h] EXCEPT !.queue_state = stateIn(h)].status
                                = m.txs[h].status
                           /\ [m.txs[h] EXCEPT !.queue_state = stateIn(h)].placed
                                = m.txs[h].placed
                           /\ [m.txs[h] EXCEPT !.queue_state = stateIn(h)].queue_state
                                = stateIn(h)
    BY <2>1, <2>2 DEF TxEntry
  <2>4. QED
    BY <1>2, <1>6, <1>7, <2>1, <2>3 DEF IsPending
<1>9. \A h \in Hashes : r.txs[h] = entry(h)
  BY <1>1
<1> HIDE DEF entry
<1>10. \A h \in Hashes : IsPending(r, h) <=> IsPending(m, h)
  BY <1>8, <1>9 DEF IsPending
<1>11. PendingTold(r, q)
  BY <1>2, <1>8, <1>9, <1>10 DEF PendingTold, IsPending
<1>12. StatesTold(r, q, S \cup {s})
  <2> SUFFICES ASSUME NEW x \in Hashes, IsPending(r, x), Tx[x].sender \in S \cup {s}
               PROVE  r.txs[x].queue_state = QueueEntryState(Filled(q, Tx[x].sender), Tx[x].nonce)
    BY DEF StatesTold
  <2>1. IsPending(m, x) /\ r.txs[x] = entry(x)
    BY <1>9, <1>10
  <2>2. CASE Tx[x].sender = s
    BY <1>6, <1>8, <2>1, <2>2
  <2>3. CASE Tx[x].sender # s
    BY <1>2, <1>8, <2>1, <2>3 DEF StatesTold
  <2>4. QED
    BY <2>2, <2>3
<1>13. QED
  BY <1>2, <1>3, <1>5, <1>11, <1>12 DEF Told

\* The queues q with v in h's slot.
WithSlot(q, h, v) == [q EXCEPT ![Tx[h].sender][Tx[h].nonce] = v]

\* Writing a slot changes that slot alone, and keeps the queues ordered.
LEMMA WithSlotFacts ==
    ASSUME NEW q \in [Senders -> [Nonces -> Hashes \cup {None}]], Ordered(q), NEW h \in Hashes,
           NEW v \in {h, None}
    PROVE  /\ WithSlot(q, h, v) \in [Senders -> [Nonces -> Hashes \cup {None}]]
           /\ Ordered(WithSlot(q, h, v))
           /\ \A x \in Hashes : SlotOf(WithSlot(q, h, v), x) =
                 IF Tx[x].sender = Tx[h].sender /\ Tx[x].nonce = Tx[h].nonce THEN v ELSE SlotOf(q, x)
           /\ \A s \in Senders : s # Tx[h].sender => Filled(WithSlot(q, h, v), s) = Filled(q, s)
<1>1. \A x \in Hashes : Tx[x].sender \in Senders /\ Tx[x].nonce \in Nonces
  BY TransactionAssumption DEF TxRecord
<1>2. PICK w : w = WithSlot(q, h, v)
  OBVIOUS
<1>3. /\ w \in [Senders -> [Nonces -> Hashes \cup {None}]]
      /\ \A s \in Senders, n \in Nonces :
            w[s][n] = IF s = Tx[h].sender /\ n = Tx[h].nonce THEN v ELSE q[s][n]
  BY <1>1, <1>2 DEF WithSlot
<1>4. Ordered(w)
  BY <1>3 DEF Ordered
<1>5. \A s \in Senders : s # Tx[h].sender => Filled(w, s) = Filled(q, s)
  BY <1>3 DEF Filled
<1>6. \A x \in Hashes : SlotOf(w, x) =
         IF Tx[x].sender = Tx[h].sender /\ Tx[x].nonce = Tx[h].nonce THEN v ELSE SlotOf(q, x)
  BY <1>1, <1>3 DEF SlotOf
<1>7. QED
  BY <1>2, <1>3, <1>4, <1>5, <1>6

\* A hash placed in a slot that is free or its own.
LEMMA PlacedTold ==
    ASSUME NEW m, NEW q, NEW S, Told(m, q, S), NEW h \in Hashes, SlotOf(q, h) \in {None, h},
           NEW p, p = Placed(m, h)
    PROVE  Told(p, WithSlot(q, h, h), S \cup {Tx[h].sender})
<1> DEFINE entry == [EntryOf(m, h) EXCEPT !.placed = TRUE, !.status = "pending",
                                          !.block_hash = None]
           s == Tx[h].sender
<1>1. PICK e : e = EnsureSenderQueueEntry(m, h)
  OBVIOUS
<1>2. PICK u : u = WithSlot(q, h, h)
  OBVIOUS
<1>3. /\ m \in MempoolState /\ m.sender_queues = q /\ Ordered(q) /\ PendingTold(m, q)
      /\ StatesTold(m, q, S)
      /\ m.txs \in [Hashes -> TxEntry \cup {None}]
      /\ q \in [Senders -> [Nonces -> Hashes \cup {None}]]
      /\ s \in Senders /\ Tx[h].nonce \in Nonces
      /\ None \notin TxEntry /\ None \notin Hashes
  BY ReplayAssumption, TransactionAssumption DEF Told, MempoolState, TxRecord
<1>4. /\ e.txs = [m.txs EXCEPT ![h] = entry] /\ e.sender_queues = u
      /\ e = [txs |-> e.txs, sender_queues |-> e.sender_queues]
  BY <1>1, <1>2, <1>3 DEF EnsureSenderQueueEntry, WithSlot
<1>5. entry \in TxEntry /\ entry.status = "pending" /\ entry.placed = TRUE
  <2>1. EntryOf(m, h) \in TxEntry
    BY <1>3 DEF EntryOf, UnplacedEntry, TxEntry
  <2>2. QED
    BY <2>1 DEF TxEntry
<1> HIDE DEF entry
<1>6. /\ u \in [Senders -> [Nonces -> Hashes \cup {None}]] /\ Ordered(u)
      /\ \A x \in Hashes : SlotOf(u, x) =
            IF Tx[x].sender = Tx[h].sender /\ Tx[x].nonce = Tx[h].nonce THEN h ELSE SlotOf(q, x)
      /\ \A t \in Senders : t # s => Filled(u, t) = Filled(q, t)
  BY <1>2, <1>3, WithSlotFacts
<1>7. /\ e.txs \in [Hashes -> TxEntry \cup {None}] /\ e.txs[h] = entry
      /\ \A x \in Hashes : x # h => e.txs[x] = m.txs[x]
  BY <1>3, <1>4, <1>5
<1>8. e \in MempoolState
  BY <1>4, <1>6, <1>7 DEF MempoolState
<1>9. \A x \in Hashes : x # h => (SlotOf(u, x) = x <=> SlotOf(q, x) = x)
  <2> SUFFICES ASSUME NEW x \in Hashes, x # h PROVE SlotOf(u, x) = x <=> SlotOf(q, x) = x
    OBVIOUS
  <2>1. CASE Tx[x].sender = Tx[h].sender /\ Tx[x].nonce = Tx[h].nonce
    <3>1. SlotOf(q, x) = SlotOf(q, h) /\ SlotOf(u, x) = h
      BY <1>6, <2>1 DEF SlotOf
    <3>2. QED
      BY <1>3, <3>1
  <2>2. QED
    BY <1>6, <2>1
<1>10. PendingTold(e, u)
  <2>1. IsPending(e, h) /\ SlotOf(u, h) = h /\ e.txs[h].placed
    BY <1>3, <1>5, <1>6, <1>7 DEF IsPending
  <2>2. \A x \in Hashes : x # h => (IsPending(e, x) <=> IsPending(m, x))
    BY <1>7 DEF IsPending
  <2>3. QED
    BY <1>3, <1>7, <1>9, <2>1, <2>2 DEF PendingTold
<1>11. StatesTold(e, u, S \ {s})
  <2> SUFFICES ASSUME NEW x \in Hashes, IsPending(e, x), Tx[x].sender \in S \ {s}
               PROVE  e.txs[x].queue_state = QueueEntryState(Filled(u, Tx[x].sender), Tx[x].nonce)
    BY DEF StatesTold
  <2>1. x # h /\ e.txs[x] = m.txs[x] /\ IsPending(m, x)
    BY <1>7 DEF IsPending
  <2>2. Tx[x].sender \in Senders
    BY TransactionAssumption DEF TxRecord
  <2>3. Filled(u, Tx[x].sender) = Filled(q, Tx[x].sender)
    BY <1>6, <2>2
  <2>4. QED
    BY <1>3, <2>1, <2>3 DEF StatesTold
<1>12. Told(e, u, S \ {s})
  BY <1>4, <1>6, <1>8, <1>10, <1>11 DEF Told
<1>13. p = RecomputeSenderQueueStates(e, s)
  BY <1>1 DEF Placed
<1>14. Told(p, u, (S \ {s}) \cup {s})
  BY <1>3, <1>12, <1>13, RecomputeTold
<1>15. (S \ {s}) \cup {s} = S \cup {s}
  OBVIOUS
<1>16. QED
  BY <1>2, <1>14, <1>15

\* A hash that is finished leaves its slot, if it has it.
LEMMA FinishedTold ==
    ASSUME NEW m, NEW q, NEW S, Told(m, q, S), NEW h \in Hashes,
           NEW status \in {"replaced", "dropped"},
           NEW u, u = Unqueued(SetStatus(m, h, status, None), h)
    PROVE  IF SlotOf(q, h) = h THEN Told(u, WithSlot(q, h, None), S \cup {Tx[h].sender})
           ELSE Told(u, q, S)
<1> DEFINE entry == [EntryOf(m, h) EXCEPT !.status = status, !.block_hash = None,
                                          !.queue_state = None]
           s == Tx[h].sender
<1>1. PICK e : e = SetStatus(m, h, status, None)
  OBVIOUS
<1>2. /\ m \in MempoolState /\ m.sender_queues = q /\ Ordered(q) /\ PendingTold(m, q)
      /\ StatesTold(m, q, S)
      /\ m.txs \in [Hashes -> TxEntry \cup {None}]
      /\ q \in [Senders -> [Nonces -> Hashes \cup {None}]]
      /\ s \in Senders /\ Tx[h].nonce \in Nonces
      /\ None \notin TxEntry /\ None \notin Hashes
  BY ReplayAssumption, TransactionAssumption DEF Told, MempoolState, TxRecord
<1>3. /\ e.txs = [m.txs EXCEPT ![h] = entry] /\ e.sender_queues = q
      /\ e = [txs |-> e.txs, sender_queues |-> e.sender_queues]
  BY <1>1, <1>2 DEF SetStatus, MempoolState
<1>4. EntryOf(m, h) \in TxEntry
  BY <1>2 DEF EntryOf, UnplacedEntry, TxEntry
<1>5. /\ entry \in TxEntry /\ entry.status # "pending"
      /\ IsPending(m, h) => entry.placed = m.txs[h].placed
  BY <1>4 DEF TxEntry, EntryOf, IsPending
<1> HIDE DEF entry
<1>6. /\ e.txs \in [Hashes -> TxEntry \cup {None}] /\ e.txs[h] = entry
      /\ \A x \in Hashes : x # h => e.txs[x] = m.txs[x]
  BY <1>2, <1>3, <1>5
<1>7. e \in MempoolState
  BY <1>2, <1>3, <1>6 DEF MempoolState
<1>8. ~IsPending(e, h) /\ \A x \in Hashes : x # h => (IsPending(e, x) <=> IsPending(m, x))
  BY <1>5, <1>6 DEF IsPending
<1>9. CASE SlotOf(q, h) = h
  <2>1. IsPending(m, h) /\ e.txs[h].placed
    BY <1>2, <1>5, <1>6, <1>9 DEF PendingTold
  <2>2. PICK w : w = WithSlot(q, h, None)
    OBVIOUS
  <2>3. /\ w \in [Senders -> [Nonces -> Hashes \cup {None}]] /\ Ordered(w)
        /\ \A x \in Hashes : SlotOf(w, x) =
              IF Tx[x].sender = Tx[h].sender /\ Tx[x].nonce = Tx[h].nonce THEN None ELSE SlotOf(q, x)
        /\ \A t \in Senders : t # s => Filled(w, t) = Filled(q, t)
    BY <1>2, <2>2, WithSlotFacts
  <2>4. PICK d : d = RemoveSenderQueueEntry(e, h)
    OBVIOUS
  <2>5. d = [e EXCEPT !.sender_queues = w]
    BY <1>3, <1>7, <1>9, <2>2, <2>4 DEF RemoveSenderQueueEntry, WithSlot, MempoolState
  <2>6. d \in MempoolState /\ d.sender_queues = w /\ d.txs = e.txs
    BY <1>7, <2>3, <2>5 DEF MempoolState
  <2>7. \A x \in Hashes : x # h => (SlotOf(w, x) = x <=> SlotOf(q, x) = x)
    <3> SUFFICES ASSUME NEW x \in Hashes, x # h PROVE SlotOf(w, x) = x <=> SlotOf(q, x) = x
      OBVIOUS
    <3>1. CASE Tx[x].sender = Tx[h].sender /\ Tx[x].nonce = Tx[h].nonce
      <4>1. SlotOf(q, x) = h /\ SlotOf(w, x) = None
        BY <1>9, <2>3, <3>1 DEF SlotOf
      <4>2. QED
        BY <1>2, <4>1
    <3>2. QED
      BY <2>3, <3>1
  <2>8. PendingTold(d, w)
    <3>1. ~IsPending(d, h) /\ SlotOf(w, h) # h
      BY <1>2, <1>8, <2>3, <2>6 DEF IsPending
    <3>2. \A x \in Hashes : x # h => (IsPending(d, x) <=> IsPending(m, x)) /\ d.txs[x] = m.txs[x]
      BY <1>6, <1>8, <2>6 DEF IsPending
    <3>3. QED
      BY <1>2, <2>7, <3>1, <3>2 DEF PendingTold
  <2>9. StatesTold(d, w, S \ {s})
    <3> SUFFICES ASSUME NEW x \in Hashes, IsPending(d, x), Tx[x].sender \in S \ {s}
                 PROVE  d.txs[x].queue_state = QueueEntryState(Filled(w, Tx[x].sender), Tx[x].nonce)
      BY DEF StatesTold
    <3>1. x # h /\ d.txs[x] = m.txs[x] /\ IsPending(m, x)
      BY <1>6, <2>6 DEF IsPending
    <3>2. Tx[x].sender \in Senders
      BY TransactionAssumption DEF TxRecord
    <3>3. Filled(w, Tx[x].sender) = Filled(q, Tx[x].sender)
      BY <2>3, <3>2
    <3>4. QED
      BY <1>2, <3>1, <3>3 DEF StatesTold
  <2>10. Told(d, w, S \ {s})
    BY <2>3, <2>6, <2>8, <2>9 DEF Told
  <2>11. u = RecomputeSenderQueueStates(d, s)
    BY <1>1, <2>1, <2>4 DEF Unqueued
  <2>12. Told(u, w, (S \ {s}) \cup {s})
    BY <1>2, <2>10, <2>11, RecomputeTold
  <2>13. (S \ {s}) \cup {s} = S \cup {s}
    OBVIOUS
  <2>14. QED
    BY <1>9, <2>2, <2>12, <2>13
<1>10. CASE SlotOf(q, h) # h
  <2>1. ~IsPending(m, h)
    BY <1>2, <1>10 DEF PendingTold
  <2>2. Told(e, q, S)
    <3>1. PendingTold(e, q)
      BY <1>2, <1>6, <1>8, <1>10 DEF PendingTold
    <3>2. StatesTold(e, q, S)
      BY <1>2, <1>6, <1>8 DEF StatesTold
    <3>3. QED
      BY <1>2, <1>3, <1>7, <3>1, <3>2 DEF Told
  <2>3. CASE u = RecomputeSenderQueueStates(e, s)
    <3>1. Told(u, q, S \cup {s})
      BY <1>2, <2>2, <2>3, RecomputeTold
    <3>2. QED
      BY <1>10, <3>1 DEF Told, StatesTold
  <2>4. CASE u = e
    BY <1>10, <2>2, <2>4
  <2>5. RemoveSenderQueueEntry(e, h) = e
    BY <1>3, <1>10 DEF RemoveSenderQueueEntry
  <2>6. QED
    BY <1>1, <2>3, <2>4, <2>5 DEF Unqueued
<1>11. QED
  BY <1>9, <1>10

----------------------------------------------------------------------------
(* The events of a worker and the queues they tell of *)

\* The worker's admission is not in the log yet.
Owes(st) ==
    st.decision = "admitted" /\ st.pc \in {"seen", "replaced", "invalidate", "decide"}

\* The queues that the log has told of while a worker at st writes about its admission,
\* which has led to the queues q: its slot still holds what it replaced, and then
\* nothing.
QueuesTold(st, q) ==
    IF Owes(st)
    THEN WithSlot(q, st.hash, IF st.pc \in {"seen", "replaced"} THEN st.replaced ELSE None)
    ELSE q

\* What the worker is going to write is true of the queues.
TransitionTrue(t, q) ==
    /\ SlotOf(q, t.hash) = t.hash
    /\ t.state = QueueEntryState(Filled(q, Tx[t.hash].sender), Tx[t.hash].nonce)

\* The worker is going to write that its transaction was dropped.
Declines(st) ==
    /\ st.decision # "admitted"
    /\ \/ st.pc = "decide"
       \/ st.pc = "seen" /\ st.decision \notin {"unfetched", "duplicate"}

LocalsTrue(st, q) ==
    /\ Owes(st) => /\ SlotOf(q, st.hash) = st.hash
                   /\ st.replaced # None => /\ Tx[st.replaced].sender = Tx[st.hash].sender
                                            /\ Tx[st.replaced].nonce = Tx[st.hash].nonce
    /\ Declines(st) => SlotOf(q, st.hash) # st.hash
    /\ Owes(st) \/ st.pc \in {"collect", "context", "transitions"} =>
         \A t \in st.transitions : TransitionTrue(t, q)

\* The replay m lacks of the queues q no more than a worker at st owes it.
Follows(m, q, st) == Told(m, QueuesTold(st, q), Senders) /\ LocalsTrue(st, q)

FollowInv ==
    Reliable /\ OneWorker =>
        \A w \in deployment.workers : Follows(replica, sender_queues, worker[w])

\* A slot that is filled twice holds what came last.
LEMMA SlotTwice ==
    ASSUME NEW q \in [Senders -> [Nonces -> Hashes \cup {None}]], NEW h \in Hashes,
           NEW g \in Hashes, Tx[g].sender = Tx[h].sender, Tx[g].nonce = Tx[h].nonce,
           NEW v, NEW w
    PROVE  WithSlot(WithSlot(q, h, v), g, w) = WithSlot(q, h, w)
<1>1. Tx[h].sender \in Senders /\ Tx[h].nonce \in Nonces
  BY TxType
<1>2. PICK s, n : s = Tx[h].sender /\ n = Tx[h].nonce
  OBVIOUS
<1>3. [[q EXCEPT ![s] = [q[s] EXCEPT ![n] = v]] EXCEPT ![s] =
          [[q EXCEPT ![s] = [q[s] EXCEPT ![n] = v]][s] EXCEPT ![n] = w]]
        = [q EXCEPT ![s] = [q[s] EXCEPT ![n] = w]]
  BY <1>1, <1>2
<1>4. QED
  BY <1>2, <1>3 DEF WithSlot

\* Writing what a slot holds changes nothing.
LEMMA SlotKept ==
    ASSUME NEW q \in [Senders -> [Nonces -> Hashes \cup {None}]], NEW h \in Hashes
    PROVE  WithSlot(q, h, SlotOf(q, h)) = q
BY TxType DEF WithSlot, SlotOf

\* TxReplaced of what was in h's slot leaves the slot empty.
LEMMA ReplacedTold ==
    ASSUME NEW q \in [Senders -> [Nonces -> Hashes \cup {None}]], NEW h \in Hashes,
           NEW g \in Hashes, Tx[g].sender = Tx[h].sender, Tx[g].nonce = Tx[h].nonce,
           NEW m, Told(m, WithSlot(q, h, g), Senders), NEW u, u = ApplyReplaced(m, g)
    PROVE  Told(u, WithSlot(q, h, None), Senders)
<1>1. PICK p : p = WithSlot(q, h, g)
  OBVIOUS
<1>2. SlotOf(p, g) = g
  BY <1>1, TxType DEF WithSlot, SlotOf
<1>3. IsPending(m, g)
  BY <1>1, <1>2 DEF Told, PendingTold
<1>4. u = Unqueued(SetStatus(m, g, "replaced", None), g)
  BY <1>3 DEF ApplyReplaced, IsPending
<1>5. Told(u, WithSlot(p, g, None), Senders \cup {Tx[g].sender})
  BY <1>1, <1>2, <1>4, FinishedTold
<1>6. Senders \cup {Tx[g].sender} = Senders
  BY TxType
<1>7. WithSlot(p, g, None) = WithSlot(q, h, None)
  BY <1>1, SlotTwice
<1>8. QED
  BY <1>5, <1>6, <1>7

\* TxDecoded of h fills its empty slot.
LEMMA DecodedTold ==
    ASSUME NEW q \in [Senders -> [Nonces -> Hashes \cup {None}]], NEW h \in Hashes,
           SlotOf(q, h) = h,
           NEW m, Told(m, WithSlot(q, h, None), Senders), NEW u, u = ApplyDecoded(m, h)
    PROVE  Told(u, q, Senders)
<1>1. PICK p : p = WithSlot(q, h, None)
  OBVIOUS
<1>2. SlotOf(p, h) = None
  BY <1>1, TxType DEF WithSlot, SlotOf
<1>3. m.sender_queues = p
  BY <1>1 DEF Told
<1>4. u = Placed(m, h)
  BY <1>2, <1>3 DEF ApplyDecoded
<1>5. Told(u, WithSlot(p, h, h), Senders \cup {Tx[h].sender})
  BY <1>1, <1>2, <1>4, PlacedTold
<1>6. Senders \cup {Tx[h].sender} = Senders
  BY TxType
<1>7. WithSlot(p, h, h) = WithSlot(q, h, h)
  BY <1>1, SlotTwice
<1>8. WithSlot(q, h, h) = q
  BY SlotKept
<1>9. QED
  BY <1>5, <1>6, <1>7, <1>8

\* TxDropped of a transaction that is not queued changes nothing.
LEMMA DroppedTold ==
    ASSUME NEW q, NEW h \in Hashes, SlotOf(q, h) # h, NEW m, Told(m, q, Senders),
           NEW u, u = ApplyDropped(m, h)
    PROVE  Told(u, q, Senders)
BY FinishedTold DEF ApplyDropped

\* TxReady and TxBlocked that are true of the queues change nothing.
LEMMA TransitionTold ==
    ASSUME NEW q \in [Senders -> [Nonces -> Hashes \cup {None}]],
           NEW m, Told(m, q, Senders), NEW t \in Transition, TransitionTrue(t, q),
           NEW u, u = IF t.state = Ready THEN ApplyReady(m, t.hash)
                      ELSE ApplyBlocked(m, t.hash, t.state.expected_nonce)
    PROVE  Told(u, q, Senders)
<1> DEFINE h == t.hash
<1>1. h \in Hashes /\ SlotOf(q, h) = h
  BY DEF Transition, TransitionTrue
<1>2. PICK p : p = Placed(m, h)
  OBVIOUS
<1>3. Told(p, q, Senders)
  <2>1. Told(p, WithSlot(q, h, h), Senders \cup {Tx[h].sender})
    BY <1>1, <1>2, PlacedTold
  <2>2. Senders \cup {Tx[h].sender} = Senders
    BY <1>1, TxType
  <2>3. WithSlot(q, h, h) = q
    BY <1>1, SlotKept
  <2>4. QED
    BY <2>1, <2>2, <2>3
<1>4. /\ p \in MempoolState /\ p.txs[h] # None /\ p.txs[h] \in TxEntry
      /\ p.txs[h].queue_state = t.state
  <2>1. IsPending(p, h)
    BY <1>1, <1>3 DEF Told, PendingTold
  <2>2. Tx[h].sender \in Senders
    BY <1>1, TxType
  <2>3. p.txs[h].queue_state = t.state
    BY <1>1, <1>3, <2>1, <2>2 DEF Told, StatesTold, TransitionTrue
  <2>4. p \in MempoolState /\ p.txs \in [Hashes -> TxEntry \cup {None}]
    BY <1>3 DEF Told, MempoolState
  <2>5. QED
    BY <1>1, <2>1, <2>3, <2>4 DEF IsPending
<1>5. t.state = Ready \/ t.state = Blocked(t.state.expected_nonce)
  BY DEF TransitionTrue, QueueEntryState, Blocked
<1>6. [p EXCEPT !.txs[h].queue_state = t.state] = p
  <2>1. [p.txs[h] EXCEPT !.queue_state = t.state] = p.txs[h]
    BY <1>4 DEF TxEntry
  <2>2. [p.txs EXCEPT ![h] = p.txs[h]] = p.txs
    BY <1>1, <1>4 DEF MempoolState
  <2>3. [p EXCEPT !.txs = p.txs] = p
    BY <1>4 DEF MempoolState
  <2>4. [p EXCEPT !.txs[h].queue_state = t.state]
          = [p EXCEPT !.txs = [p.txs EXCEPT ![h] = [p.txs[h] EXCEPT !.queue_state = t.state]]]
    BY <1>4 DEF MempoolState
  <2>5. QED
    BY <2>1, <2>2, <2>3, <2>4
<1>7. u = p
  BY <1>2, <1>5, <1>6 DEF ApplyReady, ApplyBlocked
<1>8. QED
  BY <1>3, <1>7

\* A worker that has written about its transaction, or has none.
LEMMA QuietFollows ==
    ASSUME NEW m, NEW q, Told(m, q, Senders), NEW st,
           st.pc \in {"idle", "register", "queued", "enqueue"}
    PROVE  Follows(m, q, st)
BY DEF Follows, QueuesTold, LocalsTrue, Owes, Declines

\* The sender queues change with the pool alone.
LEMMA QueuesStay ==
    ASSUME \/ \E w \in Workers : Process(w)
           \/ \E v \in SimWorkers : Simulate(v)
    PROVE  UNCHANGED sender_queues
<1>1. UNCHANGED scheduler_vars => UNCHANGED sender_queues
  BY DEF scheduler_vars, admission_vars
<1>2. ASSUME NEW w \in Workers, Process(w) PROVE UNCHANGED sender_queues
  <2>1. CASE Invalidate(w) \/ Register(w)
    BY <2>1 DEF Invalidate, Register, InvalidateCandidateHash, RegisterCandidates,
                admission_vars
  <2>2. CASE WriteSeen(w) \/ WriteReplaced(w) \/ WriteDecision(w) \/ CollectExecutable(w)
             \/ CollectContext(w) \/ WriteTransition(w)
    BY <1>1, <2>2 DEF WriteSeen, WriteReplaced, WriteDecision, CollectExecutable,
                      CollectContext, WriteTransition
  <2>3. CASE FindNothing(w) \/ WriteQueued(w) \/ Enqueue(w) \/ GiveUp(w)
    BY <1>1, <2>3 DEF FindNothing, WriteQueued, Enqueue, GiveUp
  <2>4. QED
    BY <1>2, <2>1, <2>2, <2>3 DEF Process
<1>3. ASSUME NEW v \in SimWorkers, Simulate(v) PROVE UNCHANGED sender_queues
  BY <1>1, <1>3 DEF Simulate, TakeTask, SettleResult, DropStaleResult, FailResult, Deliver,
                    ApplySimulationResult, RecordStaleSimulationResult, admission_vars
<1>4. QED
  BY <1>2, <1>3

\* Every event the one worker writes brings the replay closer to the queues, or keeps it
\* in step with them.
LEMMA ProcessFollows ==
    ASSUME PipelineTypeOK, Reliable, NEW w \in Workers, Process(w),
           Follows(replica, sender_queues, worker[w])
    PROVE  Follows(replica', sender_queues, worker'[w])
<1>1. PICK st, q, m : st = worker[w] /\ q = sender_queues /\ m = replica
  OBVIOUS
<1>2. /\ worker \in [Workers -> WorkerState] /\ st \in WorkerState
      /\ q \in [Senders -> [Nonces -> Hashes \cup {None}]]
      /\ st.pc # "idle" => st.hash \in Hashes
      /\ st.replaced # None => st.decision = "admitted"
      /\ st.pc \in {"replaced", "invalidate"} => st.replaced \in Hashes /\ st.replaced # None
      /\ Follows(m, q, st)
  BY <1>1 DEF PipelineTypeOK, LocalsOK, WorkerState, TypeOK
<1>3. Idle.pc = "idle"
  BY DEF Idle
<1>4. ASSUME ~Owes(st) PROVE Told(m, q, Senders)
  BY <1>2, <1>4 DEF Follows, QueuesTold
<1>5. ASSUME NEW pc \in Pcs, Goto(w, pc), NEW v, v = worker'[w]
      PROVE  /\ v.pc = pc /\ v.hash = st.hash /\ v.decision = st.decision
             /\ v.replaced = st.replaced /\ v.transitions = st.transitions
  <2>1. worker'[w] = [worker[w] EXCEPT !.pc = pc]
    BY <1>2, <1>5, GotoFacts
  <2>2. QED
    BY <1>1, <1>2, <1>5, <2>1 DEF WorkerState
<1>6. ASSUME Return(w), Told(replica', q, Senders) PROVE Follows(replica', q, worker'[w])
  <2>1. worker'[w] = Idle
    BY <1>2, <1>6, ReturnFacts
  <2>2. QED
    BY <1>3, <1>6, <2>1, QuietFollows
<1>7. PICK n, v : n = replica' /\ v = worker'[w]
  OBVIOUS
<1>8. CASE WriteSeen(w)
  <2>1. n = m /\ st.pc = "seen"
    BY <1>1, <1>7, <1>8 DEF WriteSeen, At
  <2>2. CASE Return(w) /\ st.decision \in {"unfetched", "duplicate"}
    <3>1. Told(m, q, Senders)
      BY <1>4, <2>2 DEF Owes
    <3>2. QED
      BY <1>1, <1>6, <1>7, <2>1, <2>2, <3>1
  <2>3. CASE Goto(w, "replaced") /\ st.replaced # None
    <3>1. /\ v.pc = "replaced" /\ v.hash = st.hash /\ v.decision = st.decision
          /\ v.replaced = st.replaced /\ v.transitions = st.transitions
      BY <1>5, <1>7, <2>3 DEF Pcs
    <3>2. Owes(st) /\ Owes(v) /\ ~Declines(v)
      BY <1>2, <2>1, <2>3, <3>1 DEF Owes, Declines
    <3>3. Follows(m, q, v)
      BY <1>2, <2>1, <3>1, <3>2 DEF Follows, QueuesTold, LocalsTrue
    <3>4. QED
      BY <1>1, <1>7, <2>1, <3>3
  <2>4. CASE Goto(w, "decide") /\ st.replaced = None /\ st.decision \notin {"unfetched", "duplicate"}
    <3>1. /\ v.pc = "decide" /\ v.hash = st.hash /\ v.decision = st.decision
          /\ v.replaced = st.replaced /\ v.transitions = st.transitions
      BY <1>5, <1>7, <2>4 DEF Pcs
    <3>2. (Owes(v) <=> Owes(st)) /\ (Declines(v) <=> Declines(st))
      BY <2>1, <2>4, <3>1 DEF Owes, Declines
    <3>3. QueuesTold(v, q) = QueuesTold(st, q)
      BY <2>1, <2>4, <3>1, <3>2 DEF QueuesTold
    <3>4. LocalsTrue(v, q)
      BY <1>2, <2>1, <3>1, <3>2 DEF Follows, LocalsTrue
    <3>5. Follows(m, q, v)
      BY <1>2, <3>3, <3>4 DEF Follows
    <3>6. QED
      BY <1>1, <1>7, <2>1, <3>5
  <2>5. QED
    BY <1>1, <1>8, <2>2, <2>3, <2>4 DEF WriteSeen
<1>9. CASE WriteReplaced(w)
  <2>1. n = ApplyReplaced(m, st.replaced) /\ st.pc = "replaced" /\ Goto(w, "invalidate")
    BY <1>1, <1>7, <1>9 DEF WriteReplaced, At
  <2>2. /\ v.pc = "invalidate" /\ v.hash = st.hash /\ v.decision = st.decision
        /\ v.replaced = st.replaced /\ v.transitions = st.transitions
    BY <1>5, <1>7, <2>1 DEF Pcs
  <2>3. Owes(st) /\ Owes(v) /\ ~Declines(v)
    BY <1>2, <2>1, <2>2 DEF Owes, Declines
  <2>4. Told(m, WithSlot(q, st.hash, st.replaced), Senders)
    BY <1>2, <2>1, <2>3 DEF Follows, QueuesTold
  <2>5. /\ Tx[st.replaced].sender = Tx[st.hash].sender
        /\ Tx[st.replaced].nonce = Tx[st.hash].nonce
        /\ st.replaced \in Hashes /\ st.hash \in Hashes
    BY <1>2, <2>1, <2>3 DEF Follows, LocalsTrue
  <2>6. Told(n, WithSlot(q, st.hash, None), Senders)
    BY <1>2, <2>1, <2>4, <2>5, ReplacedTold
  <2>7. QueuesTold(v, q) = WithSlot(q, st.hash, None)
    BY <2>2, <2>3 DEF QueuesTold
  <2>8. LocalsTrue(v, q)
    BY <1>2, <2>2, <2>3 DEF Follows, LocalsTrue
  <2>9. QED
    BY <1>1, <1>7, <2>6, <2>7, <2>8 DEF Follows
<1>10. CASE Invalidate(w)
  <2>1. n = m /\ st.pc = "invalidate" /\ Goto(w, "decide")
    BY <1>1, <1>7, <1>10 DEF Invalidate, At, log_vars
  <2>2. /\ v.pc = "decide" /\ v.hash = st.hash /\ v.decision = st.decision
        /\ v.replaced = st.replaced /\ v.transitions = st.transitions
    BY <1>5, <1>7, <2>1 DEF Pcs
  <2>3. Owes(st) /\ Owes(v) /\ ~Declines(v)
    BY <1>2, <2>1, <2>2 DEF Owes, Declines
  <2>4. QueuesTold(v, q) = QueuesTold(st, q)
    BY <2>1, <2>2, <2>3 DEF QueuesTold
  <2>5. LocalsTrue(v, q)
    BY <1>2, <2>2, <2>3 DEF Follows, LocalsTrue
  <2>6. QED
    BY <1>1, <1>2, <1>7, <2>1, <2>4, <2>5 DEF Follows
<1>11. CASE WriteDecision(w)
  <2>1. st.pc = "decide" /\ st.hash \in Hashes
    BY <1>1, <1>2, <1>11 DEF WriteDecision, At
  <2>2. CASE st.decision = "admitted"
    <3>1. n = ApplyDecoded(m, st.hash) /\ Goto(w, "collect")
      BY <1>1, <1>7, <1>11, <2>2 DEF WriteDecision
    <3>2. /\ v.pc = "collect" /\ v.hash = st.hash /\ v.decision = st.decision
          /\ v.replaced = st.replaced /\ v.transitions = st.transitions
      BY <1>5, <1>7, <3>1 DEF Pcs
    <3>3. Owes(st) /\ ~Owes(v) /\ ~Declines(v)
      BY <2>1, <2>2, <3>2 DEF Owes, Declines
    <3>4. Told(m, WithSlot(q, st.hash, None), Senders) /\ SlotOf(q, st.hash) = st.hash
      BY <1>2, <2>1, <3>3 DEF Follows, QueuesTold, LocalsTrue
    <3>5. Told(n, q, Senders)
      BY <1>2, <2>1, <3>1, <3>4, DecodedTold
    <3>6. LocalsTrue(v, q)
      BY <1>2, <3>2, <3>3 DEF Follows, LocalsTrue
    <3>7. QED
      BY <1>1, <1>7, <3>3, <3>5, <3>6 DEF Follows, QueuesTold
  <2>3. CASE st.decision # "admitted"
    <3>1. n = ApplyDropped(m, st.hash) /\ Return(w)
      BY <1>1, <1>7, <1>11, <2>3 DEF WriteDecision
    <3>2. ~Owes(st) /\ Declines(st)
      BY <2>1, <2>3 DEF Owes, Declines
    <3>3. Told(m, q, Senders) /\ SlotOf(q, st.hash) # st.hash
      BY <1>2, <1>4, <3>2 DEF Follows, LocalsTrue
    <3>4. Told(n, q, Senders)
      BY <2>1, <3>1, <3>3, DroppedTold
    <3>5. QED
      BY <1>1, <1>6, <1>7, <3>1, <3>4
  <2>4. QED
    BY <2>2, <2>3
<1>12. CASE CollectExecutable(w) \/ CollectContext(w)
  <2>1. /\ n = m /\ st.pc \in {"collect", "context"}
        /\ v.transitions = st.transitions /\ v.pc \in {"context", "transitions", "register"}
    BY <1>1, <1>2, <1>7, <1>12 DEF CollectExecutable, CollectContext, At, log_vars, WorkerState
  <2>2. ~Owes(st) /\ ~Owes(v) /\ ~Declines(v)
    BY <2>1 DEF Owes, Declines
  <2>3. Told(m, q, Senders)
    BY <1>4, <2>2
  <2>4. LocalsTrue(v, q)
    BY <1>2, <2>1, <2>2 DEF Follows, LocalsTrue
  <2>5. QED
    BY <1>1, <1>7, <2>1, <2>2, <2>3, <2>4 DEF Follows, QueuesTold
<1>13. CASE WriteTransition(w)
  <2>1. PICK t \in st.transitions :
          /\ n = IF t.state = Ready THEN ApplyReady(m, t.hash)
                 ELSE ApplyBlocked(m, t.hash, t.state.expected_nonce)
          /\ worker' = [worker EXCEPT
               ![w].pc = IF st.transitions = {t} THEN "register" ELSE "transitions",
               ![w].transitions = st.transitions \ {t}]
    BY <1>1, <1>7, <1>13 DEF WriteTransition
  <2>2. /\ st.pc = "transitions" /\ v.transitions \subseteq st.transitions
        /\ v.pc \in {"transitions", "register"}
    BY <1>1, <1>2, <1>7, <1>13, <2>1 DEF WriteTransition, At, WorkerState
  <2>3. ~Owes(st) /\ ~Owes(v) /\ ~Declines(v)
    BY <2>2 DEF Owes, Declines
  <2>4. Told(m, q, Senders) /\ \A x \in st.transitions : TransitionTrue(x, q)
    BY <1>2, <1>4, <2>2, <2>3 DEF Follows, LocalsTrue
  <2>5. t \in Transition
    BY <1>2, <2>1 DEF WorkerState
  <2>6. Told(n, q, Senders)
    BY <1>2, <2>1, <2>4, <2>5, TransitionTold
  <2>7. LocalsTrue(v, q)
    BY <2>2, <2>3, <2>4 DEF LocalsTrue
  <2>8. QED
    BY <1>1, <1>7, <2>3, <2>6, <2>7 DEF Follows, QueuesTold
<1>14. CASE Register(w) \/ FindNothing(w) \/ WriteQueued(w) \/ Enqueue(w)
  <2>1. n = m /\ st.pc \in {"register", "queued", "enqueue"}
    BY <1>1, <1>7, <1>14 DEF Register, FindNothing, WriteQueued, Enqueue, At, log_vars
  <2>2. Told(m, q, Senders)
    BY <1>4, <2>1 DEF Owes
  <2>3. v.pc \in {"idle", "register", "queued", "enqueue"}
    <3>1. CASE Register(w)
      BY <1>2, <1>7, <3>1 DEF Register, WorkerState
    <3>2. ASSUME Return(w) PROVE v.pc = "idle"
      BY <1>2, <1>3, <1>7, <3>2, ReturnFacts
    <3>3. CASE FindNothing(w)
      BY <3>2, <3>3 DEF FindNothing
    <3>4. CASE WriteQueued(w)
      <4>1. Goto(w, "enqueue") \/ Return(w)
        BY <3>4 DEF WriteQueued
      <4>2. QED
        BY <1>5, <1>7, <3>2, <4>1 DEF Pcs
    <3>5. CASE Enqueue(w)
      <4>1. ASSUME NEW g, TaskLeaves(w, g) PROVE v.pc \in {"idle", st.pc}
        <5>1. v = IF st.groups = {g} THEN Idle ELSE [st EXCEPT !.groups = st.groups \ {g}]
          BY <1>1, <1>2, <1>7, <4>1 DEF TaskLeaves
        <5>2. QED
          BY <1>2, <1>3, <5>1 DEF WorkerState
      <4>2. QED
        BY <2>1, <3>2, <3>5, <4>1 DEF Enqueue
    <3>6. QED
      BY <1>14, <3>1, <3>3, <3>4, <3>5
  <2>4. QED
    BY <1>1, <1>7, <2>1, <2>2, <2>3, QuietFollows
<1>15. CASE GiveUp(w)
  BY <1>15 DEF GiveUp, Reliable
<1>16. QED
  BY <1>8, <1>9, <1>10, <1>11, <1>12, <1>13, <1>14, <1>15 DEF Process

\* The queue transitions of an admission are true of the queues it leads to.
LEMMA TransitionsTrue ==
    ASSUME TypeOK', QueuesMatchPending', NEW s \in Senders, NEW t \in AdmissionTransitions(s)
    PROVE  TransitionTrue(t, sender_queues')
<1>1. PICK p, q, queue : p = pending' /\ q = sender_queues' /\ queue = q[s]
  OBVIOUS
<1>2. /\ p \in SUBSET Hashes /\ q \in [Senders -> [Nonces -> Hashes \cup {None}]]
      /\ None \notin Hashes
      /\ \A x \in Senders, n \in Nonces : q[x][n] # None =>
           q[x][n] \in p /\ Tx[q[x][n]].sender = x /\ Tx[q[x][n]].nonce = n
      /\ \A h \in p : SlotOf(q, h) = h
  BY <1>1, TransactionAssumption DEF TypeOK, QueuesMatchPending, Incumbent, SlotOf
<1>3. QueueMatches(p, queue, s)
  BY <1>1, <1>2, TxType DEF QueueMatches, SlotOf
<1>4. /\ t.hash \in DOMAIN SenderQueuePositions(p, queue)
      /\ t.state = SenderQueuePositions(p, queue)[t.hash]
  BY <1>1 DEF AdmissionTransitions, QueueTransitions
<1>5. t.hash \in p /\ Tx[t.hash].sender = s
  <2>1. p \in SUBSET Hashes
    BY <1>2
  <2>2. DOMAIN SenderQueuePositions(p, queue) = {h \in p : Tx[h].sender = s}
    BY <1>3, <2>1, PositionsDomain
  <2>3. QED
    BY <1>4, <2>2
<1>6. t.state = QueueEntryState(Occupied(p, queue), Tx[t.hash].nonce)
  BY <1>2, <1>3, <1>4, <1>5, PositionsState
<1>7. Occupied(p, queue) = Filled(q, s)
  BY <1>1, <1>2 DEF Occupied, Filled
<1>8. QED
  BY <1>1, <1>2, <1>5, <1>6, <1>7 DEF TransitionTrue

\* An admission owes the log what it has changed in the queues.
LEMMA ObserveFollows ==
    ASSUME PipelineTypeOK, TypeOK', QueuesMatchPending, QueuesMatchPending', Reliable,
           NEW w \in Workers, Observe(w), Follows(replica, sender_queues, worker[w])
    PROVE  Follows(replica', sender_queues', worker'[w])
<1>1. PICK h \in Hashes :
        ObserveFetched(w, h) \/ ObserveRefused(w, h) \/ ObserveUnfetched(w, h)
  BY DEF Observe, PipelineTypeOK, Deployment
<1>2. /\ worker \in [Workers -> WorkerState] /\ worker[w] = Idle /\ TypeOK
      /\ Idle.pc = "idle" /\ Idle \in WorkerState
  BY <1>1, IdleType DEF PipelineTypeOK, LocalsOK, ObserveFetched, ObserveRefused,
                        ObserveUnfetched, At, Idle
<1>3. PICK m, q, r, v : m = replica /\ q = sender_queues /\ r = sender_queues' /\ v = worker'[w]
  OBVIOUS
<1>4. replica' = m
  BY <1>1, <1>3 DEF ObserveFetched, ObserveRefused, ObserveUnfetched, log_vars
<1>5. /\ Told(m, q, Senders) /\ q \in [Senders -> [Nonces -> Hashes \cup {None}]]
      /\ None \notin Hashes
  BY <1>2, <1>3, TransactionAssumption DEF Follows, QueuesTold, Owes, TypeOK
<1>6. CASE ObserveFetched(w, h)
  <2>1. PICK locals : locals = [Idle EXCEPT
          !.pc = "seen", !.hash = h, !.decision = AdmissionDecision(h),
          !.replaced = IF h \notin pending /\ h \in pending' /\ Incumbent(h) \in pending
                       THEN Incumbent(h) ELSE None,
          !.transitions = AdmissionTransitions(Tx[h].sender)]
    OBVIOUS
  <2>2. worker' = [worker EXCEPT ![w] = locals]
    BY <1>2, <1>6, <2>1 DEF ObserveFetched
  <2>3. /\ v.pc = "seen" /\ v.hash = h /\ v.decision = AdmissionDecision(h)
        /\ v.replaced = IF h \notin pending /\ h \in pending' /\ Incumbent(h) \in pending
                        THEN Incumbent(h) ELSE None
        /\ v.transitions = AdmissionTransitions(Tx[h].sender)
    BY <1>2, <1>3, <2>1, <2>2 DEF Idle
  <2>4. CASE AdmitReplacement(h) \/ AdmitNew(h)
    <3>1. /\ h \notin pending /\ Place(h, Incumbent(h))
          /\ Incumbent(h) \in pending \/ Incumbent(h) = None
      BY <1>2, <2>4, AdmittedIsPlaced
    <3>2. h \in pending' /\ r = WithSlot(q, h, h)
      BY <1>2, <1>3, <3>1 DEF Place, WithSlot, TypeOK
    <3>3. v.decision = "admitted" /\ v.replaced = SlotOf(q, h)
      BY <1>3, <2>3, <3>1, <3>2 DEF AdmissionDecision, Incumbent
    <3>4. Owes(v) /\ ~Declines(v)
      BY <2>3, <3>3 DEF Owes, Declines
    <3>5. QueuesTold(v, r) = q
      <4>1. QueuesTold(v, r) = WithSlot(WithSlot(q, h, h), h, SlotOf(q, h))
        BY <2>3, <3>2, <3>3, <3>4 DEF QueuesTold
      <4>2. WithSlot(WithSlot(q, h, h), h, SlotOf(q, h)) = WithSlot(q, h, SlotOf(q, h))
        BY <1>5, SlotTwice
      <4>3. QED
        BY <1>5, <4>1, <4>2, SlotKept
    <3>6. SlotOf(r, h) = h
      BY <1>5, <3>2, TxType DEF SlotOf, WithSlot
    <3>7. v.replaced # None => /\ Tx[v.replaced].sender = Tx[h].sender
                               /\ Tx[v.replaced].nonce = Tx[h].nonce
      BY <1>3, <3>3, TxType DEF QueuesMatchPending, SlotOf
    <3>8. \A t \in v.transitions : TransitionTrue(t, r)
      BY <1>3, <2>3, TransitionsTrue, TxType
    <3>9. LocalsTrue(v, r)
      BY <2>3, <3>4, <3>6, <3>7, <3>8 DEF LocalsTrue
    <3>10. QED
      BY <1>3, <1>4, <1>5, <3>5, <3>9 DEF Follows
  <2>5. CASE AdmitDuplicate(h) \/ AdmitUnderpriced(h) \/ AdmitOverLimit(h)
    <3>1. pending' = pending /\ r = q
      BY <1>3, <2>5 DEF AdmitDuplicate, AdmitUnderpriced, AdmitOverLimit, admission_vars
    <3>2. v.decision = IF h \in pending THEN "duplicate" ELSE "dropped"
      BY <2>3, <3>1 DEF AdmissionDecision
    <3>3. ~Owes(v) /\ (Declines(v) => h \notin pending)
      BY <2>3, <3>2 DEF Owes, Declines
    <3>4. h \notin pending => SlotOf(q, h) # h
      BY <1>3, <1>5, TxType DEF QueuesMatchPending, SlotOf
    <3>5. LocalsTrue(v, q)
      BY <2>3, <3>3, <3>4 DEF LocalsTrue
    <3>6. QED
      BY <1>3, <1>4, <1>5, <3>1, <3>3, <3>5 DEF Follows, QueuesTold
  <2>6. QED
    BY <1>6, <2>4, <2>5 DEF ObserveFetched, Admit
<1>7. CASE ObserveUnfetched(w, h)
  <2>1. r = q
    BY <1>3, <1>7 DEF ObserveUnfetched, scheduler_vars, admission_vars
  <2>2. v.pc = "seen" /\ v.decision = "unfetched"
    BY <1>2, <1>3, <1>7 DEF ObserveUnfetched, WorkerState
  <2>3. ~Owes(v) /\ ~Declines(v)
    BY <2>2 DEF Owes, Declines
  <2>4. LocalsTrue(v, q)
    BY <2>2, <2>3 DEF LocalsTrue
  <2>5. QED
    BY <1>3, <1>4, <1>5, <2>1, <2>3, <2>4 DEF Follows, QueuesTold
<1>8. CASE ObserveRefused(w, h)
  BY <1>8 DEF ObserveRefused, Reliable
<1>9. QED
  BY <1>1, <1>6, <1>7, <1>8

\* The replay has what the log owes it as soon as the workers are idle.
LEMMA FollowsMatches ==
    ASSUME TypeOK, QueuesMatchPending, Told(replica, sender_queues, Senders)
    PROVE  PendingHashes(replica) = pending /\ SenderQueuesView(replica) = OnlineQueues
<1>1. PICK m, q : m = replica /\ q = sender_queues
  OBVIOUS
<1>2. /\ q \in [Senders -> [Nonces -> Hashes \cup {None}]] /\ None \notin Hashes
      /\ pending \subseteq Hashes /\ m.sender_queues = q
      /\ \A x \in Senders, n \in Nonces : q[x][n] # None =>
           q[x][n] \in pending /\ Tx[q[x][n]].sender = x /\ Tx[q[x][n]].nonce = n
      /\ \A h \in pending : SlotOf(q, h) = h
      /\ PendingTold(m, q) /\ StatesTold(m, q, Senders)
  BY <1>1, TransactionAssumption DEF TypeOK, QueuesMatchPending, Incumbent, Told, SlotOf
<1>3. \A x \in Hashes : IsPending(m, x) <=> x \in pending
  <2> SUFFICES ASSUME NEW x \in Hashes PROVE IsPending(m, x) <=> x \in pending
    OBVIOUS
  <2>1. SlotOf(q, x) = x => x \in pending
    BY <1>2, TxType DEF SlotOf
  <2>2. QED
    BY <1>2, <2>1 DEF PendingTold
<1>4. PendingHashes(m) = pending
  BY <1>2, <1>3 DEF PendingHashes
<1>5. ASSUME NEW s \in Senders
      PROVE  /\ PendingNonces(m, s) = Filled(q, s) /\ Occupied(pending, q[s]) = Filled(q, s)
  BY <1>2, <1>3 DEF PendingNonces, Filled, Occupied
<1> DEFINE viewed(s, n) ==
             IF n \notin PendingNonces(m, s) THEN None
             ELSE [hash |-> m.sender_queues[s][n],
                   state |-> IF m.txs[m.sender_queues[s][n]].queue_state # None
                             THEN m.txs[m.sender_queues[s][n]].queue_state
                             ELSE QueueEntryState(PendingNonces(m, s), n)]
           online(s, n) ==
             IF n \in Occupied(pending, q[s])
             THEN [hash |-> q[s][n], state |-> QueueEntryState(Occupied(pending, q[s]), n)]
             ELSE None
<1>6. ASSUME NEW s \in Senders, NEW n \in Nonces PROVE viewed(s, n) = online(s, n)
  <2>1. CASE n \notin Filled(q, s)
    BY <1>5, <2>1
  <2>2. CASE n \in Filled(q, s)
    <3>1. PICK h \in Hashes : h = q[s][n]
      BY <1>2, <2>2 DEF Filled
    <3>2. Tx[h].sender = s /\ Tx[h].nonce = n /\ IsPending(m, h)
      BY <1>2, <1>3, <3>1
    <3>3. m.txs[h].queue_state = QueueEntryState(Filled(q, s), n)
      BY <1>2, <3>2 DEF StatesTold
    <3>4. QED
      BY <1>2, <1>5, <2>2, <3>1, <3>3
  <2>3. QED
    BY <2>1, <2>2
<1>7. /\ SenderQueuesView(m) = [s \in Senders |-> [n \in Nonces |-> viewed(s, n)]]
      /\ OnlineQueues = [s \in Senders |-> [n \in Nonces |-> online(s, n)]]
  BY <1>1 DEF SenderQueuesView, OnlineQueues
<1> HIDE DEF viewed, online
<1>8. QED
  BY <1>1, <1>4, <1>6, <1>7

FollowAll == OthersIdle /\ FollowInv

\* Where one worker runs and nothing is refused, replaying the log gives exactly the
\* scheduler's pool whenever no transaction is being processed, for any set of
\* transactions, senders and nonces: the live state and the replay, two
\* implementations of the queues, cannot drift apart.
THEOREM ReplayIsExact == PipelineSpec => []ReplayMatchesOnline
<1>1. PipelineInit => FollowAll
  <2> SUFFICES ASSUME PipelineInit PROVE FollowAll
    OBVIOUS
  <2>1. \A w \in Workers : worker[w] = Idle
    BY DEF PipelineInit
  <2>2. PICK m, q : m = replica /\ q = sender_queues /\ q = NoQueues /\ m = EmptyMempool
    BY DEF PipelineInit, Init
  <2>3. /\ q \in [Senders -> [Nonces -> Hashes \cup {None}]]
        /\ \A s \in Senders, n \in Nonces : q[s][n] = None
        /\ m.txs = [h \in Hashes |-> None] /\ m.sender_queues = q /\ m \in MempoolState
    BY <2>2 DEF NoQueues, EmptyMempool, MempoolState
  <2>4. \A x \in Hashes : ~IsPending(m, x) /\ SlotOf(q, x) # x
    BY <2>3, TxType, TransactionAssumption DEF IsPending, SlotOf
  <2>5. Told(m, q, Senders)
    BY <2>3, <2>4 DEF Told, Ordered, PendingTold, StatesTold
  <2>6. Idle.pc = "idle"
    BY DEF Idle
  <2>7. Follows(m, q, Idle)
    BY <2>5, <2>6, QuietFollows
  <2>8. deployment.workers \subseteq Workers
    BY PipelineAssumption DEF PipelineInit, Deployment
  <2>9. QED
    BY <2>1, <2>2, <2>7, <2>8 DEF FollowAll, OthersIdle, FollowInv
<1>2. ASSUME PipelineTypeOK, TypeOK', QueuesMatchPending, QueuesMatchPending', FollowAll,
             [PipelineNext]_pipeline_vars
      PROVE  FollowAll'
  <2>1. CASE UNCHANGED pipeline_vars
    <3>1. UNCHANGED <<deployment, worker, sender_queues, replica>>
      BY <2>1 DEF pipeline_vars, scheduler_vars, admission_vars, log_vars
    <3>2. QED
      BY <1>2, <3>1 DEF FollowAll, OthersIdle, FollowInv, Reliable, OneWorker, StorageMayFill,
                        SchedulerMayRefuse
  <2>2. CASE PipelineNext
    <3>1. /\ deployment.workers \subseteq Workers /\ deployment.sim_workers \subseteq SimWorkers
          /\ deployment' = deployment
      BY <1>2, <2>2 DEF PipelineTypeOK, Deployment, PipelineNext
    <3>2. Reliable' = Reliable /\ OneWorker' = OneWorker
      BY <3>1 DEF Reliable, OneWorker, StorageMayFill, SchedulerMayRefuse
    <3>3. CASE \E w \in deployment.workers : Observe(w) \/ Process(w)
      <4>1. PICK w \in deployment.workers : Observe(w) \/ Process(w)
        BY <3>3
      <4>2. OthersIdle'
        BY <1>2, <3>1, <4>1, OthersStay DEF FollowAll, OthersIdle
      <4>3. ASSUME Reliable, OneWorker
            PROVE  \A u \in deployment.workers : Follows(replica', sender_queues', worker'[u])
        <5>1. deployment.workers = {w} /\ w \in Workers
          BY <3>1, <4>1, <4>3 DEF OneWorker
        <5>2. Follows(replica, sender_queues, worker[w])
          BY <1>2, <4>1, <4>3 DEF FollowAll, FollowInv
        <5>3. CASE Observe(w)
          BY <1>2, <4>3, <5>1, <5>2, <5>3, ObserveFollows
        <5>4. CASE Process(w)
          BY <1>2, <4>3, <5>1, <5>2, <5>4, ProcessFollows, QueuesStay
        <5>5. QED
          BY <4>1, <5>3, <5>4
      <4>4. FollowInv'
        BY <3>1, <3>2, <4>3 DEF FollowInv
      <4>5. QED
        BY <4>2, <4>4 DEF FollowAll
    <3>4. CASE \E v \in deployment.sim_workers : Simulate(v)
      <4>1. PICK v \in SimWorkers : Simulate(v)
        BY <3>1, <3>4
      <4>2. worker' = worker /\ replica' = replica
        BY <4>1 DEF Simulate, TakeTask, SettleResult, DropStaleResult, FailResult, Deliver,
                    log_vars
      <4>3. sender_queues' = sender_queues
        BY <4>1, QueuesStay
      <4>4. QED
        BY <1>2, <3>1, <3>2, <4>2, <4>3 DEF FollowAll, OthersIdle, FollowInv
    <3>5. QED
      BY <2>2, <3>3, <3>4 DEF PipelineNext
  <2>3. QED
    BY <1>2, <2>1, <2>2
<1>3. ASSUME PipelineTypeOK, QueuesMatchPending, FollowAll
      PROVE  ReplayMatchesOnline
  <2> SUFFICES ASSUME Reliable, OneWorker, WorkersIdle
               PROVE  PendingHashes(replica) = pending /\ SenderQueuesView(replica) = OnlineQueues
    BY DEF ReplayMatchesOnline
  <2>1. PICK w \in Workers : deployment.workers = {w}
    BY DEF OneWorker
  <2>2. Follows(replica, sender_queues, worker[w]) /\ worker[w].pc = "idle"
    BY <1>3, <2>1 DEF FollowAll, FollowInv, WorkersIdle, At
  <2>3. Told(replica, sender_queues, Senders)
    BY <2>2 DEF Follows, QueuesTold, Owes
  <2>4. QED
    BY <1>3, <2>3, FollowsMatches DEF PipelineTypeOK
<1>4. PipelineTypeOK => TypeOK
  BY DEF PipelineTypeOK
<1>5. QED
  BY <1>1, <1>2, <1>3, <1>4, PipelineTypeCorrect, PipelineRunsScheduler, IndexesAgree, PTL
     DEF PipelineSpec

----------------------------------------------------------------------------
(* Every candidate is settled *)

\* A task is for a candidate that a searcher may register, and for the current head.
TasksNamed ==
    \A t \in tasks :
        /\ t.block_number = head_block_number
        /\ \E c \in CandidateSpecs :
             /\ c.candidate_id = t.candidate_id
             /\ c.tx_hash = t.tx_hash
             /\ t.member_tx_hashes = MembersOf(c)

\* The scheduler accepts the result of a task until it is done with it.
CurrentAccepted == \A t \in tasks \ superseded : AcceptsResult(t)

\* The log has a candidate under its own transaction.
LifecycleNamed ==
    \A c \in CandidateSpecs :
        lifecycle[c.candidate_id].queued => lifecycle[c.candidate_id].tx_hash = c.tx_hash

\* What a worker is going to invalidate was replaced, and it has tasks only after it
\* registered them.
LocalsLate ==
    \A w \in Workers :
        /\ worker[w].replaced # None => worker[w].replaced \in retired
        /\ worker[w].groups # {} => worker[w].pc \in {"queued", "enqueue"}

\* Somebody still has the task.
Underway(t) ==
    \/ \E w \in Workers : \E g \in worker[w].groups : t \in g
    \/ \E i \in 1..Len(sim_queue) : t \in sim_queue[i]
    \/ \E v \in SimWorkers : sim[v] # None /\ t \in sim[v].todo

TasksUnderway == \A t \in tasks \ (superseded \cup shed) : Underway(t)
SupersededConcluded == \A t \in superseded : Concluded(t)

SettleInv ==
    /\ TasksNamed /\ CurrentAccepted /\ LifecycleNamed /\ LocalsLate
    /\ Reliable => TasksUnderway /\ SupersededConcluded

\* A candidate has a transaction at least.
LEMMA SomeMember ==
    ASSUME NEW c
    PROVE  MembersOf(c) # {}
BY DEF MembersOf, NormalizedMemberHashes

\* A new task is the one whose result the scheduler waits for.
LEMMA RegisterKeepsCurrent ==
    ASSUME TypeOK, TasksNamed, CurrentAccepted, NEW batch \in RegistrationBatches,
           RegisterCandidates(batch)
    PROVE  TasksNamed' /\ CurrentAccepted'
<1> DEFINE ids == {c.candidate_id : c \in batch}
           specOf(id) == CHOOSE c \in batch : c.candidate_id = id
           entry(id) == [tx_hash |-> specOf(id).tx_hash,
                         member_tx_hashes |-> specOf(id).member_tx_hashes,
                         block_number |-> head_block_number,
                         generation |-> NextGeneration(id)]
<1>1. /\ \A id \in CandidateIds :
           candidates'[id] = IF id \in ids THEN entry(id) ELSE candidates[id]
      /\ tasks' = tasks \cup {TaskFor(c) : c \in batch}
      /\ superseded' = superseded \cup {t \in tasks : t.candidate_id \in ids}
      /\ head_block_number' = head_block_number
  BY DEF RegisterCandidates
<1>2. /\ batch \subseteq CandidateSpecs /\ CandidateSpecs \subseteq CandidateSpec
      /\ \A c, d \in batch : c.candidate_id = d.candidate_id => c = d
  BY SchedulerAssumption DEF RegistrationBatches
<1>3. ASSUME NEW c \in batch, NEW t, t = TaskFor(c)
      PROVE  /\ t.candidate_id = c.candidate_id /\ t.tx_hash = c.tx_hash
             /\ t.member_tx_hashes = MembersOf(c) /\ t.block_number = head_block_number
             /\ t.generation = NextGeneration(c.candidate_id)
             /\ MembersOf(t) = MembersOf(c)
  <2>1. /\ t.candidate_id = c.candidate_id /\ t.tx_hash = c.tx_hash
        /\ t.member_tx_hashes = MembersOf(c) /\ t.block_number = head_block_number
        /\ t.generation = NextGeneration(c.candidate_id)
    BY <1>3 DEF TaskFor
  <2>2. MembersOf(t) = MembersOf(c)
    BY <2>1 DEF MembersOf, NormalizedMemberHashes
  <2>3. QED
    BY <2>1, <2>2
<1>4. TasksNamed'
  <2> SUFFICES ASSUME NEW t \in tasks'
               PROVE  /\ t.block_number = head_block_number
                      /\ \E c \in CandidateSpecs :
                           c.candidate_id = t.candidate_id /\ c.tx_hash = t.tx_hash
                           /\ t.member_tx_hashes = MembersOf(c)
    BY <1>1 DEF TasksNamed
  <2>1. CASE t \in tasks
    BY <2>1 DEF TasksNamed
  <2>2. ASSUME NEW c \in batch, t = TaskFor(c)
        PROVE  /\ t.block_number = head_block_number
               /\ c \in CandidateSpecs /\ c.candidate_id = t.candidate_id
               /\ c.tx_hash = t.tx_hash /\ t.member_tx_hashes = MembersOf(c)
    BY <1>2, <1>3, <2>2
  <2>3. QED
    BY <1>1, <2>1, <2>2
<1>5. ASSUME NEW c \in batch PROVE specOf(c.candidate_id) = c /\ c.candidate_id \in CandidateIds
  BY <1>2 DEF CandidateSpec
<1> HIDE DEF specOf
<1>6. ASSUME NEW t \in tasks' \ superseded' PROVE AcceptsResult(t)'
  <2>1. CASE t \in tasks
    <3>1. t \in tasks \ superseded /\ t.candidate_id \notin ids /\ t.candidate_id \in CandidateIds
      BY <1>1, <1>6, <2>1 DEF TypeOK, SimulationTaskSpec
    <3>2. candidates'[t.candidate_id] = candidates[t.candidate_id] /\ AcceptsResult(t)
      BY <1>1, <3>1 DEF CurrentAccepted
    <3>3. QED
      BY <1>1, <3>2 DEF AcceptsResult
  <2>2. ASSUME NEW c \in batch, t = TaskFor(c) PROVE AcceptsResult(t)'
    <3>1. PICK e : e = candidates'[c.candidate_id]
      OBVIOUS
    <3>2. /\ e = entry(c.candidate_id) /\ specOf(c.candidate_id) = c
          /\ c.candidate_id \in CandidateIds
      BY <1>1, <1>5, <3>1
    <3>3. /\ e.tx_hash = c.tx_hash /\ e.member_tx_hashes = c.member_tx_hashes
          /\ e.block_number = head_block_number
          /\ e.generation = NextGeneration(c.candidate_id)
      BY <3>2
    <3>4. e # None
      <4>1. TypeOK'
        BY RegisterTypeOK
      <4>2. e \in CandidateEntry
        <5>1. /\ c \in CandidateSpec /\ head_block_number \in Blocks
              /\ NextGeneration(c.candidate_id) \in 0..MaxGeneration
          BY <1>2, <3>2, NextGenerationType, SchedulerAssumption DEF TypeOK, RegisterCandidates
        <5>2. QED
          BY <3>2, <5>1 DEF CandidateEntry, CandidateSpec
      <4>3. QED
        BY <4>2, SchedulerAssumption
    <3>5. MembersOf(e) = MembersOf(c)
      BY <3>3 DEF MembersOf
    <3>6. /\ t.candidate_id = c.candidate_id /\ t.tx_hash = c.tx_hash
          /\ t.block_number = head_block_number
          /\ t.generation = NextGeneration(c.candidate_id)
          /\ MembersOf(t) = MembersOf(c)
      BY <1>3, <2>2
    <3>7. QED
      BY <1>1, <3>1, <3>3, <3>4, <3>5, <3>6 DEF AcceptsResult
  <2>3. QED
    BY <1>1, <2>1, <2>2
<1>7. QED
  BY <1>4, <1>6 DEF CurrentAccepted

\* Two tasks whose result the scheduler accepts for the same candidate are the same.
LEMMA AcceptedOnce ==
    ASSUME TypeOK, TasksNamed, NEW t \in tasks, NEW u \in tasks,
           t.candidate_id = u.candidate_id, AcceptsResult(t), AcceptsResult(u)
    PROVE  t = u
<1>1. t \in SimulationTaskSpec /\ u \in SimulationTaskSpec
  BY DEF TypeOK
<1>2. /\ t.tx_hash = u.tx_hash /\ t.block_number = u.block_number
      /\ t.generation = u.generation /\ MembersOf(t) = MembersOf(u)
  BY DEF AcceptsResult
<1>3. ASSUME NEW x \in tasks PROVE MembersOf(x) = x.member_tx_hashes
  <2>1. PICK c : x.member_tx_hashes = MembersOf(c)
    BY DEF TasksNamed
  <2>2. x.member_tx_hashes # {}
    BY <2>1, SomeMember
  <2>3. QED
    BY <2>2 DEF MembersOf, NormalizedMemberHashes
<1>4. t.member_tx_hashes = u.member_tx_hashes
  BY <1>2, <1>3
<1>5. QED
  BY <1>1, <1>2, <1>4 DEF SimulationTaskSpec

\* The scheduler is done with a task no sooner than it stops to accept its result.
LEMMA SchedulerKeepsCurrent ==
    ASSUME TypeOK, TasksNamed, CurrentAccepted, [Next]_vars,
           head_block_number' = head_block_number
    PROVE  TasksNamed' /\ CurrentAccepted'
<1>1. CASE \E batch \in RegistrationBatches : RegisterCandidates(batch)
  BY <1>1, RegisterKeepsCurrent
<1>2. ASSUME NEW t \in tasks, ApplySimulationResult(t) PROVE TasksNamed' /\ CurrentAccepted'
  <2>1. /\ AcceptsResult(t) /\ tasks' = tasks /\ superseded' = superseded \cup {t}
        /\ candidates' = [candidates EXCEPT ![t.candidate_id].generation = @ + 1]
    BY <1>2 DEF ApplySimulationResult
  <2>2. TasksNamed'
    BY <2>1 DEF TasksNamed
  <2>3. ASSUME NEW u \in tasks \ superseded, u # t PROVE AcceptsResult(u)'
    <3>1. AcceptsResult(u)
      BY <2>3 DEF CurrentAccepted
    <3>2. u.candidate_id # t.candidate_id
      BY <2>1, <2>3, <3>1, AcceptedOnce
    <3>3. u.candidate_id \in CandidateIds
      BY <2>3 DEF TypeOK, SimulationTaskSpec
    <3>4. candidates'[u.candidate_id] = candidates[u.candidate_id]
      BY <2>1, <3>2, <3>3 DEF TypeOK
    <3>5. QED
      BY <3>1, <3>4 DEF AcceptsResult
  <2>4. QED
    BY <2>1, <2>2, <2>3 DEF CurrentAccepted
<1>3. ASSUME NEW hash \in Hashes, InvalidateCandidateHash(hash)
      PROVE  TasksNamed' /\ CurrentAccepted'
  <2> DEFINE hit(id) == candidates[id] # None /\ Touches(candidates[id], hash)
  <2>1. /\ tasks' = tasks /\ superseded' = superseded \cup {t \in tasks : Touches(t, hash)}
        /\ \A id \in CandidateIds : ~hit(id) => candidates'[id] = candidates[id]
    BY <1>3 DEF InvalidateCandidateHash
  <2>2. TasksNamed'
    BY <2>1 DEF TasksNamed
  <2>3. ASSUME NEW u \in tasks \ superseded, ~Touches(u, hash) PROVE AcceptsResult(u)'
    <3>1. AcceptsResult(u) /\ u.candidate_id \in CandidateIds
      BY <2>3 DEF CurrentAccepted, TypeOK, SimulationTaskSpec
    <3>2. ~hit(u.candidate_id)
      BY <2>3, <3>1 DEF AcceptsResult, Touches
    <3>3. candidates'[u.candidate_id] = candidates[u.candidate_id]
      BY <2>1, <3>1, <3>2
    <3>4. QED
      BY <3>1, <3>3 DEF AcceptsResult
  <2>4. QED
    BY <2>1, <2>2, <2>3 DEF CurrentAccepted
<1>4. CASE UNCHANGED candidate_vars
  BY <1>4 DEF candidate_vars, TasksNamed, CurrentAccepted, AcceptsResult
<1>5. QED
  BY <1>1, <1>2, <1>3, <1>4
     DEF Next, vars, Admit, AdmitDuplicate, AdmitReplacement, AdmitUnderpriced,
         AdmitOverLimit, AdmitNew, RecordStaleSimulationResult, AdvanceHead

\* The events of tasks name the transaction of each candidate, and change no simulation
\* status.
LEMMA TaskEvents ==
    ASSUME PipelineTypeOK, TasksNamed, LifecycleNamed, NEW specs \in SUBSET tasks,
           \/ ApplyCandidateQueued(specs)
           \/ ApplySimDispatched(specs)
           \/ ApplyAssemblyDecisions(specs)
    PROVE  /\ LifecycleNamed'
           /\ \A id \in CandidateIds :
                lifecycle[id].simulation_status # None => lifecycle'[id].simulation_status # None
<1>1. /\ lifecycle \in [CandidateIds -> CandidateLifecycleEntry]
      /\ specs \in SUBSET SimulationTaskSpec
  BY DEF PipelineTypeOK, TypeOK
<1>2. ASSUME NEW id \in CandidateIds
      PROVE  lifecycle'[id].simulation_status = lifecycle[id].simulation_status
  BY <1>1, <1>2, QueuedEntry, DispatchedEntry, AssemblyEntry
<1>3. ASSUME NEW id \in CandidateIds
      PROVE  \/ lifecycle'[id] = lifecycle[id]
             \/ \E t \in specs : t.candidate_id = id /\ lifecycle'[id].tx_hash = t.tx_hash
  <2> DEFINE spec == CHOOSE t \in specs : t.candidate_id = id
  <2>1. CASE Named(specs, id)
    <3>1. spec \in specs /\ spec.candidate_id = id
      BY <2>1 DEF Named
    <3>2. \/ lifecycle'[id] = [lifecycle[id] EXCEPT !.tx_hash = spec.tx_hash, !.queued = TRUE]
          \/ lifecycle'[id] = [lifecycle[id] EXCEPT !.tx_hash = spec.tx_hash,
                                                    !.simulation_block_number = spec.block_number]
          \/ lifecycle'[id] = [lifecycle[id] EXCEPT !.tx_hash = spec.tx_hash,
                                                    !.assembly_status = "decided"]
      BY <1>1, <2>1 DEF Named, ApplyCandidateQueued, ApplySimDispatched, ApplyAssemblyDecisions
    <3> HIDE DEF spec
    <3>3. lifecycle'[id].tx_hash = spec.tx_hash
      BY <1>1, <3>2 DEF CandidateLifecycleEntry
    <3>4. QED
      BY <3>1, <3>3
  <2>2. CASE ~Named(specs, id)
    BY <2>2 DEF Named, ApplyCandidateQueued, ApplySimDispatched, ApplyAssemblyDecisions
  <2>3. QED
    BY <2>1, <2>2
<1>4. LifecycleNamed'
  <2> SUFFICES ASSUME NEW c \in CandidateSpecs, lifecycle'[c.candidate_id].queued
               PROVE  lifecycle'[c.candidate_id].tx_hash = c.tx_hash
    BY DEF LifecycleNamed
  <2>1. c.candidate_id \in CandidateIds
    BY SchedulerAssumption DEF CandidateSpec
  <2>2. CASE lifecycle'[c.candidate_id] = lifecycle[c.candidate_id]
    BY <2>2 DEF LifecycleNamed
  <2>3. ASSUME NEW t \in specs, t.candidate_id = c.candidate_id,
               lifecycle'[c.candidate_id].tx_hash = t.tx_hash
        PROVE  lifecycle'[c.candidate_id].tx_hash = c.tx_hash
    <3>1. PICK d \in CandidateSpecs : d.candidate_id = t.candidate_id /\ d.tx_hash = t.tx_hash
      BY DEF TasksNamed
    <3>2. QED
      BY <2>3, <3>1, PipelineAssumption
  <2>4. QED
    BY <1>3, <2>1, <2>2, <2>3
<1>5. QED
  BY <1>2, <1>4

\* SimCompleted gives a status to every candidate of its transaction that the log knows.
LEMMA CompletedNamed ==
    ASSUME PipelineTypeOK, LifecycleNamed, NEW hash, NEW status \in {"ok", "failed"},
           ApplySimCompleted(hash, status)
    PROVE  /\ LifecycleNamed'
           /\ \A id \in CandidateIds :
                /\ lifecycle[id].simulation_status # None => lifecycle'[id].simulation_status # None
                /\ lifecycle[id].tx_hash = hash => lifecycle'[id].simulation_status # None
<1>1. lifecycle \in [CandidateIds -> CandidateLifecycleEntry]
  BY DEF PipelineTypeOK
<1>2. ASSUME NEW id \in CandidateIds
      PROVE  /\ lifecycle'[id].queued = lifecycle[id].queued
             /\ lifecycle'[id].tx_hash = lifecycle[id].tx_hash
             /\ lifecycle[id].tx_hash # hash => lifecycle'[id] = lifecycle[id]
             /\ lifecycle[id].tx_hash = hash => lifecycle'[id].simulation_status = status
  <2>1. lifecycle[id].tx_hash = hash =>
          lifecycle'[id] = [lifecycle[id] EXCEPT !.simulation_status = status]
    BY <1>1 DEF ApplySimCompleted
  <2>2. lifecycle[id].tx_hash = hash => lifecycle'[id].simulation_status = status
    BY <1>1, <2>1 DEF CandidateLifecycleEntry
  <2>3. QED
    BY <1>1, <2>2, CompletedEntry
<1>3. LifecycleNamed'
  BY <1>2, SchedulerAssumption DEF LifecycleNamed, CandidateSpec
<1>4. status # None
  BY PipelineAssumption
<1>5. QED
  BY <1>2, <1>3, <1>4

\* No step takes a simulation status back, or names a candidate after another
\* transaction.
LEMMA LogStaysNamed ==
    ASSUME PipelineTypeOK, TasksNamed, LifecycleNamed,
           \/ \E w \in Workers : Observe(w) \/ Process(w)
           \/ \E v \in SimWorkers : Simulate(v)
    PROVE  /\ LifecycleNamed'
           /\ \A id \in CandidateIds :
                lifecycle[id].simulation_status # None => lifecycle'[id].simulation_status # None
<1> DEFINE Goal == /\ LifecycleNamed'
                   /\ \A id \in CandidateIds : lifecycle[id].simulation_status # None =>
                                               lifecycle'[id].simulation_status # None
<1>1. CASE UNCHANGED lifecycle
  BY <1>1 DEF LifecycleNamed
<1>2. ASSUME NEW w \in Workers, Observe(w) \/ Process(w) PROVE Goal
  <2>1. CASE WriteQueued(w)
    <3>1. PICK written \in SUBSET UNION worker[w].groups : ApplyCandidateQueued(written)
      BY <2>1 DEF WriteQueued
    <3>2. written \in SUBSET tasks
      BY <3>1 DEF PipelineTypeOK, TasksKnown
    <3>3. QED
      BY <3>1, <3>2, TaskEvents
  <2>2. CASE Enqueue(w)
    <3>1. PICK g \in worker[w].groups :
            UNCHANGED lifecycle \/ \E written \in SUBSET g : ApplySimDispatched(written)
      BY <2>2 DEF Enqueue
    <3>2. ASSUME NEW written \in SUBSET g, ApplySimDispatched(written) PROVE Goal
      <4>1. written \in SUBSET tasks
        BY <3>1, <3>2 DEF PipelineTypeOK, TasksKnown
      <4>2. QED
        BY <3>2, <4>1, TaskEvents
    <3>3. QED
      BY <1>1, <3>1, <3>2
  <2>3. CASE Observe(w)
    BY <1>1, <2>3 DEF Observe, ObserveFetched, ObserveRefused, ObserveUnfetched, log_vars
  <2>4. CASE WriteSeen(w) \/ WriteReplaced(w) \/ Invalidate(w) \/ WriteDecision(w)
             \/ FindNothing(w) \/ GiveUp(w)
    BY <1>1, <2>4 DEF WriteSeen, WriteReplaced, Invalidate, WriteDecision, FindNothing, GiveUp,
                      log_vars
  <2>5. CASE CollectExecutable(w) \/ CollectContext(w) \/ WriteTransition(w) \/ Register(w)
    BY <1>1, <2>5 DEF CollectExecutable, CollectContext, WriteTransition, Register, log_vars
  <2>6. QED
    BY <1>2, <2>1, <2>2, <2>3, <2>4, <2>5 DEF Process
<1>3. ASSUME NEW v \in SimWorkers, Simulate(v) PROVE Goal
  <2>1. CASE sim[v] # None /\ Deliver(v)
    <3>1. PICK written \in SUBSET sim[v].accepted : ApplyAssemblyDecisions(written)
      BY <2>1 DEF Deliver
    <3>2. written \in SUBSET tasks
      BY <2>1, <3>1 DEF PipelineTypeOK, TasksKnown
    <3>3. QED
      BY <3>1, <3>2, TaskEvents
  <2>2. CASE SettleResult(v)
    <3>1. PICK t \in sim[v].todo :
            \/ UNCHANGED lifecycle
            \/ ApplySimCompleted(t.tx_hash, SimulationStatus(sim[v].approved))
      BY <2>2 DEF SettleResult
    <3>2. PICK hash, status : hash = t.tx_hash /\ status = SimulationStatus(sim[v].approved)
      OBVIOUS
    <3>3. status \in {"ok", "failed"}
      BY <3>2 DEF SimulationStatus
    <3>4. QED
      BY <1>1, <3>1, <3>2, <3>3, CompletedNamed
  <2>3. CASE TakeTask(v) \/ DropStaleResult(v) \/ FailResult(v)
    BY <1>1, <2>3 DEF TakeTask, DropStaleResult, FailResult, log_vars
  <2>4. QED
    BY <1>3, <2>1, <2>2, <2>3 DEF Simulate
<1>4. QED
  BY <1>2, <1>3

\* What was replaced and what is superseded is never forgotten.
LEMMA HistoryGrows ==
    ASSUME [Next]_vars
    PROVE  retired \subseteq retired' /\ superseded \subseteq superseded'
BY DEF Next, Admit, AdmitDuplicate, AdmitReplacement, AdmitUnderpriced, AdmitOverLimit, AdmitNew,
       RegisterCandidates, ApplySimulationResult, RecordStaleSimulationResult,
       InvalidateCandidateHash, AdvanceHead, vars, candidate_vars, admission_vars

\* The pipeline leaves the head to the chain workers.
LEMMA HeadStays ==
    ASSUME \/ \E w \in Workers : Observe(w) \/ Process(w)
           \/ \E v \in SimWorkers : Simulate(v)
    PROVE  head_block_number' = head_block_number
<1>1. UNCHANGED scheduler_vars => UNCHANGED head_block_number
  BY DEF scheduler_vars
<1>2. ASSUME NEW w \in Workers, Observe(w) PROVE UNCHANGED head_block_number
  BY <1>1, <1>2 DEF Observe, ObserveFetched, ObserveRefused, ObserveUnfetched, Admit,
     AdmitDuplicate, AdmitReplacement, AdmitUnderpriced, AdmitOverLimit, AdmitNew
<1>3. ASSUME NEW w \in Workers, Process(w) PROVE UNCHANGED head_block_number
  <2>1. CASE Invalidate(w) \/ Register(w)
    BY <2>1 DEF Invalidate, Register, InvalidateCandidateHash, RegisterCandidates
  <2>2. CASE WriteSeen(w) \/ WriteReplaced(w) \/ WriteDecision(w) \/ CollectExecutable(w)
             \/ CollectContext(w) \/ WriteTransition(w)
    BY <1>1, <2>2 DEF WriteSeen, WriteReplaced, WriteDecision, CollectExecutable,
                      CollectContext, WriteTransition
  <2>3. CASE FindNothing(w) \/ WriteQueued(w) \/ Enqueue(w) \/ GiveUp(w)
    BY <1>1, <2>3 DEF FindNothing, WriteQueued, Enqueue, GiveUp
  <2>4. QED
    BY <1>3, <2>1, <2>2, <2>3 DEF Process
<1>4. ASSUME NEW v \in SimWorkers, Simulate(v) PROVE UNCHANGED head_block_number
  BY <1>1, <1>4 DEF Simulate, TakeTask, SettleResult, DropStaleResult, FailResult, Deliver,
                    ApplySimulationResult, RecordStaleSimulationResult
<1>5. QED
  BY <1>2, <1>3, <1>4

\* A worker at "enqueue" whose task leaves has the others left.
LEMMA GroupsLeft ==
    ASSUME worker \in [Workers -> WorkerState], NEW w \in Workers, NEW g, TaskLeaves(w, g)
    PROVE  /\ \A x \in worker[w].groups : x # g => x \in worker'[w].groups
           /\ worker'[w] = Idle \/ /\ worker'[w].pc = worker[w].pc
                                   /\ worker'[w].replaced = worker[w].replaced
<1>1. worker'[w] = IF worker[w].groups = {g} THEN Idle
                   ELSE [worker[w] EXCEPT !.groups = worker[w].groups \ {g}]
  BY DEF TaskLeaves
<1>2. worker[w] \in WorkerState
  OBVIOUS
<1>3. CASE worker[w].groups = {g}
  BY <1>1, <1>3
<1>4. CASE worker[w].groups # {g}
  <2>1. /\ worker'[w].groups = worker[w].groups \ {g} /\ worker'[w].pc = worker[w].pc
        /\ worker'[w].replaced = worker[w].replaced
    BY <1>1, <1>2, <1>4 DEF WorkerState
  <2>2. QED
    BY <2>1
<1>5. QED
  BY <1>3, <1>4

\* A worker that does not enqueue keeps its tasks, unless it gives up.
LEMMA GroupsStay ==
    ASSUME PipelineTypeOK, LocalsLate, NEW w \in Workers, Process(w), ~Enqueue(w)
    PROVE  /\ Reliable => worker[w].groups \subseteq worker'[w].groups
           /\ \/ worker'[w] = Idle
              \/ /\ worker'[w].replaced = worker[w].replaced
                 /\ worker'[w].groups = {} \/ worker'[w].pc \in {"queued", "enqueue"}
<1> DEFINE Goal == /\ Reliable => worker[w].groups \subseteq worker'[w].groups
                   /\ \/ worker'[w] = Idle
                      \/ /\ worker'[w].replaced = worker[w].replaced
                         /\ worker'[w].groups = {} \/ worker'[w].pc \in {"queued", "enqueue"}
<1>1. /\ worker \in [Workers -> WorkerState] /\ worker[w] \in WorkerState
      /\ worker[w].pc \notin {"queued", "enqueue"} => worker[w].groups = {}
  BY DEF PipelineTypeOK, LocalsLate
<1>2. ASSUME NEW pc \in Pcs, Goto(w, pc)
      PROVE  /\ worker'[w].pc = pc /\ worker'[w].replaced = worker[w].replaced
             /\ worker'[w].groups = worker[w].groups
  <2>1. worker'[w] = [worker[w] EXCEPT !.pc = pc]
    BY <1>1, <1>2, GotoFacts
  <2>2. QED
    BY <1>1, <2>1 DEF WorkerState
<1>3. ASSUME Return(w) PROVE worker'[w] = Idle
  BY <1>1, <1>3, ReturnFacts
<1>4. CASE WriteSeen(w) \/ WriteReplaced(w) \/ Invalidate(w) \/ WriteDecision(w)
           \/ FindNothing(w)
  <2>1. worker[w].groups = {}
    BY <1>1, <1>4 DEF WriteSeen, WriteReplaced, Invalidate, WriteDecision, FindNothing, At
  <2>2. Return(w) \/ \E pc \in Pcs : Goto(w, pc)
    BY <1>4 DEF WriteSeen, WriteReplaced, Invalidate, WriteDecision, FindNothing, Pcs
  <2>3. QED
    BY <1>2, <1>3, <2>1, <2>2
<1>5. CASE GiveUp(w)
  BY <1>3, <1>5 DEF GiveUp, Reliable
<1>6. CASE WriteQueued(w)
  <2>1. Goto(w, "enqueue") \/ (Return(w) /\ StorageMayFill)
    BY <1>6 DEF WriteQueued
  <2>2. QED
    BY <1>2, <1>3, <2>1 DEF Pcs, Reliable
<1>7. CASE CollectExecutable(w) \/ CollectContext(w) \/ WriteTransition(w)
  <2>1. worker[w].groups = {}
    BY <1>1, <1>7 DEF CollectExecutable, CollectContext, WriteTransition, At
  <2>2. worker'[w].groups = worker[w].groups /\ worker'[w].replaced = worker[w].replaced
    BY <1>1, <1>7 DEF CollectExecutable, CollectContext, WriteTransition, WorkerState
  <2>3. QED
    BY <2>1, <2>2
<1>8. CASE Register(w)
  <2>1. worker[w].groups = {}
    BY <1>1, <1>8 DEF Register, At
  <2>2. worker'[w].pc = "queued" /\ worker'[w].replaced = worker[w].replaced
    BY <1>1, <1>8 DEF Register, WorkerState
  <2>3. QED
    BY <2>1, <2>2
<1>9. QED
  BY <1>4, <1>5, <1>6, <1>7, <1>8 DEF Process

\* What a worker replaces is retired with its admission.
LEMMA WorkerStaysLate ==
    ASSUME PipelineTypeOK, LocalsLate, retired \subseteq retired', NEW w \in Workers,
           Observe(w) \/ Process(w)
    PROVE  LocalsLate'
<1>1. worker \in [Workers -> WorkerState] /\ worker[w] \in WorkerState
  BY DEF PipelineTypeOK
<1>2. \A u \in Workers : u # w => worker'[u] = worker[u]
  BY OthersStay
<1>3. Idle.replaced = None /\ Idle.groups = {} /\ Idle \in WorkerState
  BY IdleType DEF Idle
<1>4. ASSUME worker'[w].replaced # None => worker'[w].replaced \in retired',
             worker'[w].groups # {} => worker'[w].pc \in {"queued", "enqueue"}
      PROVE  LocalsLate'
  BY <1>2, <1>4 DEF LocalsLate
<1>5. CASE Observe(w)
  <2>1. PICK h \in Hashes :
          ObserveFetched(w, h) \/ ObserveRefused(w, h) \/ ObserveUnfetched(w, h)
    BY <1>5 DEF Observe, PipelineTypeOK, Deployment
  <2>2. worker[w] = Idle
    BY <2>1 DEF PipelineTypeOK, LocalsOK, ObserveFetched, ObserveRefused, ObserveUnfetched, At
  <2>3. CASE ObserveFetched(w, h)
    <3>1. PICK locals : locals = [Idle EXCEPT
            !.pc = "seen", !.hash = h, !.decision = AdmissionDecision(h),
            !.replaced = IF h \notin pending /\ h \in pending' /\ Incumbent(h) \in pending
                         THEN Incumbent(h) ELSE None,
            !.transitions = AdmissionTransitions(Tx[h].sender)]
      OBVIOUS
    <3>2. worker' = [worker EXCEPT ![w] = locals]
      BY <1>1, <2>2, <2>3, <3>1 DEF ObserveFetched
    <3>3. /\ worker'[w].groups = {}
          /\ worker'[w].replaced = IF h \notin pending /\ h \in pending' /\ Incumbent(h) \in pending
                                   THEN Incumbent(h) ELSE None
      BY <1>1, <1>3, <3>1, <3>2 DEF Idle
    <3>4. h \notin pending /\ h \in pending' /\ Incumbent(h) \in pending => Incumbent(h) \in retired'
      BY <2>3 DEF ObserveFetched, Admit, AdmitDuplicate, AdmitReplacement, AdmitUnderpriced,
                  AdmitOverLimit, AdmitNew, admission_vars
    <3>5. QED
      BY <1>4, <3>3, <3>4
  <2>4. CASE ObserveRefused(w, h) \/ ObserveUnfetched(w, h)
    <3>1. worker'[w].groups = {} /\ worker'[w].replaced = None
      BY <1>1, <1>3, <2>2, <2>4 DEF ObserveRefused, ObserveUnfetched, WorkerState
    <3>2. QED
      BY <1>4, <3>1
  <2>5. QED
    BY <2>1, <2>3, <2>4
<1>6. CASE worker'[w] = Idle
  BY <1>3, <1>4, <1>6
<1>7. CASE Enqueue(w)
  <2>1. worker[w].pc = "enqueue"
    BY <1>7 DEF Enqueue, At
  <2>2. ASSUME NEW g, TaskLeaves(w, g) PROVE LocalsLate'
    <3>1. worker'[w] = Idle \/ /\ worker'[w].pc = worker[w].pc
                               /\ worker'[w].replaced = worker[w].replaced
      BY <1>1, <2>2, GroupsLeft
    <3>2. QED
      BY <1>4, <1>6, <2>1, <3>1 DEF LocalsLate
  <2>3. ASSUME Return(w) PROVE LocalsLate'
    BY <1>1, <1>6, <2>3, ReturnFacts
  <2>4. QED
    BY <1>7, <2>2, <2>3 DEF Enqueue
<1>8. CASE Process(w) /\ ~Enqueue(w)
  <2>1. \/ worker'[w] = Idle
        \/ /\ worker'[w].replaced = worker[w].replaced
           /\ worker'[w].groups = {} \/ worker'[w].pc \in {"queued", "enqueue"}
    BY <1>8, GroupsStay
  <2>2. QED
    BY <1>4, <1>6, <2>1 DEF LocalsLate
<1>9. QED
  BY <1>5, <1>7, <1>8

\* The scheduler is done with a task for a reason that lasts.
LEMMA SupersededStaysConcluded ==
    ASSUME PipelineTypeOK, GenerationsAhead, CandidatesInv, TasksNamed, LifecycleNamed,
           LocalsLate, Reliable, SupersededConcluded,
           \/ \E w \in Workers : Observe(w) \/ Process(w)
           \/ \E v \in SimWorkers : Simulate(v),
           [Next]_vars
    PROVE  SupersededConcluded'
<1>1. /\ tasks \subseteq tasks' /\ retired \subseteq retired'
      /\ \A id \in CandidateIds :
           lifecycle[id].simulation_status # None => lifecycle'[id].simulation_status # None
  BY TasksGrow, HistoryGrows, LogStaysNamed
<1>2. /\ TypeOK /\ superseded \subseteq tasks
      /\ \A t \in tasks : t.candidate_id \in CandidateIds /\ t.generation \in Nat
  BY EntryType DEF PipelineTypeOK, TypeOK
<1>3. ASSUME NEW t \in superseded PROVE Concluded(t)'
  <2>1. Concluded(t) /\ t.candidate_id \in CandidateIds
    BY <1>2 DEF SupersededConcluded
  <2>2. CASE lifecycle[t.candidate_id].simulation_status # None
    BY <1>1, <2>1, <2>2 DEF Concluded
  <2>3. CASE \E u \in tasks : u.candidate_id = t.candidate_id /\ u.generation > t.generation
    BY <1>1, <2>3 DEF Concluded
  <2>4. CASE \E h \in retired : Touches(t, h)
    BY <1>1, <2>4 DEF Concluded
  <2>5. QED
    BY <2>1, <2>2, <2>3, <2>4 DEF Concluded
<1>4. CASE superseded' = superseded
  BY <1>3, <1>4 DEF SupersededConcluded
<1>5. ASSUME NEW w \in Workers, Register(w) PROVE SupersededConcluded'
  <2>1. PICK batch \in RegistrationBatches : RegisterCandidates(batch)
    BY <1>5 DEF Register, PreparedBatches
  <2>2. /\ tasks' = tasks \cup {TaskFor(c) : c \in batch}
        /\ superseded' = superseded \cup
             {t \in tasks : t.candidate_id \in {c.candidate_id : c \in batch}}
    BY <2>1 DEF RegisterCandidates
  <2>3. ASSUME NEW t \in tasks, NEW c \in batch, t.candidate_id = c.candidate_id
        PROVE  Concluded(t)'
    <3>1. PICK u \in tasks' : u = TaskFor(c)
      BY <2>2
    <3>2. u.candidate_id = t.candidate_id /\ u.generation = NextGeneration(t.candidate_id)
      BY <2>3, <3>1 DEF TaskFor
    <3>3. /\ candidates[t.candidate_id] # None
          /\ t.generation <= candidates[t.candidate_id].generation
          /\ candidates[t.candidate_id].generation \in Nat
      BY <1>2, EntryType DEF GenerationsAhead
    <3>4. u.generation = candidates[t.candidate_id].generation + 1
      BY <3>2, <3>3 DEF NextGeneration
    <3>5. u.generation > t.generation
      BY <1>2, <3>3, <3>4
    <3>6. QED
      BY <3>1, <3>2, <3>5 DEF Concluded
  <2>4. QED
    BY <1>3, <2>2, <2>3 DEF SupersededConcluded
<1>6. ASSUME NEW w \in Workers, Invalidate(w) PROVE SupersededConcluded'
  <2>1. superseded' = superseded \cup {t \in tasks : Touches(t, worker[w].replaced)}
    BY <1>6 DEF Invalidate, InvalidateCandidateHash
  <2>2. worker[w].replaced \in retired'
    BY <1>1, <1>6 DEF Invalidate, At, PipelineTypeOK, LocalsOK, LocalsLate
  <2>3. ASSUME NEW t \in tasks, Touches(t, worker[w].replaced) PROVE Concluded(t)'
    BY <2>2, <2>3 DEF Concluded
  <2>4. QED
    BY <1>3, <2>1, <2>3 DEF SupersededConcluded
<1>7. ASSUME NEW v \in SimWorkers, sim[v] # None, SettleResult(v) PROVE SupersededConcluded'
  <2>1. PICK t \in sim[v].todo :
          /\ superseded' = superseded \cup {t}
          /\ ApplySimCompleted(t.tx_hash, SimulationStatus(sim[v].approved))
    BY <1>7 DEF SettleResult, ApplySimulationResult, Reliable
  <2>2. t \in QueuedTasks
    BY <1>7, <2>1 DEF CandidatesInv, QueuedFirst
  <2>3. t \in tasks /\ lifecycle[t.candidate_id].queued
    BY <2>2 DEF QueuedTasks
  <2>4. PICK c \in CandidateSpecs : c.candidate_id = t.candidate_id /\ c.tx_hash = t.tx_hash
    BY <2>3 DEF TasksNamed
  <2>5. lifecycle[t.candidate_id].tx_hash = t.tx_hash
    BY <2>3, <2>4 DEF LifecycleNamed
  <2>6. PICK hash, status : hash = t.tx_hash /\ status = SimulationStatus(sim[v].approved)
    OBVIOUS
  <2>7. status \in {"ok", "failed"}
    BY <2>6 DEF SimulationStatus
  <2>8. lifecycle'[t.candidate_id].simulation_status # None
    BY <1>2, <2>1, <2>3, <2>5, <2>6, <2>7, CompletedNamed
  <2>9. Concluded(t)'
    BY <2>8 DEF Concluded
  <2>10. QED
    BY <1>3, <2>1, <2>9 DEF SupersededConcluded
<1>8. ASSUME NEW w \in Workers, Observe(w) \/ Process(w) PROVE SupersededConcluded'
  <2>1. CASE Observe(w)
    BY <1>4, <2>1 DEF Observe, ObserveFetched, ObserveRefused, ObserveUnfetched, Admit,
       AdmitDuplicate, AdmitReplacement, AdmitUnderpriced, AdmitOverLimit, AdmitNew,
       scheduler_vars, candidate_vars
  <2>2. CASE UNCHANGED scheduler_vars
    BY <1>4, <2>2 DEF scheduler_vars, candidate_vars
  <2>3. QED
    BY <1>5, <1>6, <1>8, <2>1, <2>2 DEF Process, WriteSeen, WriteReplaced, WriteDecision,
       CollectExecutable, CollectContext, WriteTransition, FindNothing, WriteQueued, Enqueue,
       GiveUp
<1>9. ASSUME NEW v \in SimWorkers, Simulate(v) PROVE SupersededConcluded'
  <2>1. CASE TakeTask(v) \/ DropStaleResult(v) \/ FailResult(v) \/ Deliver(v)
    BY <1>4, <2>1 DEF TakeTask, DropStaleResult, FailResult, Deliver,
       RecordStaleSimulationResult, scheduler_vars, candidate_vars
  <2>2. QED
    BY <1>7, <1>9, <2>1 DEF Simulate
<1>10. QED
  BY <1>8, <1>9

\* A worker that registers takes the new tasks.
LEMMA RegisteredUnderway ==
    ASSUME PipelineTypeOK, NEW w \in Workers, Register(w), NEW t \in tasks' \ tasks
    PROVE  Underway(t)'
<1>1. PICK batch \in PreparedBatches(w) :
        /\ RegisterCandidates(batch)
        /\ worker' = [worker EXCEPT ![w].pc = "queued",
                                    ![w].groups = TaskGroups(batch, worker[w].context)]
  BY DEF Register
<1>2. PICK groups : groups = TaskGroups(batch, worker[w].context)
  OBVIOUS
<1>3. worker'[w].groups = groups
  BY <1>1, <1>2 DEF PipelineTypeOK, WorkerState
<1>4. PICK c \in batch : t = TaskFor(c)
  BY <1>1 DEF RegisterCandidates
<1> DEFINE key(d) == <<d.tx_hash, RequestedTransactions(d, worker[w].context)>>
           group == {TaskFor(d) : d \in {e \in batch : key(e) = key(c)}}
<1>5. group \in groups
  BY <1>2, <1>4 DEF TaskGroups
<1>6. t \in group
  BY <1>4
<1>7. QED
  BY <1>3, <1>5, <1>6 DEF Underway

\* A worker's step: a task is registered, queued or shed.
LEMMA WorkerTasksUnderway ==
    ASSUME PipelineTypeOK, LocalsLate, Reliable, TasksUnderway, NEW w \in Workers,
           Observe(w) \/ Process(w), [Next]_vars
    PROVE  TasksUnderway'
<1>1. /\ worker \in [Workers -> WorkerState] /\ worker[w] \in WorkerState
      /\ sim_queue \in Seq(SUBSET tasks) /\ superseded \subseteq superseded' /\ sim' = sim
      /\ \A u \in Workers : u # w => worker'[u] = worker[u]
  BY HistoryGrows, WorkerEvents, OthersStay DEF PipelineTypeOK, TasksKnown
<1>2. CASE Enqueue(w)
  <2>1. PICK g \in worker[w].groups :
          /\ TaskLeaves(w, g)
          /\ \/ sim_queue' = Append(sim_queue, g) /\ shed' = shed
             \/ sim_queue' = sim_queue /\ shed' = shed \cup g
    BY <1>2 DEF Enqueue, Reliable
  <2>2. tasks' = tasks /\ superseded' = superseded
    BY <1>2 DEF Enqueue, scheduler_vars, candidate_vars
  <2>3. \A i \in 1..Len(sim_queue) : i \in 1..Len(sim_queue') /\ sim_queue'[i] = sim_queue[i]
    <3>1. CASE sim_queue' = sim_queue
      BY <3>1
    <3>2. CASE sim_queue' = Append(sim_queue, g)
      BY <1>1, <3>2
    <3>3. QED
      BY <2>1, <3>1, <3>2
  <2>4. sim_queue' = Append(sim_queue, g) =>
          Len(sim_queue) + 1 \in 1..Len(sim_queue') /\ sim_queue'[Len(sim_queue) + 1] = g
    BY <1>1
  <2>5. \A x \in worker[w].groups : x # g => x \in worker'[w].groups
    BY <1>1, <2>1, GroupsLeft
  <2>6. ASSUME NEW t \in tasks' \ (superseded' \cup shed') PROVE Underway(t)'
    <3>1. Underway(t)
      BY <2>1, <2>2, <2>6 DEF TasksUnderway
    <3>2. CASE \E u \in Workers : \E x \in worker[u].groups : t \in x
      <4>1. PICK u \in Workers : \E x \in worker[u].groups : t \in x
        BY <3>2
      <4>2. PICK x \in worker[u].groups : t \in x
        BY <4>1
      <4>3. CASE u # w
        BY <1>1, <4>1, <4>3 DEF Underway
      <4>4. CASE u = w /\ x # g
        BY <2>5, <4>2, <4>4 DEF Underway
      <4>5. CASE u = w /\ x = g
        <5>1. sim_queue' = Append(sim_queue, g)
          BY <2>1, <2>6, <4>2, <4>5
        <5>2. QED
          BY <2>4, <4>2, <4>5, <5>1 DEF Underway
      <4>6. QED
        BY <4>3, <4>4, <4>5
    <3>3. CASE \E i \in 1..Len(sim_queue) : t \in sim_queue[i]
      BY <2>3, <3>3 DEF Underway
    <3>4. CASE \E v \in SimWorkers : sim[v] # None /\ t \in sim[v].todo
      BY <1>1, <3>4 DEF Underway
    <3>5. QED
      BY <3>1, <3>2, <3>3, <3>4 DEF Underway
  <2>7. QED
    BY <2>6 DEF TasksUnderway
<1>3. ASSUME worker[w].groups \subseteq worker'[w].groups, UNCHANGED <<sim_queue, shed>>,
             \A t \in tasks' \ tasks : Underway(t)'
      PROVE  TasksUnderway'
  <2>1. ASSUME NEW t \in tasks \ (superseded \cup shed) PROVE Underway(t)'
    <3>1. Underway(t)
      BY <2>1 DEF TasksUnderway
    <3>2. QED
      BY <1>1, <1>3, <3>1 DEF Underway
  <2>2. QED
    BY <1>1, <1>3, <2>1 DEF TasksUnderway
<1>4. CASE Observe(w)
  <2>1. PICK h \in Hashes :
          ObserveFetched(w, h) \/ ObserveRefused(w, h) \/ ObserveUnfetched(w, h)
    BY <1>4 DEF Observe, PipelineTypeOK, Deployment
  <2>2. tasks' = tasks /\ worker[w] = Idle /\ Idle.groups = {}
    BY <2>1, ObservedPool DEF Idle
  <2>3. UNCHANGED <<sim_queue, shed>>
    BY <2>1 DEF ObserveFetched, ObserveRefused, ObserveUnfetched, sim_vars
  <2>4. QED
    BY <1>3, <2>2, <2>3
<1>5. CASE Process(w) /\ ~Enqueue(w)
  <2>1. worker[w].groups \subseteq worker'[w].groups
    BY <1>5, GroupsStay
  <2>2. UNCHANGED <<sim_queue, shed>>
    BY <1>5 DEF Process, WriteSeen, WriteReplaced, Invalidate, WriteDecision, CollectExecutable,
       CollectContext, WriteTransition, Register, FindNothing, WriteQueued, GiveUp, sim_vars
  <2>3. CASE Register(w)
    BY <1>3, <2>1, <2>2, <2>3, RegisteredUnderway
  <2>4. CASE tasks' = tasks
    BY <1>3, <2>1, <2>2, <2>4
  <2>5. CASE Invalidate(w)
    BY <2>4, <2>5 DEF Invalidate, InvalidateCandidateHash
  <2>6. CASE UNCHANGED scheduler_vars
    BY <2>4, <2>6 DEF scheduler_vars, candidate_vars
  <2>7. QED
    BY <1>5, <2>3, <2>5, <2>6 DEF Process, WriteSeen, WriteReplaced, WriteDecision,
       CollectExecutable, CollectContext, WriteTransition, FindNothing, WriteQueued, GiveUp
<1>6. QED
  BY <1>2, <1>4, <1>5

\* A simulation worker's step: a task leaves the queue for a worker, and the worker when
\* the scheduler is done with it.
LEMMA SimulateTasksUnderway ==
    ASSUME PipelineTypeOK, CurrentAccepted, Reliable, TasksUnderway, NEW v \in SimWorkers,
           Simulate(v), [Next]_vars
    PROVE  TasksUnderway'
<1>1. /\ sim \in [SimWorkers -> SimulationTask \cup {None}]
      /\ sim_queue \in Seq(SUBSET tasks) /\ superseded \subseteq superseded'
      /\ sim[v] # None => sim[v].todo \subseteq tasks
  BY HistoryGrows DEF PipelineTypeOK, TasksKnown
<1>2. UNCHANGED <<worker, shed, tasks>>
  BY DEF Simulate, TakeTask, SettleResult, DropStaleResult, FailResult, Deliver,
         ApplySimulationResult, RecordStaleSimulationResult, scheduler_vars, candidate_vars
<1>3. ASSUME NEW work, sim' = [sim EXCEPT ![v] = work], sim_queue' = sim_queue,
             sim[v] # None => \A t \in sim[v].todo \ superseded' : work # None /\ t \in work.todo
      PROVE  TasksUnderway'
  <2>1. sim'[v] = work /\ \A u \in SimWorkers : u # v => sim'[u] = sim[u]
    BY <1>1, <1>3
  <2>2. ASSUME NEW t \in tasks \ (superseded' \cup shed) PROVE Underway(t)'
    <3>1. Underway(t)
      BY <1>1, <2>2 DEF TasksUnderway
    <3>2. CASE \/ \E u \in Workers : \E x \in worker[u].groups : t \in x
               \/ \E i \in 1..Len(sim_queue) : t \in sim_queue[i]
      BY <1>2, <1>3, <3>2 DEF Underway
    <3>3. CASE \E u \in SimWorkers : sim[u] # None /\ t \in sim[u].todo
      BY <1>3, <2>1, <2>2, <3>3 DEF Underway
    <3>4. QED
      BY <3>1, <3>2, <3>3 DEF Underway
  <2>3. QED
    BY <1>2, <2>2 DEF TasksUnderway
<1>4. CASE TakeTask(v)
  <2>1. PICK approved \in BOOLEAN :
          sim' = [sim EXCEPT ![v] = [todo |-> Head(sim_queue), approved |-> approved,
                                     accepted |-> {}]]
    BY <1>4 DEF TakeTask
  <2>2. PICK work : work = [todo |-> Head(sim_queue), approved |-> approved, accepted |-> {}]
    OBVIOUS
  <2>3. sim[v] = None /\ sim_queue # <<>> /\ sim_queue' = Tail(sim_queue)
    BY <1>4 DEF TakeTask
  <2>4. Head(sim_queue) \in SUBSET tasks /\ Head(sim_queue) = sim_queue[1]
    BY <1>1, <2>3
  <2>5. work \in SimulationTask /\ work.todo = sim_queue[1]
    BY <2>2, <2>4 DEF SimulationTask, PipelineTypeOK, TypeOK
  <2>6. /\ sim'[v] = work /\ work # None /\ \A u \in SimWorkers : u # v => sim'[u] = sim[u]
    BY <1>1, <2>1, <2>2, <2>5, PipelineAssumption
  <2>7. \A i \in 1..Len(sim_queue) : i # 1 =>
          i - 1 \in 1..Len(sim_queue') /\ sim_queue'[i - 1] = sim_queue[i]
    BY <1>1, <2>3
  <2>8. ASSUME NEW t \in tasks \ (superseded' \cup shed) PROVE Underway(t)'
    <3>1. Underway(t)
      BY <1>1, <2>8 DEF TasksUnderway
    <3>2. CASE \E u \in Workers : \E x \in worker[u].groups : t \in x
      BY <1>2, <3>2 DEF Underway
    <3>3. ASSUME NEW i \in 1..Len(sim_queue), t \in sim_queue[i] PROVE Underway(t)'
      <4>1. CASE i = 1
        BY <2>5, <2>6, <3>3, <4>1 DEF Underway
      <4>2. CASE i # 1
        BY <2>7, <3>3, <4>2 DEF Underway
      <4>3. QED
        BY <4>1, <4>2
    <3>4. CASE \E u \in SimWorkers : sim[u] # None /\ t \in sim[u].todo
      BY <2>3, <2>6, <3>4 DEF Underway
    <3>5. QED
      BY <3>1, <3>2, <3>3, <3>4 DEF Underway
  <2>9. QED
    BY <1>2, <2>8 DEF TasksUnderway
<1>5. CASE sim[v] # None /\ SettleResult(v)
  <2> DEFINE handed(t) == IF sim[v].approved THEN {t} ELSE {}
  <2>1. PICK t \in sim[v].todo :
          /\ sim' = [sim EXCEPT ![v].todo = @ \ {t}, ![v].accepted = @ \cup handed(t)]
          /\ superseded' = superseded \cup {t} /\ sim_queue' = sim_queue
    BY <1>5 DEF SettleResult, ApplySimulationResult, Reliable
  <2>2. PICK work : work = [sim[v] EXCEPT !.todo = sim[v].todo \ {t},
                                          !.accepted = sim[v].accepted \cup handed(t)]
    OBVIOUS
  <2>3. sim[v] \in SimulationTask
    BY <1>1, <1>5
  <2>4. work \in SimulationTask /\ work.todo = sim[v].todo \ {t}
    BY <2>1, <2>2, <2>3 DEF SimulationTask
  <2>5. sim' = [sim EXCEPT ![v] = work]
    BY <1>1, <2>1, <2>2
  <2>6. work # None
    BY <2>4, PipelineAssumption
  <2>7. QED
    BY <1>3, <2>1, <2>4, <2>5, <2>6
<1>6. CASE sim[v] # None /\ DropStaleResult(v)
  <2>1. PICK t \in sim[v].todo : /\ sim' = [sim EXCEPT ![v].todo = @ \ {t}]
                                 /\ ~AcceptsResult(t) /\ sim_queue' = sim_queue
    BY <1>6 DEF DropStaleResult, RecordStaleSimulationResult
  <2>2. PICK work : work = [sim[v] EXCEPT !.todo = sim[v].todo \ {t}]
    OBVIOUS
  <2>3. sim[v] \in SimulationTask
    BY <1>1, <1>6
  <2>4. work \in SimulationTask /\ work.todo = sim[v].todo \ {t}
    BY <2>1, <2>2, <2>3 DEF SimulationTask
  <2>5. sim' = [sim EXCEPT ![v] = work]
    BY <1>1, <2>1, <2>2
  <2>6. work # None
    BY <2>4, PipelineAssumption
  <2>7. t \in superseded'
    BY <1>1, <1>6, <2>1 DEF CurrentAccepted
  <2>8. QED
    BY <1>3, <2>1, <2>4, <2>5, <2>6, <2>7
<1>7. CASE FailResult(v)
  BY <1>7 DEF FailResult, Reliable
<1>8. CASE sim[v] # None /\ Deliver(v)
  <2>1. /\ sim[v].todo = {} /\ sim' = [sim EXCEPT ![v] = None] /\ sim_queue' = sim_queue
    BY <1>8 DEF Deliver
  <2>2. QED
    BY <1>3, <2>1
<1>9. QED
  BY <1>4, <1>5, <1>6, <1>7, <1>8 DEF Simulate

\* What holds of the settled candidates holds after a step.
LEMMA NextSettle ==
    ASSUME PipelineTypeOK, GenerationsAhead, CandidatesInv, SettleInv,
           [PipelineNext]_pipeline_vars
    PROVE  SettleInv'
<1>1. [Next]_vars /\ TypeOK /\ TasksNamed /\ CurrentAccepted /\ LifecycleNamed /\ LocalsLate
  BY StepIsScheduler DEF PipelineTypeOK, SettleInv
<1>2. retired \subseteq retired' /\ superseded \subseteq superseded'
  BY <1>1, HistoryGrows
<1>3. CASE UNCHANGED pipeline_vars
  <2>1. UNCHANGED <<deployment, worker, retired, tasks, superseded, lifecycle, sim, sim_queue,
                    shed, head_block_number>>
    BY <1>3 DEF pipeline_vars, scheduler_vars, admission_vars, candidate_vars, sim_vars, log_vars
  <2>2. TasksNamed' /\ CurrentAccepted'
    BY <1>1, <2>1, SchedulerKeepsCurrent
  <2>3. LifecycleNamed' /\ LocalsLate'
    BY <1>1, <2>1 DEF LifecycleNamed, LocalsLate
  <2>4. Reliable' <=> Reliable
    BY <2>1 DEF Reliable, StorageMayFill, SchedulerMayRefuse
  <2>5. TasksUnderway => TasksUnderway'
    BY <2>1 DEF TasksUnderway, Underway
  <2>6. SupersededConcluded => SupersededConcluded'
    BY <2>1 DEF SupersededConcluded, Concluded
  <2>7. QED
    BY <2>2, <2>3, <2>4, <2>5, <2>6 DEF SettleInv
<1>4. CASE PipelineNext
  <2>1. /\ deployment' = deployment
        /\ \/ \E w \in Workers : Observe(w) \/ Process(w)
           \/ \E v \in SimWorkers : Simulate(v)
    BY <1>4 DEF PipelineNext, PipelineTypeOK, Deployment
  <2>2. TasksNamed' /\ CurrentAccepted' /\ LifecycleNamed'
    BY <1>1, <2>1, HeadStays, SchedulerKeepsCurrent, LogStaysNamed
  <2>3. LocalsLate'
    <3>1. CASE \E w \in Workers : Observe(w) \/ Process(w)
      BY <1>1, <1>2, <3>1, WorkerStaysLate
    <3>2. ASSUME NEW v \in SimWorkers, Simulate(v) PROVE LocalsLate'
      <4>1. worker' = worker
        BY <3>2 DEF Simulate, TakeTask, SettleResult, DropStaleResult, FailResult, Deliver
      <4>2. QED
        BY <1>1, <1>2, <4>1 DEF LocalsLate
    <3>3. QED
      BY <2>1, <3>1, <3>2
  <2>4. Reliable' <=> Reliable
    BY <2>1 DEF Reliable, StorageMayFill, SchedulerMayRefuse
  <2>5. ASSUME Reliable PROVE TasksUnderway' /\ SupersededConcluded'
    <3>1. TasksUnderway /\ SupersededConcluded
      BY <2>5 DEF SettleInv
    <3>2. SupersededConcluded'
      BY <1>1, <2>1, <2>5, <3>1, SupersededStaysConcluded
    <3>3. TasksUnderway'
      BY <1>1, <2>1, <2>5, <3>1, WorkerTasksUnderway, SimulateTasksUnderway
    <3>4. QED
      BY <3>2, <3>3
  <2>6. QED
    BY <2>2, <2>3, <2>4, <2>5 DEF SettleInv
<1>5. QED
  BY <1>3, <1>4

\* CandidatesSettle: whatever the workers and the simulations interleave, when they have come
\* to rest the scheduler is done with every candidate whose task was not shed, and for a
\* reason the log or the scheduler shows.
THEOREM CandidatesAreSettled == PipelineSpec => []CandidatesSettle
<1>1. PipelineInit => SettleInv
  <2> SUFFICES ASSUME PipelineInit PROVE SettleInv
    OBVIOUS
  <2>1. tasks = {} /\ superseded = {}
    BY DEF PipelineInit, Init
  <2>2. \A w \in Workers : worker[w].replaced = None /\ worker[w].groups = {}
    BY DEF PipelineInit, Idle
  <2>3. \A c \in CandidateSpecs : c.candidate_id \in CandidateIds
    BY SchedulerAssumption DEF CandidateSpec
  <2>4. LifecycleNamed
    BY <2>3 DEF PipelineInit, NoCandidate, LifecycleNamed
  <2>5. TasksNamed /\ CurrentAccepted /\ TasksUnderway /\ SupersededConcluded
    BY <2>1 DEF TasksNamed, CurrentAccepted, TasksUnderway, SupersededConcluded
  <2>6. LocalsLate
    BY <2>2 DEF LocalsLate
  <2>7. QED
    BY <2>4, <2>5, <2>6 DEF SettleInv
<1>2. ASSUME PipelineTypeOK, SettleInv PROVE CandidatesSettle
  <2> SUFFICES ASSUME Reliable, WorkersIdle, sim_queue = <<>>,
                      \A v \in SimWorkers : sim[v] = None,
                      NEW t \in tasks \ shed
               PROVE  t \in superseded /\ Concluded(t)
    BY DEF CandidatesSettle
  <2>1. \A w \in Workers : worker[w].groups = {}
    BY <1>2 DEF SettleInv, LocalsLate, WorkersIdle, At
  <2>2. ~Underway(t)
    BY <2>1 DEF Underway
  <2>3. t \in superseded
    BY <1>2, <2>2 DEF SettleInv, TasksUnderway
  <2>4. QED
    BY <1>2, <2>3 DEF SettleInv, SupersededConcluded
<1>3. QED
  BY <1>1, <1>2, NextSettle, PipelineTypeCorrect, PipelineRunsScheduler, GenerationsStayAhead,
     LogIsFounded, PTL DEF PipelineSpec
=============================================================================
