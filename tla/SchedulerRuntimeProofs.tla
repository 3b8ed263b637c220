----------------------- MODULE SchedulerRuntimeProofs -----------------------
(***************************************************************************)
(* The scheduler as the process runs it.  The actor implements the atomic  *)
(* service, and the state it keeps is the state machine of Scheduler, for  *)
(* every set of callers, every channel capacity and every number of        *)
(* commands.  A restart from storage gives back a consistent scheduler and *)
(* what the process had stored, for every number of workers, every order   *)
(* of their events and every moment of the snapshot.                       *)
(***************************************************************************)
EXTENDS SchedulerActor, Rehydration, SchedulerProofs, SequenceTheorems

----------------------------------------------------------------------------
(* The service's copy of the state machine is the scheduler's own *)

\* The service counts as the scheduler does.
LEMMA SameCardinality ==
    \A S : Service!Cardinality(S) = Cardinality(S)
BY DEF Service!Cardinality, Cardinality

\* The service classifies a queue as the scheduler does.
LEMMA SameClassification ==
    /\ \A p, queue : Service!SenderQueuePositions(p, queue) = SenderQueuePositions(p, queue)
    /\ \A p, queue :
         Service!ClassifySenderQueueCounts(p, queue) = ClassifySenderQueueCounts(p, queue)
<1>1. ASSUME NEW p, NEW queue
      PROVE  Service!SenderQueuePositions(p, queue) = SenderQueuePositions(p, queue)
  BY DEF Service!SenderQueuePositions, SenderQueuePositions, Service!Occupied, Occupied,
         Service!QueueEntryState, QueueEntryState, Service!ReadyNonces, ReadyNonces,
         Service!ExpectedNonce, ExpectedNonce, Service!Nonces, Nonces,
         Service!Ready, Ready, Service!Blocked, Blocked
<1>2. ASSUME NEW p, NEW queue
      PROVE  Service!ClassifySenderQueueCounts(p, queue) = ClassifySenderQueueCounts(p, queue)
  BY SameCardinality
     DEF Service!ClassifySenderQueueCounts, ClassifySenderQueueCounts,
         Service!Occupied, Occupied, Service!ReadyNonces, ReadyNonces, Service!Nonces, Nonces
<1>3. QED
  BY <1>1, <1>2

\* The service computes fees and counters as the scheduler does.
LEMMA SameFees ==
    /\ \A h : Service!ReplacementFee(h) = ReplacementFee(h)
    /\ \A h : Service!ReplacementThresholdFee(h) = ReplacementThresholdFee(h)
    /\ \A n : Service!Bump(n) = Bump(n)
BY DEF Service!ReplacementFee, ReplacementFee, Service!UnwrapOr, UnwrapOr,
       Service!ReplacementThresholdFee, ReplacementThresholdFee, Service!DivCeil, DivCeil,
       Service!Saturate, Saturate, Service!Bump, Bump

\* The service places a transaction as the scheduler does.
LEMMA SamePlace ==
    ASSUME NEW h, NEW removed, Service!Place(h, removed)
    PROVE  Place(h, removed)
<1> DEFINE s == Tx[h].sender
           nextPending == (pending \ {removed}) \cup {h}
           nextQueue == [sender_queues[s] EXCEPT ![Tx[h].nonce] = h]
           previous == SenderQueuePositions(pending, sender_queues[s])
           next == SenderQueuePositions(nextPending, nextQueue)
<1>1. /\ pending' = nextPending
      /\ sender_queues' = [sender_queues EXCEPT ![s] = nextQueue]
      /\ Service!RefreshSenderCounts(s, nextPending, nextQueue)
  BY DEF Service!Place
<1>2. RefreshSenderCounts(s, nextPending, nextQueue)
  BY <1>1, SameClassification
     DEF Service!RefreshSenderCounts, RefreshSenderCounts, Service!SaturatingSub, SaturatingSub
<1>3. observed' = [x \in Hashes |->
                     IF x \in QueueTransitions(previous, next) THEN next[x]
                     ELSE IF x = removed THEN None ELSE observed[x]]
  BY SameClassification DEF Service!Place, Service!QueueTransitions, QueueTransitions
<1>4. QED
  BY <1>1, <1>2, <1>3 DEF Place

\* Admission by the service is `SchedulerState::admit`.
LEMMA SameAdmit ==
    ASSUME NEW h, Service!Admit(h)
    PROVE  Admit(h)
<1> USE SameFees DEF Service!admission_vars, admission_vars,
        Service!candidate_vars, candidate_vars, Service!Incumbent, Incumbent,
        Service!SlotOf, SlotOf, Service!Nonces, Nonces
<1>1. CASE Service!AdmitDuplicate(h)
  BY <1>1 DEF Service!AdmitDuplicate, AdmitDuplicate, Admit
<1>2. CASE Service!AdmitReplacement(h)
  BY <1>2, SamePlace DEF Service!AdmitReplacement, AdmitReplacement, Admit
<1>3. CASE Service!AdmitUnderpriced(h)
  BY <1>3 DEF Service!AdmitUnderpriced, AdmitUnderpriced, Admit
<1>4. CASE Service!AdmitOverLimit(h)
  BY <1>4, SameCardinality
     DEF Service!AdmitOverLimit, AdmitOverLimit, Admit, Service!SenderQueueLen, SenderQueueLen
<1>5. CASE Service!AdmitNew(h)
  BY <1>5, SamePlace, SameCardinality
     DEF Service!AdmitNew, AdmitNew, Admit, Service!SenderQueueLen, SenderQueueLen
<1>6. QED
  BY <1>1, <1>2, <1>3, <1>4, <1>5 DEF Service!Admit

\* The other commands of the service are methods of `SchedulerState`, too.
LEMMA SameCandidateSteps ==
    /\ \A batch : Service!RegisterCandidates(batch) => RegisterCandidates(batch)
    /\ \A t : Service!ApplySimulationResult(t) => ApplySimulationResult(t)
    /\ \A t : Service!RecordStaleSimulationResult(t) => RecordStaleSimulationResult(t)
    /\ \A h : Service!InvalidateCandidateHash(h) => InvalidateCandidateHash(h)
    /\ \A b : Service!AdvanceHead(b) => AdvanceHead(b)
<1> USE DEF Service!admission_vars, admission_vars, Service!candidate_vars, candidate_vars
<1>1. /\ \A c : Service!MembersOf(c) = MembersOf(c)
      /\ \A c, h : Service!Touches(c, h) <=> Touches(c, h)
  BY DEF Service!MembersOf, MembersOf, Service!NormalizedMemberHashes, NormalizedMemberHashes,
         Service!Touches, Touches
<1>2. \A t : Service!AcceptsResult(t) <=> AcceptsResult(t)
  BY <1>1 DEF Service!AcceptsResult, AcceptsResult
<1>3. \A id : Service!NextGeneration(id) = NextGeneration(id)
  BY DEF Service!NextGeneration, NextGeneration
<1>4. ASSUME NEW batch, Service!RegisterCandidates(batch) PROVE RegisterCandidates(batch)
  <2>1. \A c : Service!TaskFor(c) = TaskFor(c)
    BY <1>1, <1>3 DEF Service!TaskFor, TaskFor
  <2>2. QED
    BY <1>3, <1>4, <2>1 DEF Service!RegisterCandidates, RegisterCandidates
<1>5. ASSUME NEW t, Service!ApplySimulationResult(t) PROVE ApplySimulationResult(t)
  BY <1>2, <1>5 DEF Service!ApplySimulationResult, ApplySimulationResult
<1>6. ASSUME NEW t, Service!RecordStaleSimulationResult(t) PROVE RecordStaleSimulationResult(t)
  BY <1>2, <1>6, SameFees DEF Service!RecordStaleSimulationResult, RecordStaleSimulationResult
<1>7. ASSUME NEW h, Service!InvalidateCandidateHash(h) PROVE InvalidateCandidateHash(h)
  BY <1>1, <1>7 DEF Service!InvalidateCandidateHash, InvalidateCandidateHash
<1>8. ASSUME NEW b, Service!AdvanceHead(b) PROVE AdvanceHead(b)
  BY <1>8 DEF Service!AdvanceHead, AdvanceHead
<1>9. QED
  BY <1>4, <1>5, <1>6, <1>7, <1>8

\* Running a command that may be in the channel is one step of Scheduler.
LEMMA PerformIsNext ==
    ASSUME NEW command \in Service!CommandsOver(tasks), Service!Perform(command)
    PROVE  Next
<1>1. CASE command.op = "admit" /\ Service!Admit(command.arg)
  BY <1>1, SameAdmit DEF Service!CommandsOver, Next
<1>2. CASE command.op = "register" /\ Service!RegisterCandidates(command.arg)
  <2>1. Service!RegistrationBatches = RegistrationBatches
    BY DEF Service!RegistrationBatches, RegistrationBatches
  <2>2. QED
    BY <1>2, <2>1, SameCandidateSteps DEF Service!CommandsOver, Next
<1>3. CASE command.op = "result" /\ Service!ApplySimulationResult(command.arg)
  BY <1>3, SameCandidateSteps DEF Service!CommandsOver, Next
<1>4. CASE command.op = "result" /\ Service!RecordStaleSimulationResult(command.arg)
  BY <1>4, SameCandidateSteps DEF Service!CommandsOver, Next
<1>5. CASE command.op = "invalidate" /\ Service!InvalidateCandidateHash(command.arg)
  BY <1>5, SameCandidateSteps DEF Service!CommandsOver, Next
<1>6. CASE command.op = "head" /\ Service!AdvanceHead(command.arg)
  BY <1>6, SameCandidateSteps DEF Service!CommandsOver, Next
<1>7. QED
  BY <1>1, <1>2, <1>3, <1>4, <1>5, <1>6 DEF Service!Perform

\* The tasks that results may refer to are never forgotten.
LEMMA TasksOnlyGrow ==
    ASSUME [Next]_vars
    PROVE  tasks \subseteq tasks'
BY DEF Next, vars, candidate_vars, Admit, AdmitDuplicate, AdmitReplacement, AdmitUnderpriced,
       AdmitOverLimit, AdmitNew, RegisterCandidates, ApplySimulationResult,
       RecordStaleSimulationResult, InvalidateCandidateHash, AdvanceHead

----------------------------------------------------------------------------
(* The channel *)

\* What is in the channel: a result on its way belongs to a task handed out.
Message == [ticket : Nat, caller : Callers, command : Service!CommandsOver(tasks)]

\* The inductive invariant of the channel: tickets leave it in the order they
\* were given out, a command in it has no answer yet, and neither has one that
\* was not sent.
ChannelOK ==
    /\ sent \in 0..MaxCommands
    /\ ingress \in Seq(Message)
    /\ \A i, j \in 1..Len(ingress) : i < j => ingress[i].ticket < ingress[j].ticket
    /\ \A i \in 1..Len(ingress) :
         ingress[i].ticket \in 1..sent /\ replies[ingress[i].ticket] = None
    /\ replies \in [Tickets -> {None, "applied", "closed"}]
    /\ \A t \in Tickets : t > sent => replies[t] = None

\* A command that names a task stays one while tasks are added.
LEMMA MessagesStay ==
    ASSUME tasks \subseteq tasks'
    PROVE  Message \subseteq Message'
<1>1. ASSUME NEW c \in Service!CommandsOver(tasks) PROVE c \in Service!CommandsOver(tasks')
  BY <1>1 DEF Service!CommandsOver
<1>2. QED
  BY <1>1 DEF Message

\* `try_send_command`: the new ticket is larger than all in the channel.
LEMMA SendKeepsChannel ==
    ASSUME ChannelOK, NEW c \in Callers, TrySend(c)
    PROVE  ChannelOK'
<1>1. PICK command \in Service!CommandsOver(tasks) :
         ingress' = Append(ingress, [ticket |-> sent + 1, caller |-> c, command |-> command])
  BY DEF TrySend
<1> DEFINE message == [ticket |-> sent + 1, caller |-> c, command |-> command]
<1>2. message \in Message /\ Message' = Message
  BY DEF ChannelOK, Message, TrySend, vars, candidate_vars
<1>3. /\ ingress' \in Seq(Message)
      /\ Len(ingress') = Len(ingress) + 1
      /\ \A i \in 1..Len(ingress) : ingress'[i] = ingress[i]
      /\ ingress'[Len(ingress) + 1] = message
  BY <1>1, <1>2, AppendProperties DEF ChannelOK
<1>4. Len(ingress) \in Nat
  BY LenProperties DEF ChannelOK
<1>5. sent' = sent + 1 /\ sent' \in 1..MaxCommands /\ replies' = replies
  BY ActorAssumption DEF TrySend, ChannelOK
<1>6. \A i, j \in 1..Len(ingress') : i < j => ingress'[i].ticket < ingress'[j].ticket
  BY <1>3, <1>4 DEF ChannelOK
<1>7. \A i \in 1..Len(ingress') :
         ingress'[i].ticket \in 1..sent' /\ replies'[ingress'[i].ticket] = None
  BY <1>3, <1>4, <1>5 DEF ChannelOK, Tickets
<1>8. \A t \in Tickets : t > sent' => replies'[t] = None
  BY <1>5 DEF ChannelOK, Tickets
<1>9. QED
  BY <1>2, <1>3, <1>5, <1>6, <1>7, <1>8 DEF ChannelOK

\* The runtime answers the oldest ticket, and no other one in the channel has it.
LEMMA RunKeepsChannel ==
    ASSUME ChannelOK, RunCommand
    PROVE  ChannelOK'
<1>1. /\ Head(ingress) = ingress[1]
      /\ Head(ingress) \in Message
      /\ Len(ingress) \in Nat \ {0}
      /\ Tail(ingress) \in Seq(Message)
      /\ Len(Tail(ingress)) = Len(ingress) - 1
      /\ \A i \in 1..Len(Tail(ingress)) : Tail(ingress)[i] = ingress[i + 1]
  BY HeadTailProperties, LenProperties, EmptySeq DEF ChannelOK, RunCommand
<1>2. /\ ingress' = Tail(ingress)
      /\ replies' = [replies EXCEPT ![ingress[1].ticket] = "applied"]
      /\ sent' = sent
  BY <1>1 DEF RunCommand, handle_vars
<1>3. ingress' \in Seq(Message')
  <2>1. Next
    BY <1>1, PerformIsNext DEF RunCommand, Message
  <2>2. QED
    BY <1>1, <1>2, <2>1, TasksOnlyGrow, MessagesStay, SeqMonotonic
<1>4. \A i, j \in 1..Len(ingress') : i < j => ingress'[i].ticket < ingress'[j].ticket
  BY <1>1, <1>2 DEF ChannelOK
<1>5. \A i \in 1..Len(ingress') :
         ingress'[i].ticket \in 1..sent /\ replies'[ingress'[i].ticket] = None
  <2> SUFFICES ASSUME NEW i \in 1..Len(ingress')
               PROVE  ingress'[i].ticket \in 1..sent /\ replies'[ingress'[i].ticket] = None
    OBVIOUS
  <2>1. /\ ingress'[i] = ingress[i + 1]
        /\ i + 1 \in 1..Len(ingress) /\ 1 < i + 1 /\ 1 \in 1..Len(ingress)
    BY <1>1, <1>2
  <2>2. ingress[1].ticket < ingress'[i].ticket
    BY <2>1 DEF ChannelOK
  <2>3. QED
    BY <1>2, <2>1, <2>2 DEF ChannelOK, Tickets
<1>6. /\ replies' \in [Tickets -> {None, "applied", "closed"}]
      /\ \A t \in Tickets : t > sent => replies'[t] = None
  <2>1. ingress[1].ticket \in 1..sent
    BY <1>1 DEF ChannelOK
  <2>2. replies' \in [Tickets -> {None, "applied", "closed"}]
    BY <1>2 DEF ChannelOK
  <2>3. \A t \in Tickets : t # ingress[1].ticket => replies'[t] = replies[t]
    BY <1>2 DEF ChannelOK
  <2>4. QED
    BY <2>1, <2>2, <2>3 DEF ChannelOK, Tickets
<1>7. QED
  BY <1>2, <1>3, <1>4, <1>5, <1>6 DEF ChannelOK

\* Closing the channel answers tickets that were sent.
LEMMA EndKeepsChannel ==
    ASSUME ChannelOK, RuntimeEnds
    PROVE  ChannelOK'
<1>1. ingress' = <<>> /\ sent' = sent /\ tasks' = tasks
  BY DEF RuntimeEnds, handle_vars, vars, candidate_vars
<1>2. /\ replies' \in [Tickets -> {None, "applied", "closed"}]
      /\ \A t \in Tickets : t > sent => replies'[t] = None
  BY DEF RuntimeEnds, ChannelOK, Tickets
<1>3. ingress' \in Seq(Message') /\ Len(ingress') = 0
  BY <1>1, EmptySeq
<1>4. QED
  BY <1>1, <1>2, <1>3 DEF ChannelOK

\* ChannelOK is inductive.
LEMMA ActorKeepsChannel == ChannelOK /\ [ActorNext]_actor_vars => ChannelOK'
<1> SUFFICES ASSUME ChannelOK, [ActorNext]_actor_vars PROVE ChannelOK'
  OBVIOUS
<1>1. CASE \E c \in Callers : TrySend(c)
  BY <1>1, SendKeepsChannel
<1>2. CASE RunCommand
  BY <1>2, RunKeepsChannel
<1>3. CASE RuntimeEnds
  BY <1>3, EndKeepsChannel
<1>4. CASE \/ \E c \in Callers : TrySendFull(c) \/ MeasureDepth(c) \/ Return(c) \/ Cancel(c)
           \/ UNCHANGED actor_vars
  <2>1. UNCHANGED <<tasks, ingress, replies, sent>>
    BY <1>4 DEF TrySendFull, MeasureDepth, Return, Cancel, actor_vars, handle_vars, vars,
                candidate_vars
  <2>2. QED
    BY <2>1 DEF ChannelOK, Message
<1>5. QED
  BY <1>1, <1>2, <1>3, <1>4 DEF ActorNext

\* No command is answered before it leaves the channel and tickets leave it in
\* order, whatever callers send, abandon and wait for.
THEOREM ChannelCorrect == ActorSpec => []ChannelOK
<1>1. ActorInit => ChannelOK
  BY EmptySeq, ActorAssumption DEF ActorInit, ChannelOK
<1>2. QED
  BY <1>1, ActorKeepsChannel, PTL DEF ActorSpec

----------------------------------------------------------------------------
(* The refinement *)

\* The open commands of the service: those in the channel.
Open == {ingress[i] : i \in 1..Len(ingress)}

\* A send that finds room is an accepted command.
LEMMA SendIsAccept ==
    ASSUME ChannelOK, NEW c \in Callers, TrySend(c)
    PROVE  Service!Accept(c)
<1>1. PICK command \in Service!CommandsOver(tasks) :
         ingress' = Append(ingress, [ticket |-> sent + 1, caller |-> c, command |-> command])
  BY DEF TrySend
<1> DEFINE message == [ticket |-> sent + 1, caller |-> c, command |-> command]
<1>2. message \in Message
  BY DEF ChannelOK, Message
<1>3. /\ Len(ingress) \in Nat
      /\ Len(ingress') = Len(ingress) + 1
      /\ \A i \in 1..Len(ingress) : ingress'[i] = ingress[i]
      /\ ingress'[Len(ingress) + 1] = message
  BY <1>1, <1>2, AppendProperties, LenProperties DEF ChannelOK
<1>4. sent + 1 \in Tickets /\ replies[sent + 1] = None
  BY ActorAssumption DEF TrySend, ChannelOK, Tickets
<1>5. \A e \in Open : e.ticket < sent + 1
  BY DEF Open, ChannelOK
<1>6. Open' = Open \cup {message}
  BY <1>3 DEF Open
<1>7. running /\ UNCHANGED <<vars, replies, running>>
  BY DEF TrySend
<1>8. QED
  BY <1>4, <1>5, <1>6, <1>7
     DEF Open, Service!Accept, Service!Tickets, Tickets, Service!vars, vars,
         Service!admission_vars, admission_vars, Service!candidate_vars, candidate_vars

\* The command taken out of the channel is its caller's oldest open one.
LEMMA RunIsServe ==
    ASSUME ChannelOK, RunCommand
    PROVE  \E e \in Open : Service!Serve(e)
<1>1. /\ Head(ingress) = ingress[1]
      /\ Len(ingress) \in Nat \ {0}
      /\ Len(Tail(ingress)) = Len(ingress) - 1
      /\ \A i \in 1..Len(Tail(ingress)) : Tail(ingress)[i] = ingress[i + 1]
  BY HeadTailProperties, LenProperties, EmptySeq DEF ChannelOK, RunCommand
<1>2. PICK e \in Open : e = Head(ingress)
  BY <1>1 DEF Open
<1>3. \A i \in 1..Len(ingress) : i # 1 => e.ticket < ingress[i].ticket
  BY <1>1, <1>2 DEF ChannelOK
<1>4. \A d \in Open : d.caller = e.caller => e.ticket <= d.ticket
  BY <1>1, <1>2, <1>3 DEF Open, ChannelOK
<1>5. Open' = Open \ {e}
  <2>1. ingress' = Tail(ingress)
    BY DEF RunCommand
  <2>2. ASSUME NEW d \in Open' PROVE d \in Open /\ d # e
    <3>1. PICK i \in 1..Len(ingress') : d = ingress'[i]
      BY DEF Open
    <3>2. d = ingress[i + 1] /\ i + 1 \in 1..Len(ingress) /\ i + 1 # 1
      BY <1>1, <2>1, <3>1
    <3>3. d \in Open
      BY <3>2 DEF Open
    <3>4. e.ticket < d.ticket /\ e.ticket \in Nat
      BY <1>1, <1>2, <1>3, <3>2 DEF ChannelOK
    <3>5. QED
      BY <3>3, <3>4
  <2>3. ASSUME NEW d \in Open, d # e PROVE d \in Open'
    <3>1. PICK i \in 1..Len(ingress) : d = ingress[i]
      BY DEF Open
    <3>2. i - 1 \in 1..Len(ingress') /\ d = ingress'[i - 1]
      BY <1>1, <1>2, <2>1, <2>3, <3>1
    <3>3. QED
      BY <3>2 DEF Open
  <2>4. QED
    BY <2>2, <2>3
<1>6. /\ running /\ UNCHANGED running
      /\ Service!Perform(e.command)
      /\ replies' = [replies EXCEPT ![e.ticket] = "applied"]
  BY <1>2 DEF RunCommand
<1>7. Service!Serve(e)
  BY <1>4, <1>5, <1>6 DEF Open, Service!Serve
<1>8. QED
  BY <1>7

\* The end of the runtime answers exactly the commands in the channel.
LEMMA EndIsClose ==
    ASSUME RuntimeEnds
    PROVE  Service!Close
<1>1. Open' = {}
  BY EmptySeq DEF RuntimeEnds, Open
<1>2. \A t : (\E i \in 1..Len(ingress) : ingress[i].ticket = t) <=> \E e \in Open : e.ticket = t
  BY DEF Open
<1>3. replies' = [t \in Tickets |->
                    IF \E e \in Open : e.ticket = t THEN "closed" ELSE replies[t]]
  BY <1>2 DEF RuntimeEnds
<1>4. running /\ running' = FALSE /\ UNCHANGED vars
  BY DEF RuntimeEnds
<1>5. QED
  BY <1>1, <1>3, <1>4
     DEF Open, Service!Close, Service!Tickets, Tickets, Service!vars, vars,
         Service!admission_vars, admission_vars, Service!candidate_vars, candidate_vars

\* Every step of the actor is one of the service, or leaves it unchanged.
LEMMA ActorStepIsServiceStep ==
    ASSUME ChannelOK, [ActorNext]_actor_vars
    PROVE  [Service!ServiceNext]_(Service!service_vars)
<1>1. CASE \E c \in Callers : TrySend(c)
  BY <1>1, SendIsAccept DEF Service!ServiceNext
<1>2. CASE RunCommand
  BY <1>2, RunIsServe DEF Service!ServiceNext, Open
<1>3. CASE RuntimeEnds
  BY <1>3, EndIsClose DEF Service!ServiceNext
<1>4. CASE \/ \E c \in Callers : TrySendFull(c) \/ MeasureDepth(c) \/ Return(c) \/ Cancel(c)
           \/ UNCHANGED actor_vars
  <2>1. UNCHANGED <<vars, ingress, replies, running>>
    BY <1>4 DEF TrySendFull, MeasureDepth, Return, Cancel, actor_vars
  <2>2. QED
    BY <2>1 DEF Service!service_vars, Service!vars, vars, Service!admission_vars, admission_vars,
                Service!candidate_vars, candidate_vars
<1>5. QED
  BY <1>1, <1>2, <1>3, <1>4 DEF ActorNext

\* The empty actor is the empty service.
LEMMA ActorStartsAsService == ActorInit => Service!ServiceInit
<1> SUFFICES ASSUME ActorInit PROVE Service!ServiceInit
  OBVIOUS
<1>1. Service!Init
  BY DEF ActorInit, Init, Service!Init, NoQueues, Service!NoQueues, Nonces, Service!Nonces
<1>2. {ingress[i] : i \in 1..Len(ingress)} = {}
  BY EmptySeq DEF ActorInit
<1>3. QED
  BY <1>1, <1>2 DEF ActorInit, Service!ServiceInit, Service!Tickets, Tickets

\* The actor with its bounded channel, its oneshots, callers that go away and a
\* runtime that ends is the atomic service: the refinement of
\* ActorImplementsService, for every capacity and every number of commands.
THEOREM ActorRefinesService == ActorSpec => ActorImplementsService
<1>1. ActorInit => Service!ServiceInit
  BY ActorStartsAsService
<1>2. ChannelOK /\ [ActorNext]_actor_vars => [Service!ServiceNext]_(Service!service_vars)
  BY ActorStepIsServiceStep
<1>3. QED
  BY <1>1, <1>2, ChannelCorrect, PTL DEF ActorSpec, ActorImplementsService, Service!ServiceSpec

\* What the runtime does to the shared state is what Scheduler does, so all that
\* is proved of Scheduler holds for the actor, whatever the callers do.
THEOREM ActorRunsScheduler == ActorSpec => Spec
<1>1. ActorInit => Init
  BY DEF ActorInit
<1>2. ChannelOK /\ [ActorNext]_actor_vars => [Next]_vars
  <2> SUFFICES ASSUME ChannelOK, [ActorNext]_actor_vars PROVE [Next]_vars
    OBVIOUS
  <2>1. CASE RunCommand
    <3>1. Head(ingress) \in Message
      BY <2>1, HeadTailProperties DEF ChannelOK, RunCommand
    <3>2. QED
      BY <2>1, <3>1, PerformIsNext DEF RunCommand, Message
  <2>2. CASE ~RunCommand
    BY <2>2 DEF ActorNext, TrySend, TrySendFull, MeasureDepth, Return, Cancel, RuntimeEnds,
                actor_vars
  <2>3. QED
    BY <2>1, <2>2
<1>3. QED
  BY <1>1, <1>2, ChannelCorrect, PTL DEF ActorSpec, Spec

\* A result that was settled, re-registered or invalidated while its command
\* waited in the channel is rejected when its turn comes.
THEOREM ActorRejectsStale == ActorSpec => []StaleResultsRejected
BY ActorRunsScheduler, StaleNeverAccepted, PTL

----------------------------------------------------------------------------
(* Pools: what a restart builds a scheduler from *)

Queues == [Senders -> [Nonces -> Hashes \cup {None}]]

\* The nonces of one queue that hold a hash.
Used(queue) == {n \in Nonces : queue[n] # None}

\* A pool as `from_persisted_snapshot` requires it: the queues and the pending map
\* agree and no sender is over its limit.
SoundPool(p, queues) ==
    /\ p \subseteq Hashes
    /\ queues \in Queues
    /\ \A s \in Senders, n \in Nonces : queues[s][n] # None =>
         /\ queues[s][n] \in p
         /\ Tx[queues[s][n]].sender = s
         /\ Tx[queues[s][n]].nonce = n
    /\ \A h \in p : SlotOf(queues, h) = h
    /\ \A s \in Senders : Cardinality(Used(queues[s])) <= MaxPendingPerSender

PoolRecord == [pending : SUBSET Hashes, sender_queues : Queues, metrics : Metrics]

\* The scheduler holds a sound pool.
LEMMA PoolIsSound ==
    ASSUME TypeOK, QueuesMatchPending, SenderLimitHolds
    PROVE  SoundPool(pending, sender_queues)
BY DEF TypeOK, QueuesMatchPending, SenderLimitHolds, SenderQueueLen, Used, SoundPool, Queues,
       Incumbent

\* The slots of a pool after h was placed.
LEMMA PlacedIn ==
    ASSUME NEW pool \in PoolRecord, NEW h \in Hashes, NEW removed
    PROVE  LET placed == PlaceIn(pool, h, removed)
           IN  /\ placed \in PoolRecord
               /\ placed.pending = (pool.pending \ {removed}) \cup {h}
               /\ \A s \in Senders, n \in Nonces : placed.sender_queues[s][n] =
                    IF s = Tx[h].sender /\ n = Tx[h].nonce THEN h ELSE pool.sender_queues[s][n]
<1> DEFINE placed == PlaceIn(pool, h, removed)
           queues == [pool.sender_queues EXCEPT ![Tx[h].sender][Tx[h].nonce] = h]
           counted == [pool.metrics EXCEPT !.admitted_total = Bump(@)]
<1>1. Tx[h].sender \in Senders /\ Tx[h].nonce \in Nonces
  BY TxType
<1>2. queues \in Queues
  BY <1>1 DEF PoolRecord, Queues
<1>3. counted \in Metrics
  BY BumpType DEF PoolRecord, Metrics
<1>4. /\ placed.pending = (pool.pending \ {removed}) \cup {h}
      /\ placed.sender_queues = queues
      /\ placed.metrics = counted
      /\ placed = [pending |-> placed.pending, sender_queues |-> placed.sender_queues,
                   metrics |-> placed.metrics]
  <2>1. placed = [pool EXCEPT !.pending = (@ \ {removed}) \cup {h},
                              !.sender_queues = queues, !.metrics = counted]
    BY DEF PlaceIn
  <2> HIDE DEF placed, queues, counted
  <2>2. QED
    BY <2>1 DEF PoolRecord
<1>5. (pool.pending \ {removed}) \cup {h} \in SUBSET Hashes
  BY DEF PoolRecord
<1>6. \A s \in Senders, n \in Nonces :
         queues[s][n] = IF s = Tx[h].sender /\ n = Tx[h].nonce THEN h ELSE pool.sender_queues[s][n]
  BY <1>1 DEF PoolRecord, Queues
<1> HIDE DEF placed, queues, counted
<1>7. placed \in PoolRecord
  BY <1>2, <1>3, <1>4, <1>5 DEF PoolRecord
<1>8. QED
  BY <1>4, <1>6, <1>7 DEF placed

\* Placing a transaction in its slot keeps a pool sound, if the slot was used or the sender
\* below its limit.
LEMMA PlacedIsSound ==
    ASSUME NEW p, NEW queues, SoundPool(p, queues), NEW h \in Hashes, h \notin p,
           NEW q \in Queues,
           \A s \in Senders, n \in Nonces :
              q[s][n] = IF s = Tx[h].sender /\ n = Tx[h].nonce THEN h ELSE queues[s][n],
           \/ SlotOf(queues, h) # None
           \/ Cardinality(Used(queues[Tx[h].sender])) < MaxPendingPerSender
    PROVE  SoundPool((p \ {SlotOf(queues, h)}) \cup {h}, q)
<1> DEFINE removed == SlotOf(queues, h)
           left == (p \ {removed}) \cup {h}
<1>1. Tx[h].sender \in Senders /\ Tx[h].nonce \in Nonces
  BY TxType
<1>2. left \subseteq Hashes
  BY DEF SoundPool
<1>3. h # None
  BY TransactionAssumption
<1>4. ASSUME NEW s \in Senders, NEW n \in Nonces, q[s][n] # None
      PROVE  q[s][n] \in left /\ Tx[q[s][n]].sender = s /\ Tx[q[s][n]].nonce = n
  <2>1. CASE s = Tx[h].sender /\ n = Tx[h].nonce
    BY <2>1
  <2>2. CASE ~(s = Tx[h].sender /\ n = Tx[h].nonce)
    <3>1. /\ q[s][n] = queues[s][n]
          /\ queues[s][n] \in p /\ Tx[queues[s][n]].sender = s /\ Tx[queues[s][n]].nonce = n
      BY <1>4, <2>2 DEF SoundPool
    <3>2. queues[s][n] # removed
      BY <1>1, <1>4, <2>2, <3>1 DEF SoundPool, SlotOf
    <3>3. QED
      BY <3>1, <3>2
  <2>3. QED
    BY <2>1, <2>2
<1>5. ASSUME NEW g \in left PROVE SlotOf(q, g) = g
  <2>1. CASE g = h
    BY <1>1, <2>1 DEF SlotOf
  <2>2. CASE g # h
    <3>1. g \in p /\ g # removed /\ SlotOf(queues, g) = g
      BY <1>5, <2>2 DEF SoundPool
    <3>2. Tx[g].sender \in Senders /\ Tx[g].nonce \in Nonces
      BY <3>1, TxType DEF SoundPool
    <3>3. ~(Tx[g].sender = Tx[h].sender /\ Tx[g].nonce = Tx[h].nonce)
      BY <3>1 DEF SlotOf
    <3>4. QED
      BY <3>1, <3>2, <3>3 DEF SlotOf
  <2>3. QED
    BY <2>1, <2>2
<1>6. ASSUME NEW s \in Senders PROVE Cardinality(Used(q[s])) <= MaxPendingPerSender
  <2>0. IsFiniteSet(Used(queues[s])) /\ Cardinality(Used(queues[s])) \in Nat
    BY NoncesFinite DEF Used
  <2>1. CASE s # Tx[h].sender
    <3>1. Used(q[s]) = Used(queues[s])
      BY <2>1 DEF Used
    <3>2. QED
      BY <3>1 DEF SoundPool
  <2>2. CASE s = Tx[h].sender
    <3>1. Used(q[s]) = Used(queues[s]) \cup {Tx[h].nonce}
      BY <1>1, <1>3, <2>2 DEF Used
    <3>2. CASE SlotOf(queues, h) # None
      <4>1. Used(q[s]) = Used(queues[s])
        BY <1>1, <2>2, <3>1, <3>2 DEF SlotOf, Used
      <4>2. QED
        BY <4>1 DEF SoundPool
    <3>3. CASE Cardinality(Used(queues[s])) < MaxPendingPerSender
      <4> DEFINE size == Cardinality(Used(queues[s]))
                 grown == Cardinality(Used(queues[s]) \cup {Tx[h].nonce})
      <4>1. grown = size \/ grown = size + 1
        BY <2>0, FS_AddElement
      <4>2. size \in Nat /\ size < MaxPendingPerSender
        BY <2>0, <3>3
      <4>3. Cardinality(Used(q[s])) = grown
        BY <3>1
      <4> HIDE DEF size, grown
      <4>4. QED
        BY <4>1, <4>2, <4>3, SchedulerAssumption
    <3>4. QED
      BY <2>2, <3>2, <3>3
  <2>3. QED
    BY <2>1, <2>2
<1>7. QED
  BY <1>2, <1>4, <1>5, <1>6 DEF SoundPool

\* `replacement_threshold_fee` is a number for every transaction.
LEMMA ThresholdType ==
    ASSUME NEW h \in Hashes
    PROVE  ReplacementThresholdFee(h) \in Nat
<1> DEFINE product == ReplacementFee(h) * (10000 + FeeBumpBps)
<1>1. product \in Nat
  BY ReplacementFeeType, SchedulerAssumption
<1>2. Saturate(product, U128Max) \in Nat
  BY <1>1, SchedulerAssumption DEF Saturate
<1>3. QED
  BY <1>2, DivCeilBound DEF ReplacementThresholdFee

\* What `admit` makes of a pool under construction, one case per outcome.
LEMMA AdmitIntoCases ==
    ASSUME NEW pool \in PoolRecord, SoundPool(pool.pending, pool.sender_queues), NEW h \in Hashes
    PROVE  LET next == AdmitInto(pool, h)
               incumbent == SlotOf(pool.sender_queues, h)
           IN  /\ next \in PoolRecord
               /\ \/ /\ next.pending = pool.pending
                     /\ next.sender_queues = pool.sender_queues
                     /\ \/ h \in pool.pending
                        \/ /\ incumbent \in pool.pending
                           /\ ReplacementFee(h) < ReplacementThresholdFee(incumbent)
                        \/ /\ incumbent = None
                           /\ Cardinality(Used(pool.sender_queues[Tx[h].sender]))
                                >= MaxPendingPerSender
                  \/ /\ h \notin pool.pending
                     /\ \/ /\ incumbent \in pool.pending
                           /\ ReplacementFee(h) >= ReplacementThresholdFee(incumbent)
                        \/ /\ incumbent = None
                           /\ Cardinality(Used(pool.sender_queues[Tx[h].sender]))
                                < MaxPendingPerSender
                     /\ next.pending = (pool.pending \ {incumbent}) \cup {h}
                     /\ \A s \in Senders, n \in Nonces : next.sender_queues[s][n] =
                          IF s = Tx[h].sender /\ n = Tx[h].nonce THEN h
                          ELSE pool.sender_queues[s][n]
<1> DEFINE next == AdmitInto(pool, h)
           incumbent == SlotOf(pool.sender_queues, h)
           used == Used(pool.sender_queues[Tx[h].sender])
           placed == PlaceIn(pool, h, incumbent)
<1>1. Tx[h].sender \in Senders /\ Tx[h].nonce \in Nonces
  BY TxType
<1>2. incumbent # None => incumbent \in pool.pending
  BY <1>1 DEF SoundPool, SlotOf
<1>3. None \notin pool.pending
  BY TransactionAssumption DEF SoundPool
<1>4. /\ placed \in PoolRecord
      /\ placed.pending = (pool.pending \ {incumbent}) \cup {h}
      /\ \A s \in Senders, n \in Nonces : placed.sender_queues[s][n] =
           IF s = Tx[h].sender /\ n = Tx[h].nonce THEN h ELSE pool.sender_queues[s][n]
  BY PlacedIn
<1>5. ASSUME NEW other \in PoolRecord
      PROVE  /\ [other EXCEPT !.metrics.duplicate_total = Bump(@)] \in PoolRecord
             /\ [other EXCEPT !.metrics.duplicate_total = Bump(@)].pending = other.pending
             /\ [other EXCEPT !.metrics.duplicate_total = Bump(@)].sender_queues = other.sender_queues
             /\ [other EXCEPT !.metrics.underpriced_replacement_total = Bump(@)] \in PoolRecord
             /\ [other EXCEPT !.metrics.underpriced_replacement_total = Bump(@)].pending = other.pending
             /\ [other EXCEPT !.metrics.underpriced_replacement_total = Bump(@)].sender_queues
                  = other.sender_queues
             /\ [other EXCEPT !.metrics.sender_limit_drop_total = Bump(@)] \in PoolRecord
             /\ [other EXCEPT !.metrics.sender_limit_drop_total = Bump(@)].pending = other.pending
             /\ [other EXCEPT !.metrics.sender_limit_drop_total = Bump(@)].sender_queues
                  = other.sender_queues
             /\ [other EXCEPT !.metrics.replacement_total = Bump(@)] \in PoolRecord
             /\ [other EXCEPT !.metrics.replacement_total = Bump(@)].pending = other.pending
             /\ [other EXCEPT !.metrics.replacement_total = Bump(@)].sender_queues = other.sender_queues
  BY BumpType DEF PoolRecord, Metrics
<1>6. CASE h \in pool.pending
  <2>1. next = [pool EXCEPT !.metrics.duplicate_total = Bump(@)]
    BY <1>6 DEF AdmitInto
  <2> HIDE DEF next
  <2>2. QED
    BY <1>5, <1>6, <2>1 DEF next
<1>7. CASE h \notin pool.pending /\ incumbent \in pool.pending
  <2>1. ReplacementFee(h) \in Nat /\ ReplacementThresholdFee(incumbent) \in Nat
    <3>1. incumbent \in Hashes
      BY <1>7 DEF SoundPool
    <3>2. QED
      BY <3>1, ReplacementFeeType, ThresholdType
  <2>2. CASE ReplacementFee(h) >= ReplacementThresholdFee(incumbent)
    <3>1. next = [placed EXCEPT !.metrics.replacement_total = Bump(@)]
      BY <1>7, <2>2 DEF AdmitInto
    <3> HIDE DEF next, placed
    <3>2. next \in PoolRecord /\ next.pending = placed.pending /\ next.sender_queues = placed.sender_queues
      BY <1>4, <1>5, <3>1
    <3>3. QED
      BY <1>4, <1>7, <2>2, <3>2 DEF next
  <2>3. CASE ~(ReplacementFee(h) >= ReplacementThresholdFee(incumbent))
    <3>1. next = [pool EXCEPT !.metrics.underpriced_replacement_total = Bump(@)]
      BY <1>7, <2>3 DEF AdmitInto
    <3>2. ReplacementFee(h) < ReplacementThresholdFee(incumbent)
      BY <2>1, <2>3
    <3> HIDE DEF next
    <3>3. QED
      BY <1>5, <1>7, <3>1, <3>2 DEF next
  <2>4. QED
    BY <2>2, <2>3
<1>8. CASE h \notin pool.pending /\ incumbent \notin pool.pending
  <2>1. incumbent = None
    BY <1>2, <1>8
  <2>2. Cardinality(used) \in Nat
    BY NoncesFinite DEF Used
  <2>3. used = {n \in Nonces : pool.sender_queues[Tx[h].sender][n] # None}
    BY DEF Used
  <2>4. CASE Cardinality(used) >= MaxPendingPerSender
    <3>1. next = [pool EXCEPT !.metrics.sender_limit_drop_total = Bump(@)]
      BY <1>8, <2>1, <2>3, <2>4 DEF AdmitInto
    <3> HIDE DEF next
    <3>2. QED
      BY <1>5, <2>1, <2>4, <3>1 DEF next
  <2>5. CASE ~(Cardinality(used) >= MaxPendingPerSender)
    <3>1. next = placed
      BY <1>8, <2>1, <2>3, <2>5 DEF AdmitInto
    <3>2. Cardinality(used) < MaxPendingPerSender
      BY <2>2, <2>5, SchedulerAssumption
    <3> HIDE DEF next, placed
    <3>3. QED
      BY <1>4, <1>8, <2>1, <3>1, <3>2 DEF next
  <2>6. QED
    BY <2>4, <2>5
<1>9. QED
  BY <1>6, <1>7, <1>8

\* It keeps the pool sound.
LEMMA AdmitIntoSound ==
    ASSUME NEW pool \in PoolRecord, SoundPool(pool.pending, pool.sender_queues), NEW h \in Hashes
    PROVE  /\ AdmitInto(pool, h) \in PoolRecord
           /\ SoundPool(AdmitInto(pool, h).pending, AdmitInto(pool, h).sender_queues)
<1> DEFINE next == AdmitInto(pool, h)
           incumbent == SlotOf(pool.sender_queues, h)
<1> HIDE DEF next
<1>1. /\ next \in PoolRecord
      /\ \/ next.pending = pool.pending /\ next.sender_queues = pool.sender_queues
         \/ /\ h \notin pool.pending
            /\ \/ incumbent \in pool.pending
               \/ /\ incumbent = None
                  /\ Cardinality(Used(pool.sender_queues[Tx[h].sender])) < MaxPendingPerSender
            /\ next.pending = (pool.pending \ {incumbent}) \cup {h}
            /\ \A s \in Senders, n \in Nonces : next.sender_queues[s][n] =
                 IF s = Tx[h].sender /\ n = Tx[h].nonce THEN h ELSE pool.sender_queues[s][n]
  BY AdmitIntoCases DEF next
<1>2. next.sender_queues \in Queues
  BY <1>1 DEF PoolRecord
<1>3. None \notin pool.pending
  BY TransactionAssumption DEF SoundPool
<1>4. SoundPool(next.pending, next.sender_queues)
  BY <1>1, <1>2, <1>3, PlacedIsSound
<1>5. QED
  BY <1>1, <1>4 DEF next

----------------------------------------------------------------------------
(* The replay of the tail *)

EventRecord == [kind : {"decoded", "dropped", "replaced"}, hash : Hashes]

\* The pool after n events of the tail, of f for the events before.
ReplayAt(f, pool, tail, n) ==
    IF n = 0 THEN pool
    ELSE IF tail[n].kind \in {"decoded", "reorged"}
         THEN AdmitInto(f[n - 1], tail[n].hash) ELSE f[n - 1]

\* f holds the pools that a replay goes through.
Replays(f, pool, tail) == f = [n \in 0..Len(tail) |-> ReplayAt(f, pool, tail, n)]

\* The step looks at the pool before it only.
LEMMA ReplayAtLocal ==
    ASSUME NEW f, NEW g, NEW pool, NEW tail, NEW n, n # 0 => f[n - 1] = g[n - 1]
    PROVE  ReplayAt(f, pool, tail, n) = ReplayAt(g, pool, tail, n)
BY DEF ReplayAt

\* A replay is well defined.
LEMMA ReplaysExist ==
    ASSUME NEW pool, NEW tail, Len(tail) \in Nat
    PROVE  \E f : Replays(f, pool, tail)
<1> DEFINE Good == {m \in Nat : \E f : f = [n \in 0..m |-> ReplayAt(f, pool, tail, n)]}
<1>1. 0 \in Good
  <2>1. PICK f : f = [n \in 0..0 |-> pool]
    OBVIOUS
  <2>2. \A n \in 0..0 : ReplayAt(f, pool, tail, n) = pool
    BY DEF ReplayAt
  <2>3. f = [n \in 0..0 |-> ReplayAt(f, pool, tail, n)]
    BY <2>1, <2>2
  <2>4. QED
    BY <2>3
<1>2. ASSUME NEW m \in Nat, m \in Good PROVE m + 1 \in Good
  <2>1. PICK f : f = [n \in 0..m |-> ReplayAt(f, pool, tail, n)]
    BY <1>2
  <2>2. PICK g : g = [n \in 0..(m + 1) |-> ReplayAt(f, pool, tail, n)]
    OBVIOUS
  <2>3. \A n \in 0..m : f[n] = ReplayAt(f, pool, tail, n)
    BY <2>1
  <2>4. \A n \in 0..(m + 1) : g[n] = ReplayAt(f, pool, tail, n)
    BY <2>2
  <2>5. \A n \in 0..(m + 1) : n # 0 => g[n - 1] = f[n - 1]
    <3> SUFFICES ASSUME NEW n \in 0..(m + 1), n # 0 PROVE g[n - 1] = f[n - 1]
      OBVIOUS
    <3>1. n - 1 \in 0..m /\ n - 1 \in 0..(m + 1)
      OBVIOUS
    <3>2. QED
      BY <2>3, <2>4, <3>1
  <2>6. \A n \in 0..(m + 1) : ReplayAt(g, pool, tail, n) = ReplayAt(f, pool, tail, n)
    BY <2>5, ReplayAtLocal
  <2>7. g = [n \in 0..(m + 1) |-> ReplayAt(g, pool, tail, n)]
    BY <2>2, <2>6
  <2>8. QED
    BY <2>7
<1> HIDE DEF Good
<1>3. Len(tail) \in Good
  BY <1>1, <1>2, NatSetInduction
<1>4. QED
  BY <1>3 DEF Good, Replays

\* The replay of a tail is the last pool of such a function.
LEMMA ReplayIsLast ==
    ASSUME NEW pool, NEW tail, Len(tail) \in Nat
    PROVE  \E f : /\ f[0] = pool
                  /\ \A n \in 1..Len(tail) : f[n] = ReplayAt(f, pool, tail, n)
                  /\ ReplayTransactions(pool, tail) = f[Len(tail)]
<1> DEFINE f == CHOOSE g : Replays(g, pool, tail)
<1>1. Replays(f, pool, tail)
  BY ReplaysExist
<1>2. ReplayTransactions(pool, tail) = f[Len(tail)]
  BY DEF ReplayTransactions, Replays, ReplayAt
<1> HIDE DEF f
<1>3. \A n \in 0..Len(tail) : f[n] = ReplayAt(f, pool, tail, n)
  BY <1>1 DEF Replays
<1>4. f[0] = pool
  BY <1>3 DEF ReplayAt
<1>5. QED
  BY <1>2, <1>3, <1>4

\* Replaying any tail on a sound pool gives a sound pool.
LEMMA ReplaySound ==
    ASSUME NEW pool \in PoolRecord, SoundPool(pool.pending, pool.sender_queues),
           NEW tail \in Seq(EventRecord)
    PROVE  LET last == ReplayTransactions(pool, tail)
           IN  last \in PoolRecord /\ SoundPool(last.pending, last.sender_queues)
<1>1. Len(tail) \in Nat
  OBVIOUS
<1>2. PICK f : /\ f[0] = pool
               /\ \A n \in 1..Len(tail) : f[n] = ReplayAt(f, pool, tail, n)
               /\ ReplayTransactions(pool, tail) = f[Len(tail)]
  BY <1>1, ReplayIsLast
<1> DEFINE Good == {n \in Nat : n <= Len(tail) =>
                      f[n] \in PoolRecord /\ SoundPool(f[n].pending, f[n].sender_queues)}
<1>3. 0 \in Good
  BY <1>2
<1>4. ASSUME NEW n \in Nat, n \in Good PROVE n + 1 \in Good
  <2> SUFFICES ASSUME n + 1 <= Len(tail)
               PROVE  /\ f[n + 1] \in PoolRecord
                      /\ SoundPool(f[n + 1].pending, f[n + 1].sender_queues)
    OBVIOUS
  <2>1. f[n] \in PoolRecord /\ SoundPool(f[n].pending, f[n].sender_queues)
    BY <1>4, <1>1
  <2>2. n + 1 \in 1..Len(tail) /\ (n + 1) - 1 = n /\ n + 1 # 0
    BY <1>1
  <2>3. tail[n + 1].hash \in Hashes
    <3>1. tail[n + 1] \in EventRecord
      BY <2>2, ElementOfSeq
    <3>2. QED
      BY <3>1 DEF EventRecord
  <2>4. f[n + 1] = f[n] \/ f[n + 1] = AdmitInto(f[n], tail[n + 1].hash)
    BY <1>2, <2>2 DEF ReplayAt
  <2>5. QED
    BY <2>1, <2>3, <2>4, AdmitIntoSound
<1> HIDE DEF Good
<1>5. Len(tail) \in Good
  BY <1>1, <1>3, <1>4, NatSetInduction
<1>6. QED
  BY <1>1, <1>2, <1>5 DEF Good

----------------------------------------------------------------------------
(* The snapshot: pruning it and restoring it *)

SnapshotRecord ==
    [event_seq_hi : Nat, pending : SUBSET Hashes, sender_queues : Queues,
     executable_frontier : SUBSET Hashes, life : Nat]

\* A snapshot as the writer captures it.
SoundSnapshot(snap) ==
    /\ snap \in SnapshotRecord
    /\ SoundPool(snap.pending, snap.sender_queues)
    /\ snap.executable_frontier = ExecutableFrontier(snap)

\* What pruning leaves of a sound snapshot.
LEMMA PrunedSound ==
    ASSUME NEW snap, SoundSnapshot(snap), NEW tail
    PROVE  LET pruned == Sanitize(snap, tail)
           IN  /\ pruned \in SnapshotRecord
               /\ SoundPool(pruned.pending, pruned.sender_queues)
               /\ pruned.pending = snap.pending \ RemovedHashes(tail)
               /\ \A s \in Senders, n \in Nonces : pruned.sender_queues[s][n] =
                    IF snap.sender_queues[s][n] \in RemovedHashes(tail) THEN None
                    ELSE snap.sender_queues[s][n]
<1> DEFINE removed == RemovedHashes(tail)
           queues == [s \in Senders |->
                        [n \in Nonces |-> IF snap.sender_queues[s][n] \in removed
                                          THEN None ELSE snap.sender_queues[s][n]]]
           pruned == Sanitize(snap, tail)
<1>1. snap \in SnapshotRecord /\ SoundPool(snap.pending, snap.sender_queues)
  BY DEF SoundSnapshot
<1>2. removed \subseteq Hashes
  BY DEF RemovedHashes
<1> HIDE DEF removed
<1>3. pruned = [snap EXCEPT !.pending = @ \ removed, !.executable_frontier = @ \ removed,
                            !.sender_queues = queues]
  BY DEF Sanitize, removed
<1>4. queues \in Queues
  BY <1>1 DEF SnapshotRecord, Queues
<1> HIDE DEF pruned, queues
<1>5. /\ pruned \in SnapshotRecord
      /\ pruned.pending = snap.pending \ removed
      /\ pruned.sender_queues = queues
  BY <1>1, <1>3, <1>4 DEF SnapshotRecord
<1>6. \A s \in Senders, n \in Nonces : queues[s][n] =
         IF snap.sender_queues[s][n] \in removed THEN None ELSE snap.sender_queues[s][n]
  BY DEF queues
<1>7. ASSUME NEW s \in Senders, NEW n \in Nonces, queues[s][n] # None
      PROVE  /\ queues[s][n] \in snap.pending \ removed
             /\ Tx[queues[s][n]].sender = s
             /\ Tx[queues[s][n]].nonce = n
  BY <1>1, <1>6, <1>7 DEF SoundPool
<1>8. ASSUME NEW h \in snap.pending \ removed PROVE SlotOf(queues, h) = h
  <2>1. Tx[h].sender \in Senders /\ Tx[h].nonce \in Nonces
    BY <1>1, TxType DEF SoundPool
  <2>2. QED
    BY <1>1, <1>6, <2>1 DEF SoundPool, SlotOf
<1>9. ASSUME NEW s \in Senders PROVE Cardinality(Used(queues[s])) <= MaxPendingPerSender
  <2>1. Used(queues[s]) \subseteq Used(snap.sender_queues[s])
    BY <1>6 DEF Used
  <2>2. IsFiniteSet(Used(snap.sender_queues[s])) /\ Cardinality(Used(snap.sender_queues[s])) \in Nat
    BY NoncesFinite DEF Used
  <2>3. /\ Cardinality(Used(queues[s])) <= Cardinality(Used(snap.sender_queues[s]))
        /\ Cardinality(Used(queues[s])) \in Nat
    BY <2>1, <2>2, FS_Subset, FS_CardinalityType
  <2>4. Cardinality(Used(snap.sender_queues[s])) <= MaxPendingPerSender
    BY <1>1 DEF SoundPool
  <2>5. QED
    BY <2>2, <2>3, <2>4, SchedulerAssumption
<1>10. SoundPool(snap.pending \ removed, queues)
  BY <1>1, <1>4, <1>7, <1>8, <1>9 DEF SoundPool
<1>11. QED
  BY <1>5, <1>6, <1>10 DEF removed, pruned

\* A sound snapshot is restored as the pool it holds: `build_sender_queues_from_pending`
\* only runs for an empty one.
LEMMA RestoredSound ==
    ASSUME NEW snap \in SnapshotRecord, SoundPool(snap.pending, snap.sender_queues)
    PROVE  LET pool == RestoredPool(snap)
           IN  /\ pool \in PoolRecord
               /\ pool.pending = snap.pending
               /\ pool.sender_queues = snap.sender_queues
               /\ SoundPool(pool.pending, pool.sender_queues)
<1> DEFINE pool == RestoredPool(snap)
<1>1. ASSUME snap.sender_queues = NoQueues PROVE QueuesOfPending(snap.pending) = NoQueues
  <2>1. snap.pending = {}
    <3> SUFFICES ASSUME NEW h \in snap.pending PROVE FALSE
      OBVIOUS
    <3>1. h \in Hashes /\ SlotOf(snap.sender_queues, h) = h
      BY DEF SoundPool
    <3>2. SlotOf(snap.sender_queues, h) = None
      BY <1>1, <3>1, TxType DEF NoQueues, SlotOf
    <3>3. QED
      BY <3>1, <3>2, TransactionAssumption
  <2>2. QueuesOfPending({}) = NoQueues
    BY DEF QueuesOfPending, NoQueues
  <2>3. QED
    BY <2>1, <2>2
<1>2. pool.sender_queues = snap.sender_queues
  BY <1>1 DEF RestoredPool
<1>3. /\ pool = [pending |-> pool.pending, metrics |-> pool.metrics,
                 sender_queues |-> pool.sender_queues]
      /\ pool.pending = snap.pending
      /\ pool.metrics = NoMetrics
  BY DEF RestoredPool
<1>4. NoMetrics \in Metrics
  BY SchedulerAssumption DEF NoMetrics, Metrics
<1> HIDE DEF pool
<1>5. pool \in PoolRecord
  BY <1>2, <1>3, <1>4 DEF PoolRecord, SnapshotRecord
<1>6. QED
  BY <1>2, <1>3, <1>5 DEF pool

\* A pruned snapshot of a sound one is never refused as inconsistent.
LEMMA OnlyFrontierFails ==
    ASSUME NEW snap, SoundSnapshot(snap), NEW tail
    PROVE  SnapshotError(Sanitize(snap, tail)) \in {None, "frontier"}
<1> DEFINE pruned == Sanitize(snap, tail)
<1>1. SoundPool(pruned.pending, pruned.sender_queues)
  BY PrunedSound
<1> HIDE DEF pruned
<1>2. \A entry \in QueueEntries(pruned) :
         LET h == pruned.sender_queues[entry[1]][entry[2]]
         IN  h \in pruned.pending /\ <<Tx[h].sender, Tx[h].nonce>> = entry
  <2> SUFFICES ASSUME NEW entry \in QueueEntries(pruned)
               PROVE  LET h == pruned.sender_queues[entry[1]][entry[2]]
                      IN  h \in pruned.pending /\ <<Tx[h].sender, Tx[h].nonce>> = entry
    OBVIOUS
  <2>1. /\ entry[1] \in Senders /\ entry[2] \in Nonces /\ entry = <<entry[1], entry[2]>>
        /\ pruned.sender_queues[entry[1]][entry[2]] # None
    BY DEF QueueEntries
  <2>2. QED
    BY <1>1, <2>1 DEF SoundPool
<1>3. SnapshotError(pruned) =
        IF /\ pruned.executable_frontier # {}
           /\ ExecutableFrontier(RestoredPool(pruned)) # pruned.executable_frontier
        THEN "frontier" ELSE None
  BY <1>2 DEF SnapshotError
<1>4. QED
  BY <1>3 DEF pruned

\* ... and its frontier is the one of the pool, unless something was removed from it.
LEMMA UntouchedFrontierHolds ==
    ASSUME NEW snap, SoundSnapshot(snap), NEW tail, RemovedHashes(tail) \cap snap.pending = {}
    PROVE  /\ SnapshotError(Sanitize(snap, tail)) = None
           /\ Sanitize(snap, tail).pending = snap.pending
           /\ Sanitize(snap, tail).sender_queues = snap.sender_queues
<1> DEFINE removed == RemovedHashes(tail)
           pruned == Sanitize(snap, tail)
           queues == [s \in Senders |->
                        [n \in Nonces |-> IF snap.sender_queues[s][n] \in removed
                                          THEN None ELSE snap.sender_queues[s][n]]]
<1>1. /\ snap \in SnapshotRecord /\ SoundPool(snap.pending, snap.sender_queues)
      /\ snap.executable_frontier = ExecutableFrontier(snap)
  BY DEF SoundSnapshot
<1>2. removed \subseteq Hashes
  BY DEF RemovedHashes
<1>3. pruned = [snap EXCEPT !.pending = @ \ removed, !.executable_frontier = @ \ removed,
                            !.sender_queues = queues]
  BY DEF Sanitize
<1>4. snap.pending \ removed = snap.pending
  OBVIOUS
<1>5. snap.executable_frontier \ removed = snap.executable_frontier
  BY <1>1 DEF ExecutableFrontier
<1>6. \A s \in Senders, n \in Nonces : snap.sender_queues[s][n] \notin removed
  BY <1>1, <1>2, TransactionAssumption DEF SoundPool
<1>7. queues = snap.sender_queues
  BY <1>1, <1>6 DEF SnapshotRecord, Queues
<1> HIDE DEF pruned, queues, removed
<1>8. /\ pruned \in SnapshotRecord
      /\ pruned.pending = snap.pending
      /\ pruned.executable_frontier = snap.executable_frontier
      /\ pruned.sender_queues = snap.sender_queues
  BY <1>1, <1>3, <1>4, <1>5, <1>7 DEF SnapshotRecord
<1>9. /\ RestoredPool(pruned).pending = snap.pending
      /\ RestoredPool(pruned).sender_queues = snap.sender_queues
  BY <1>1, <1>8, RestoredSound
<1>10. ExecutableFrontier(RestoredPool(pruned)) = ExecutableFrontier(snap)
  BY <1>9 DEF ExecutableFrontier
<1>11. SnapshotError(pruned) # "frontier"
  BY <1>1, <1>8, <1>10, RehydrationAssumption DEF SnapshotError
<1>12. SnapshotError(pruned) \in {None, "frontier"}
  BY OnlyFrontierFails DEF pruned
<1>13. QED
  BY <1>8, <1>11, <1>12 DEF pruned

----------------------------------------------------------------------------
(* Installing a pool *)

\* The slots that hold a hash of H.
SlotsHolding(queues, H) == {slot \in Senders \X Nonces : queues[slot[1]][slot[2]] \in H}

\* In a sound pool there are as many of them as hashes.
LEMMA OneSlotEach ==
    ASSUME NEW p, NEW queues, SoundPool(p, queues), NEW H \in SUBSET p
    PROVE  Cardinality(SlotsHolding(queues, H)) = Cardinality(H)
<1> DEFINE slots == SlotsHolding(queues, H)
           f == [slot \in slots |-> queues[slot[1]][slot[2]]]
<1>1. IsFiniteSet(slots)
  <2>1. IsFiniteSet(Senders \X Nonces)
    BY FS_Product, NoncesFinite, SchedulerAssumption
  <2>2. slots \subseteq Senders \X Nonces
    BY DEF SlotsHolding
  <2>3. QED
    BY <2>1, <2>2, FS_Subset
<1>2. f \in [slots -> H]
  BY DEF SlotsHolding
<1>3. \A slot \in slots : /\ slot[1] \in Senders /\ slot[2] \in Nonces
                          /\ slot = <<slot[1], slot[2]>>
                          /\ queues[slot[1]][slot[2]] \in H
  BY DEF SlotsHolding
<1>4. None \notin H
  BY TransactionAssumption DEF SoundPool
<1>5. ASSUME NEW a \in slots, NEW b \in slots, f[a] = f[b] PROVE a = b
  <2>1. f[a] = queues[a[1]][a[2]] /\ f[b] = queues[b[1]][b[2]]
    OBVIOUS
  <2>2. Tx[f[a]].sender = a[1] /\ Tx[f[a]].nonce = a[2]
    BY <1>3, <1>4, <2>1 DEF SoundPool
  <2>3. Tx[f[b]].sender = b[1] /\ Tx[f[b]].nonce = b[2]
    BY <1>3, <1>4, <2>1 DEF SoundPool
  <2>4. QED
    BY <1>3, <1>5, <2>2, <2>3
<1>6. ASSUME NEW h \in H PROVE \E slot \in slots : f[slot] = h
  <2>1. h \in Hashes /\ SlotOf(queues, h) = h
    BY DEF SoundPool
  <2>2. Tx[h].sender \in Senders /\ Tx[h].nonce \in Nonces
    BY <2>1, TxType
  <2>3. <<Tx[h].sender, Tx[h].nonce>> \in slots
    BY <2>1, <2>2 DEF SlotsHolding, SlotOf
  <2>4. f[<<Tx[h].sender, Tx[h].nonce>>] = h
    BY <2>1, <2>3 DEF SlotOf
  <2>5. QED
    BY <2>3, <2>4
<1> HIDE DEF f, slots
<1>7. f \in Bijection(slots, H)
  BY <1>2, <1>5, <1>6 DEF Bijection, Injection, Surjection, IsInjective
<1>8. ExistsBijection(slots, H)
  BY <1>7 DEF ExistsBijection
<1>9. QED
  BY <1>1, <1>8, FS_Bijection DEF slots

\* A scheduler made from a sound pool is consistent: `recompute_queue_counts` counts
\* what the totals are compared with.
LEMMA InstalledConsistent ==
    ASSUME NEW pool \in PoolRecord, SoundPool(pool.pending, pool.sender_queues), Install(pool)
    PROVE  /\ TypeOK'
           /\ QueuesMatchPending'
           /\ SenderLimitHolds'
           /\ TotalsMatchRecount'
<1> DEFINE p == pool.pending
           queues == pool.sender_queues
           frontier == ExecutableFrontier(pool)
<1>1. /\ pending' = p /\ sender_queues' = queues /\ metrics' = pool.metrics
      /\ sender_queue_counts' = [s \in Senders |-> ClassifySenderQueueCounts(p, queues[s])]
      /\ ready_total' = Cardinality(frontier)
      /\ blocked_total' = Cardinality(p \ frontier)
      /\ candidates' = [id \in CandidateIds |-> None]
      /\ head_block_number' = 0
      /\ tasks' = {} /\ superseded' = {} /\ retired' = {}
      /\ observed' = [h \in Hashes |-> None]
  BY DEF Install
<1>2. p \in SUBSET Hashes /\ queues \in Queues /\ pool.metrics \in Metrics
  BY DEF PoolRecord
<1>3. QueuesMatchPending' /\ SenderLimitHolds'
  BY <1>1 DEF SoundPool, QueuesMatchPending, SenderLimitHolds, SenderQueueLen, Used,
              Incumbent, SlotOf
<1>4. frontier \subseteq p
  BY DEF ExecutableFrontier
<1>5. SlotsHolding(queues, frontier) = ReadySlots'
  <2>1. ASSUME NEW slot \in Senders \X Nonces
        PROVE  queues[slot[1]][slot[2]] \in frontier
                 <=> slot[2] \in ReadyNonces(Occupied(p, queues[slot[1]]))
    <3> DEFINE h == queues[slot[1]][slot[2]]
    <3>1. slot[1] \in Senders /\ slot[2] \in Nonces
      OBVIOUS
    <3>2. h \in p => Tx[h].sender = slot[1] /\ Tx[h].nonce = slot[2]
      BY <3>1, TransactionAssumption DEF SoundPool
    <3>3. slot[2] \in ReadyNonces(Occupied(p, queues[slot[1]])) => h \in p
      BY DEF ReadyNonces, Occupied
    <3>4. h \in frontier <=> h \in p /\ Tx[h].nonce \in ReadyNonces(Occupied(p, queues[Tx[h].sender]))
      BY DEF ExecutableFrontier
    <3>5. QED
      BY <3>2, <3>3, <3>4
  <2>2. QED
    BY <1>1, <2>1 DEF SlotsHolding, ReadySlots
<1>6. SlotsHolding(queues, p \ frontier) = (OccupiedSlots \ ReadySlots)'
  <2>1. SlotsHolding(queues, p) = OccupiedSlots'
    BY <1>1 DEF SlotsHolding, OccupiedSlots, Occupied
  <2>2. SlotsHolding(queues, p \ frontier)
          = SlotsHolding(queues, p) \ SlotsHolding(queues, frontier)
    BY DEF SlotsHolding
  <2>3. QED
    BY <1>5, <2>1, <2>2
<1>7. /\ Cardinality(frontier) = Cardinality(ReadySlots')
      /\ Cardinality(p \ frontier) = Cardinality((OccupiedSlots \ ReadySlots)')
  BY <1>4, <1>5, <1>6, OneSlotEach
<1>8. TotalsMatchRecount'
  BY <1>1, <1>7 DEF TotalsMatchRecount
<1>9. sender_queue_counts' \in [Senders -> [ready : Nat, blocked : Nat]]
  BY <1>1, ClassifyType
<1>10. ready_total' \in Nat /\ blocked_total' \in Nat
  <2>1. IsFiniteSet(Senders \X Nonces)
    BY FS_Product, NoncesFinite, SchedulerAssumption
  <2>2. IsFiniteSet(ReadySlots') /\ IsFiniteSet((OccupiedSlots \ ReadySlots)')
    BY <2>1, FS_Subset DEF ReadySlots, OccupiedSlots
  <2>3. QED
    BY <1>1, <1>7, <2>2, FS_CardinalityType
<1>11. TypeOK'
  BY <1>1, <1>2, <1>9, <1>10, SchedulerAssumption DEF TypeOK, Queues
<1>12. QED
  BY <1>3, <1>8, <1>11

----------------------------------------------------------------------------
(* The scheduler stays consistent across restarts *)

\* The pool is consistent, and so is every snapshot that a restart may use.
ConsistencyInv ==
    /\ TypeOK /\ QueuesMatchPending /\ SenderLimitHolds /\ TotalsMatchRecount
    /\ log \in Seq(EventRecord)
    /\ evicted \in Nat
    /\ to_write \in [Workers -> Seq(EventRecord)]
    /\ stored \subseteq Hashes
    /\ restarts \in Nat
    /\ capture = None \/ capture \in [event_seq_hi : Nat] \/ SoundSnapshot(capture)
    /\ snapshot = None \/ SoundSnapshot(snapshot)

\* What the scheduler's own steps keep of it.
LEMMA PoolStepConsistent ==
    ASSUME TypeOK, QueuesMatchPending, SenderLimitHolds, TotalsMatchRecount, [Next]_vars
    PROVE  TypeOK' /\ QueuesMatchPending' /\ SenderLimitHolds' /\ TotalsMatchRecount'
BY NextTypeOK, StepKeepsIndexes, StepKeepsLimit, StepKeepsTotals

\* A worker's admission is a step of the scheduler, and what it has to write are events.
LEMMA AdmitLiveConsistent ==
    ASSUME ConsistencyInv, NEW w \in Workers, NEW h \in Hashes, AdmitLive(w, h)
    PROVE  ConsistencyInv'
<1>1. [Next]_vars
  BY DEF AdmitLive, Next
<1>2. TypeOK' /\ QueuesMatchPending' /\ SenderLimitHolds' /\ TotalsMatchRecount'
  BY <1>1, PoolStepConsistent DEF ConsistencyInv
<1>3. /\ Event("dropped", h) \in EventRecord
      /\ Event("decoded", h) \in EventRecord
      /\ Incumbent(h) \in pending => Event("replaced", Incumbent(h)) \in EventRecord
  BY DEF Event, EventRecord, ConsistencyInv, TypeOK
<1>4. PICK events : /\ to_write' = [to_write EXCEPT ![w] = events]
                    /\ \/ events = <<>>
                       \/ events = <<Event("dropped", h)>>
                       \/ events = <<Event("decoded", h)>>
                       \/ /\ Incumbent(h) \in pending
                          /\ events = <<Event("replaced", Incumbent(h)), Event("decoded", h)>>
  BY DEF AdmitLive
<1>5. events \in Seq(EventRecord)
  <2>1. ASSUME NEW e \in EventRecord, NEW f \in EventRecord
        PROVE  /\ <<>> \in Seq(EventRecord)
               /\ <<e>> \in Seq(EventRecord)
               /\ <<e, f>> \in Seq(EventRecord)
    OBVIOUS
  <2>2. QED
    BY <1>3, <1>4, <2>1
<1>6. to_write' \in [Workers -> Seq(EventRecord)]
  BY <1>4, <1>5 DEF ConsistencyInv
<1>7. UNCHANGED <<log, evicted, stored, capture, snapshot, ticks, bootstrap_vars>>
  BY DEF AdmitLive
<1>8. QED
  BY <1>2, <1>6, <1>7 DEF ConsistencyInv, bootstrap_vars, SoundSnapshot, ExecutableFrontier

\* What leaves the scheduler alone leaves its consistency alone.
LEMMA IdlePoolConsistent ==
    ASSUME ConsistencyInv, UNCHANGED vars
    PROVE  TypeOK' /\ QueuesMatchPending' /\ SenderLimitHolds' /\ TotalsMatchRecount'
<1>1. [Next]_vars
  OBVIOUS
<1>2. QED
  BY <1>1, PoolStepConsistent DEF ConsistencyInv

LEMMA WriteEventConsistent ==
    ASSUME ConsistencyInv, NEW w \in Workers, WriteEvent(w)
    PROVE  ConsistencyInv'
<1>1. TypeOK' /\ QueuesMatchPending' /\ SenderLimitHolds' /\ TotalsMatchRecount'
  BY IdlePoolConsistent DEF WriteEvent
<1>2. to_write[w] \in Seq(EventRecord) /\ to_write[w] # <<>>
  BY DEF WriteEvent, ConsistencyInv
<1>3. Head(to_write[w]) \in EventRecord /\ Tail(to_write[w]) \in Seq(EventRecord)
  BY <1>2, HeadTailProperties
<1>4. log' \in Seq(EventRecord)
  BY <1>3, AppendProperties DEF WriteEvent, ConsistencyInv
<1>5. to_write' \in [Workers -> Seq(EventRecord)]
  BY <1>3 DEF WriteEvent, ConsistencyInv
<1>6. UNCHANGED <<capture, snapshot, ticks, bootstrap_vars>>
  BY DEF WriteEvent
<1>7. stored' \subseteq Hashes /\ evicted' \in Nat
  BY <1>3 DEF WriteEvent, ConsistencyInv, EventRecord
<1>8. QED
  BY <1>1, <1>4, <1>5, <1>6, <1>7 DEF ConsistencyInv, bootstrap_vars, SoundSnapshot, ExecutableFrontier

\* What is captured is a sound snapshot.
LEMMA CapturedSound ==
    ASSUME TypeOK, QueuesMatchPending, SenderLimitHolds, restarts \in Nat, NEW hi \in Nat
    PROVE  SoundSnapshot(PersistedSnapshot(hi))
<1> DEFINE snap == PersistedSnapshot(hi)
           pool == [pending |-> pending, sender_queues |-> sender_queues]
<1>1. snap = [event_seq_hi |-> hi, pending |-> pending, sender_queues |-> sender_queues,
              executable_frontier |-> ExecutableFrontier(pool), life |-> restarts]
  BY DEF PersistedSnapshot
<1>2. ExecutableFrontier(pool) \in SUBSET Hashes
  BY DEF ExecutableFrontier, TypeOK
<1>3. ExecutableFrontier(snap) = ExecutableFrontier(pool)
  BY <1>1 DEF ExecutableFrontier
<1>4. SoundPool(pending, sender_queues)
  BY PoolIsSound
<1> HIDE DEF snap
<1>5. snap \in SnapshotRecord
  BY <1>1, <1>2 DEF SnapshotRecord, TypeOK, Queues
<1>6. QED
  BY <1>1, <1>3, <1>4, <1>5 DEF SoundSnapshot, snap

LEMMA SnapshotWriterConsistent ==
    ASSUME ConsistencyInv, ReadWatermark \/ CaptureSnapshot \/ WriteSchedulerSnapshot
    PROVE  ConsistencyInv'
<1>1. UNCHANGED <<vars, log, evicted, to_write, stored, bootstrap_vars>>
  BY DEF ReadWatermark, CaptureSnapshot, WriteSchedulerSnapshot
<1>2. TypeOK' /\ QueuesMatchPending' /\ SenderLimitHolds' /\ TotalsMatchRecount'
  BY <1>1, IdlePoolConsistent
<1>3. Len(log) \in Nat
  BY DEF ConsistencyInv
<1>4. CASE ReadWatermark
  <2>1. capture' \in [event_seq_hi : Nat] /\ snapshot' = snapshot
    BY <1>3, <1>4 DEF ReadWatermark
  <2>2. QED
    BY <1>1, <1>2, <2>1 DEF ConsistencyInv, bootstrap_vars, SoundSnapshot, ExecutableFrontier
<1>5. CASE CaptureSnapshot
  <2>1. capture \in [event_seq_hi : Nat]
    BY <1>5 DEF CaptureSnapshot, ConsistencyInv, SoundSnapshot, SnapshotRecord
  <2>2. capture.event_seq_hi \in Nat
    BY <2>1
  <2>3. SoundSnapshot(PersistedSnapshot(capture.event_seq_hi))
    BY <2>2, CapturedSound DEF ConsistencyInv
  <2>4. capture' = PersistedSnapshot(capture.event_seq_hi) /\ snapshot' = snapshot
    BY <1>5 DEF CaptureSnapshot
  <2>5. QED
    BY <1>1, <1>2, <2>3, <2>4 DEF ConsistencyInv, bootstrap_vars, SoundSnapshot, ExecutableFrontier
<1>6. CASE WriteSchedulerSnapshot
  <2>1. SoundSnapshot(capture)
    BY <1>6 DEF WriteSchedulerSnapshot, ConsistencyInv
  <2>2. snapshot' = capture /\ capture' = None
    BY <1>6 DEF WriteSchedulerSnapshot
  <2>3. QED
    BY <1>1, <1>2, <2>1, <2>2 DEF ConsistencyInv, bootstrap_vars, SoundSnapshot, ExecutableFrontier
<1>7. QED
  BY <1>4, <1>5, <1>6

\* The tail of the log that a restart replays.
LEMMA TailType ==
    ASSUME ConsistencyInv, snapshot # None
    PROVE  EventTail \in Seq(EventRecord)
<1>1. PICK gone \in Nat : EventTail = SubSeq(log, gone + 1, Len(log))
  BY DEF EventTail, ConsistencyInv, SoundSnapshot, SnapshotRecord
<1>2. \A i \in (gone + 1)..Len(log) : log[i] \in EventRecord
  BY <1>1, ElementOfSeq DEF ConsistencyInv
<1>3. QED
  BY <1>1, <1>2, SubSeqProperties DEF ConsistencyInv

LEMMA EmptyPoolSound ==
    EmptyPool \in PoolRecord /\ SoundPool(EmptyPool.pending, EmptyPool.sender_queues)
<1>1. NoMetrics \in Metrics
  BY SchedulerAssumption DEF NoMetrics, Metrics
<1>2. NoQueues \in Queues
  BY DEF NoQueues, Queues
<1>3. \A s \in Senders : Cardinality(Used(NoQueues[s])) <= MaxPendingPerSender
  <2>1. \A s \in Senders : Used(NoQueues[s]) = {}
    BY DEF Used, NoQueues
  <2>2. QED
    BY <2>1, FS_EmptySet, SchedulerAssumption
<1>4. SoundPool({}, NoQueues)
  BY <1>2, <1>3 DEF SoundPool, NoQueues
<1>5. QED
  BY <1>1, <1>2, <1>4 DEF EmptyPool, PoolRecord

\* A restart installs a sound pool, whatever the snapshot and the tail.
LEMMA RestartInstalls ==
    ASSUME ConsistencyInv, Restart
    PROVE  \E pool \in PoolRecord : /\ SoundPool(pool.pending, pool.sender_queues)
                                     /\ \E error : Reboot(pool, error)
<1>1. CASE RestartEmpty \/ RestartStale
  BY <1>1, EmptyPoolSound DEF RestartEmpty, RestartStale
<1>2. CASE RestartFromSnapshot
  <2> DEFINE snap == Sanitize(snapshot, EventTail)
             error == SnapshotError(snap)
             pool == ReplayTransactions(RestoredPool(snap), EventTail)
  <2>1. SoundSnapshot(snapshot) /\ EventTail \in Seq(EventRecord)
    BY <1>2, TailType DEF RestartFromSnapshot, ConsistencyInv
  <2>2. snap \in SnapshotRecord /\ SoundPool(snap.pending, snap.sender_queues)
    BY <2>1, PrunedSound
  <2>3. /\ RestoredPool(snap) \in PoolRecord
        /\ SoundPool(RestoredPool(snap).pending, RestoredPool(snap).sender_queues)
    BY <2>2, RestoredSound
  <2>4. pool \in PoolRecord /\ SoundPool(pool.pending, pool.sender_queues)
    BY <2>1, <2>3, ReplaySound
  <2>5. Reboot(IF error = None THEN pool ELSE EmptyPool, error)
    BY <1>2 DEF RestartFromSnapshot
  <2> HIDE DEF error, pool
  <2>6. QED
    BY <2>4, <2>5, EmptyPoolSound
<1>3. QED
  BY <1>1, <1>2 DEF Restart

LEMMA RestartConsistent ==
    ASSUME ConsistencyInv, Restart
    PROVE  ConsistencyInv'
<1>0. PICK pool \in PoolRecord : /\ SoundPool(pool.pending, pool.sender_queues)
                                 /\ \E error : Reboot(pool, error)
  BY RestartInstalls
<1>1. PICK error : SoundPool(pool.pending, pool.sender_queues) /\ Reboot(pool, error)
  BY <1>0
<1>2. TypeOK' /\ QueuesMatchPending' /\ SenderLimitHolds' /\ TotalsMatchRecount'
  BY <1>1, InstalledConsistent DEF Reboot
<1>3. /\ restarts' = restarts + 1 /\ to_write' = [w \in Workers |-> <<>>] /\ capture' = None
      /\ stored' = pool.pending
      /\ UNCHANGED <<log, evicted, snapshot>>
  BY <1>1 DEF Reboot
<1>4. restarts' \in Nat
  BY <1>3 DEF ConsistencyInv
<1>5. to_write' \in [Workers -> Seq(EventRecord)]
  BY <1>3
<1>6. stored' \subseteq Hashes
  BY <1>1, <1>3 DEF SoundPool
<1>7. QED
  BY <1>2, <1>3, <1>4, <1>5, <1>6 DEF ConsistencyInv, SoundSnapshot, ExecutableFrontier

\* A new process starts with nothing.
LEMMA StartConsistent ==
    ASSUME ConsistencyInv, StartProcess
    PROVE  ConsistencyInv'
<1>1. TypeOK' /\ QueuesMatchPending' /\ SenderLimitHolds' /\ TotalsMatchRecount'
  BY EmptyPoolSound, InstalledConsistent DEF StartProcess
<1>2. /\ log' = <<>> /\ evicted' = 0 /\ to_write' = [w \in Workers |-> <<>>]
      /\ stored' = {} /\ restarts' = restarts /\ capture' = None /\ snapshot' = None
  BY DEF StartProcess
<1>3. log' \in Seq(EventRecord) /\ to_write' \in [Workers -> Seq(EventRecord)]
  BY <1>2
<1>4. QED
  BY <1>1, <1>2, <1>3 DEF ConsistencyInv

LEMMA StepConsistent == ConsistencyInv /\ [RehydrationNext]_all_vars => ConsistencyInv'
<1> SUFFICES ASSUME ConsistencyInv, [RehydrationNext]_all_vars PROVE ConsistencyInv'
  OBVIOUS
<1>1. CASE \E w \in Workers : WriteEvent(w)
  BY <1>1, WriteEventConsistent
<1>2. CASE \E w \in Workers, h \in Hashes : AdmitLive(w, h)
  BY <1>2, AdmitLiveConsistent
<1>3. CASE ReadWatermark \/ CaptureSnapshot \/ WriteSchedulerSnapshot
  BY <1>3, SnapshotWriterConsistent
<1>4. CASE Restart \/ StartProcess
  BY <1>4, RestartConsistent, StartConsistent
<1>5. CASE UNCHANGED all_vars \/ WriteOther
  <2>1. /\ UNCHANGED <<vars, log, to_write, stored, capture, snapshot, restarts>>
        /\ evicted' \in Nat
    BY <1>5 DEF all_vars, storage_vars, bootstrap_vars, WriteOther, ConsistencyInv
  <2>2. TypeOK' /\ QueuesMatchPending' /\ SenderLimitHolds' /\ TotalsMatchRecount'
    BY <2>1, IdlePoolConsistent
  <2>3. QED
    BY <2>1, <2>2 DEF ConsistencyInv, SoundSnapshot, ExecutableFrontier
<1>6. QED
  BY <1>1, <1>2, <1>3, <1>4, <1>5 DEF RehydrationNext

LEMMA ConsistentAtFirst == RehydrationInit => ConsistencyInv
<1> SUFFICES ASSUME RehydrationInit PROVE ConsistencyInv
  OBVIOUS
<1>1. Init
  BY DEF RehydrationInit
<1>2. TypeOK /\ QueuesMatchPending /\ SenderLimitHolds /\ TotalsMatchRecount
  BY <1>1, InitTypeOK, IndexesAgreeAtFirst, LimitHoldsAtFirst, TotalsCorrectAtFirst
<1>3. to_write \in [Workers -> Seq(EventRecord)] /\ log \in Seq(EventRecord)
  BY DEF RehydrationInit
<1>4. QED
  BY <1>2, <1>3 DEF RehydrationInit, ConsistencyInv

LEMMA AlwaysConsistent == RehydrationSpec => []ConsistencyInv
BY ConsistentAtFirst, StepConsistent, PTL DEF RehydrationSpec

\* However the runtime was restarted, and whatever the snapshot and the tail held, the
\* scheduler's indexes, limits and counts agree, right after the restart and ever after.
THEOREM RehydratedIsConsistent == RehydrationSpec => []RehydratedPoolConsistent
<1>1. ConsistencyInv => RehydratedPoolConsistent
  BY DEF ConsistencyInv, RehydratedPoolConsistent
<1>2. QED
  BY <1>1, AlwaysConsistent, PTL

\* A snapshot that the writer captured is only ever refused for its frontier, and only
\* when the tail removed a transaction from it.
THEOREM SnapshotsAreAccepted == RehydrationSpec => OnlyPruningFails
<1> DEFINE Told ==
      restarts' # restarts =>
          /\ failure' \in {None, "stale", "frontier"}
          /\ failure' = "frontier" => RemovedHashes(EventTail) \cap snapshot.pending # {}
<1>1. ConsistencyInv /\ [RehydrationNext]_all_vars => Told
  <2> SUFFICES ASSUME ConsistencyInv, [RehydrationNext]_all_vars, restarts' # restarts
               PROVE  /\ failure' \in {None, "stale", "frontier"}
                      /\ failure' = "frontier" => RemovedHashes(EventTail) \cap snapshot.pending # {}
    OBVIOUS
  <2>1. Restart
    BY DEF RehydrationNext, all_vars, bootstrap_vars, WriteEvent, WriteOther, AdmitLive,
           ReadWatermark, CaptureSnapshot, WriteSchedulerSnapshot, StartProcess
  <2>2. CASE RestartEmpty \/ RestartStale
    BY <2>2, RehydrationAssumption DEF RestartEmpty, RestartStale, Reboot
  <2>3. CASE RestartFromSnapshot
    <3> DEFINE error == SnapshotError(Sanitize(snapshot, EventTail))
    <3>1. failure' = error
      BY <2>3 DEF RestartFromSnapshot, Reboot
    <3>2. SoundSnapshot(snapshot)
      BY <2>3 DEF RestartFromSnapshot, ConsistencyInv
    <3>3. error \in {None, "frontier"}
      BY <3>2, OnlyFrontierFails
    <3>4. error = "frontier" => RemovedHashes(EventTail) \cap snapshot.pending # {}
      BY <3>2, UntouchedFrontierHolds, RehydrationAssumption
    <3> HIDE DEF error
    <3>5. QED
      BY <3>1, <3>3, <3>4
  <2>4. QED
    BY <2>1, <2>2, <2>3 DEF Restart
<1> HIDE DEF Told
<1>2. RehydrationSpec => [][Told]_all_vars
  BY <1>1, AlwaysConsistent, PTL DEF RehydrationSpec
<1>3. QED
  BY <1>2 DEF OnlyPruningFails, Told

----------------------------------------------------------------------------
(* What the events of one life of the process say *)

\* h lost its slot to a transaction that pays the bump over it.
Beaten(h) ==
    /\ Incumbent(h) \in pending
    /\ Incumbent(h) # h
    /\ ReplacementFee(Incumbent(h)) >= ReplacementThresholdFee(h)

\* h was admitted in this life of the process: it holds its slot or was beaten since.
Standing(h) == h \in pending \/ Beaten(h)

\* `admit` refuses h, now and as long as this life of the process lasts.
ShutOut(h) ==
    /\ h \notin pending
    /\ \/ /\ Incumbent(h) \in pending
          /\ ReplacementFee(h) < ReplacementThresholdFee(Incumbent(h))
       \/ /\ Incumbent(h) = None
          /\ SenderQueueLen(Tx[h].sender) >= MaxPendingPerSender

\* What an event says of its transaction still holds, however late it is read.
EventHolds(e) ==
    /\ e.kind = "decoded" => Standing(e.hash)
    /\ e.kind \in {"dropped", "replaced"} => ShutOut(e.hash)

\* What an admission makes of the slots and the pending set.
LEMMA AdmitPlaces ==
    ASSUME TypeOK, QueuesMatchPending, NEW h \in Hashes, Admit(h)
    PROVE  \/ /\ pending' = pending
              /\ sender_queues' = sender_queues
              /\ h \in pending \/ ShutOut(h)
           \/ /\ h \notin pending
              /\ \/ /\ Incumbent(h) \in pending
                    /\ ReplacementFee(h) >= ReplacementThresholdFee(Incumbent(h))
                 \/ /\ Incumbent(h) = None
                    /\ SenderQueueLen(Tx[h].sender) < MaxPendingPerSender
              /\ pending' = (pending \ {Incumbent(h)}) \cup {h}
              /\ \A s \in Senders, n \in Nonces : sender_queues'[s][n] =
                   IF s = Tx[h].sender /\ n = Tx[h].nonce THEN h ELSE sender_queues[s][n]
<1>1. CASE AdmitReplacement(h) \/ AdmitNew(h)
  <2>1. /\ h \notin pending
        /\ Place(h, Incumbent(h))
        /\ AdmitReplacement(h) => Incumbent(h) \in pending
        /\ AdmitNew(h) =>
             Incumbent(h) = None /\ SenderQueueLen(Tx[h].sender) < MaxPendingPerSender
    BY <1>1, AdmittedIsPlaced
  <2>2. AdmitReplacement(h) => ReplacementFee(h) >= ReplacementThresholdFee(Incumbent(h))
    BY DEF AdmitReplacement
  <2>3. /\ pending' = (pending \ {Incumbent(h)}) \cup {h}
        /\ \A s \in Senders, n \in Nonces : sender_queues'[s][n] =
             IF s = Tx[h].sender /\ n = Tx[h].nonce THEN h ELSE sender_queues[s][n]
    BY <2>1, PlacedSlots
  <2>4. QED
    BY <1>1, <2>1, <2>2, <2>3
<1>2. CASE AdmitDuplicate(h) \/ AdmitUnderpriced(h) \/ AdmitOverLimit(h)
  <2>1. pending' = pending /\ sender_queues' = sender_queues
    BY <1>2 DEF AdmitDuplicate, AdmitUnderpriced, AdmitOverLimit, admission_vars
  <2>2. h \in pending \/ ShutOut(h)
    BY <1>2 DEF AdmitDuplicate, AdmitUnderpriced, AdmitOverLimit, ShutOut
  <2>3. QED
    BY <2>1, <2>2
<1>3. QED
  BY <1>1, <1>2 DEF Admit

\* Two transactions cannot replace each other.
LEMMA ReplacementIsOneWay ==
    ASSUME OrdinaryFees, NEW g \in Hashes, NEW h \in Hashes,
           ReplacementFee(g) >= ReplacementThresholdFee(h)
    PROVE  ReplacementFee(h) < ReplacementThresholdFee(g)
<1>1. ReplacementFee(h) < ReplacementFee(g)
  BY ReplacementPaysMore
<1>2. ReplacementFee(h) \in Nat /\ ReplacementFee(g) \in Nat /\ ReplacementThresholdFee(g) \in Nat
  BY ReplacementFeeType, ThresholdType
<1>3. ~(ReplacementFee(h) >= ReplacementThresholdFee(g))
  <2> SUFFICES ASSUME ReplacementFee(h) >= ReplacementThresholdFee(g) PROVE FALSE
    OBVIOUS
  <2>1. ReplacementFee(g) < ReplacementFee(h)
    BY ReplacementPaysMore
  <2>2. QED
    BY <1>1, <1>2, <2>1
<1>4. QED
  BY <1>2, <1>3

\* A transaction beaten in its slot is refused when it is seen again.
LEMMA BeatenShutOut ==
    ASSUME OrdinaryFees, TypeOK, QueuesMatchPending, NEW h \in Hashes, Beaten(h)
    PROVE  ShutOut(h)
<1>1. PICK g : g = Incumbent(h)
  OBVIOUS
<1>2. g \in pending /\ g \in Hashes /\ g # h /\ ReplacementFee(g) >= ReplacementThresholdFee(h)
  BY <1>1 DEF Beaten, TypeOK
<1>3. h \notin pending
  BY <1>1, <1>2 DEF QueuesMatchPending
<1>4. ReplacementFee(h) < ReplacementThresholdFee(g)
  BY <1>2, ReplacementIsOneWay
<1>5. QED
  BY <1>1, <1>2, <1>3, <1>4 DEF ShutOut

\* Admitting k leaves every other slot alone.
LEMMA OtherSlotsStay ==
    ASSUME TypeOK, NEW k \in Hashes, NEW h \in Hashes, QueuesMatchPending, k \notin pending,
           pending' = (pending \ {Incumbent(k)}) \cup {k},
           \A s \in Senders, n \in Nonces : sender_queues'[s][n] =
              IF s = Tx[k].sender /\ n = Tx[k].nonce THEN k ELSE sender_queues[s][n],
           ~(Tx[h].sender = Tx[k].sender /\ Tx[h].nonce = Tx[k].nonce)
    PROVE  /\ Incumbent(h)' = Incumbent(h)
           /\ h \in pending' <=> h \in pending
           /\ Incumbent(h) \in pending' <=> Incumbent(h) \in pending
<1>1. /\ Tx[h].sender \in Senders /\ Tx[h].nonce \in Nonces
      /\ Tx[k].sender \in Senders /\ Tx[k].nonce \in Nonces
  BY TxType
<1>2. Incumbent(h)' = Incumbent(h)
  BY <1>1 DEF Incumbent, SlotOf
<1>3. Incumbent(h) # k
  BY <1>1, TransactionAssumption DEF Incumbent, SlotOf, QueuesMatchPending
<1>4. \A g \in pending : g = Incumbent(k) => Tx[g].sender = Tx[k].sender /\ Tx[g].nonce = Tx[k].nonce
  BY <1>1, TransactionAssumption DEF Incumbent, SlotOf, QueuesMatchPending, TypeOK
<1>5. \A g \in pending : g = Incumbent(h) => Tx[g].sender = Tx[h].sender /\ Tx[g].nonce = Tx[h].nonce
  BY <1>1, TransactionAssumption DEF Incumbent, SlotOf, QueuesMatchPending, TypeOK
<1>6. h # k
  OBVIOUS
<1>7. QED
  BY <1>2, <1>3, <1>4, <1>5, <1>6

\* A queue with k placed in it is no shorter.
LEMMA QueuesOnlyGrow ==
    ASSUME NEW k \in Hashes, NEW s \in Senders,
           \A x \in Senders, n \in Nonces : sender_queues'[x][n] =
              IF x = Tx[k].sender /\ n = Tx[k].nonce THEN k ELSE sender_queues[x][n],
           SenderQueueLen(s) >= MaxPendingPerSender
    PROVE  SenderQueueLen(s)' >= MaxPendingPerSender
<1> DEFINE used == Used(sender_queues[s])
           grown == Used(sender_queues'[s])
<1>1. used \subseteq grown
  BY TransactionAssumption DEF Used
<1>2. IsFiniteSet(grown) /\ Cardinality(grown) \in Nat /\ Cardinality(used) \in Nat
  BY NoncesFinite DEF Used
<1>3. Cardinality(used) <= Cardinality(grown)
  BY <1>1, <1>2, FS_Subset
<1>4. SenderQueueLen(s) = Cardinality(used) /\ SenderQueueLen(s)' = Cardinality(grown)
  BY DEF SenderQueueLen, Used
<1> HIDE DEF used, grown
<1>5. QED
  BY <1>2, <1>3, <1>4, SchedulerAssumption

\* An admission changes neither verdict: what holds its slot or was beaten in it stays so,
\* and what is refused stays refused.
LEMMA VerdictsLast ==
    ASSUME OrdinaryFees, TypeOK, QueuesMatchPending, NEW k \in Hashes, Admit(k), NEW h \in Hashes
    PROVE  /\ Standing(h) => Standing(h)'
           /\ ShutOut(h) => ShutOut(h)'
<1> DEFINE g == Incumbent(k)
<1>1. CASE pending' = pending /\ sender_queues' = sender_queues
  BY <1>1 DEF Standing, Beaten, ShutOut, Incumbent, SlotOf, SenderQueueLen
<1>2. CASE /\ k \notin pending
           /\ \/ g \in pending /\ ReplacementFee(k) >= ReplacementThresholdFee(g)
              \/ g = None /\ SenderQueueLen(Tx[k].sender) < MaxPendingPerSender
           /\ pending' = (pending \ {g}) \cup {k}
           /\ \A s \in Senders, n \in Nonces : sender_queues'[s][n] =
                IF s = Tx[k].sender /\ n = Tx[k].nonce THEN k ELSE sender_queues[s][n]
  <2>0. /\ Tx[h].sender \in Senders /\ Tx[h].nonce \in Nonces
        /\ Tx[k].sender \in Senders /\ Tx[k].nonce \in Nonces
    BY TxType
  <2>1. CASE ~(Tx[h].sender = Tx[k].sender /\ Tx[h].nonce = Tx[k].nonce)
    <3>1. /\ Incumbent(h)' = Incumbent(h)
          /\ h \in pending' <=> h \in pending
          /\ Incumbent(h) \in pending' <=> Incumbent(h) \in pending
      BY <1>2, <2>1, OtherSlotsStay
    <3>2. Standing(h) => Standing(h)'
      BY <3>1 DEF Standing, Beaten
    <3>3. SenderQueueLen(Tx[h].sender) >= MaxPendingPerSender
            => SenderQueueLen(Tx[h].sender)' >= MaxPendingPerSender
      BY <1>2, <2>0, QueuesOnlyGrow
    <3>4. ShutOut(h) => ShutOut(h)'
      BY <3>1, <3>3 DEF ShutOut
    <3>5. QED
      BY <3>2, <3>4
  <2>2. CASE Tx[h].sender = Tx[k].sender /\ Tx[h].nonce = Tx[k].nonce
    <3>1. Incumbent(h) = g /\ Incumbent(h)' = k /\ k \in pending'
      BY <1>2, <2>0, <2>2 DEF Incumbent, SlotOf
    <3>2. /\ ReplacementFee(h) \in Nat /\ ReplacementFee(k) \in Nat
          /\ ReplacementThresholdFee(h) \in Nat /\ ReplacementThresholdFee(k) \in Nat
      BY ReplacementFeeType, ThresholdType
    <3>3. None \notin pending
      BY TransactionAssumption DEF TypeOK
    <3>4. g \in pending => /\ g \in Hashes
                           /\ ReplacementFee(k) >= ReplacementThresholdFee(g)
                           /\ ReplacementFee(g) < ReplacementFee(k)
                           /\ ReplacementFee(g) \in Nat /\ ReplacementThresholdFee(g) \in Nat
      <4> SUFFICES ASSUME g \in pending
                   PROVE  /\ g \in Hashes
                          /\ ReplacementFee(k) >= ReplacementThresholdFee(g)
                          /\ ReplacementFee(g) < ReplacementFee(k)
                          /\ ReplacementFee(g) \in Nat /\ ReplacementThresholdFee(g) \in Nat
        OBVIOUS
      <4>1. g \in Hashes /\ ReplacementFee(k) >= ReplacementThresholdFee(g)
        BY <1>2, <3>3 DEF TypeOK
      <4> HIDE DEF g
      <4>2. QED
        BY <4>1, ReplacementPaysMore, ReplacementFeeType, ThresholdType
    <3> HIDE DEF g
    <3>5. h \in pending => Beaten(h)'
      <4> SUFFICES ASSUME h \in pending PROVE Beaten(h)'
        OBVIOUS
      <4>1. g = h
        BY <3>1 DEF QueuesMatchPending
      <4>2. k # h /\ ReplacementFee(k) >= ReplacementThresholdFee(h)
        BY <1>2, <3>4, <4>1
      <4>3. QED
        BY <3>1, <4>2 DEF Beaten
    <3>6. Beaten(h) => Beaten(h)'
      <4> SUFFICES ASSUME Beaten(h) PROVE Beaten(h)'
        OBVIOUS
      <4>1. g \in pending /\ ReplacementFee(g) >= ReplacementThresholdFee(h)
        BY <3>1 DEF Beaten
      <4>2. ReplacementFee(h) < ReplacementFee(g)
        BY <3>4, <4>1, ReplacementPaysMore
      <4>3. ReplacementFee(k) >= ReplacementThresholdFee(h) /\ k # h
        BY <3>2, <3>4, <4>1, <4>2
      <4>4. QED
        BY <3>1, <4>3 DEF Beaten
    <3>7. ShutOut(h) => ShutOut(h)'
      <4> SUFFICES ASSUME ShutOut(h) PROVE ShutOut(h)'
        OBVIOUS
      <4>1. ~(g = None)
        <5> SUFFICES ASSUME g = None PROVE FALSE
          OBVIOUS
        <5>1. SenderQueueLen(Tx[k].sender) < MaxPendingPerSender
          BY <1>2, <3>3
        <5>2. SenderQueueLen(Tx[k].sender) >= MaxPendingPerSender
          BY <2>2, <3>1, <3>3 DEF ShutOut
        <5>3. SenderQueueLen(Tx[k].sender) \in Nat
          BY NoncesFinite DEF SenderQueueLen
        <5>4. QED
          BY <5>1, <5>2, <5>3, SchedulerAssumption
      <4>2. h \notin pending /\ g \in pending /\ ReplacementFee(h) < ReplacementThresholdFee(g)
        BY <3>1, <4>1 DEF ShutOut
      <4>3. ReplacementFee(h) < ReplacementFee(k)
        BY <3>2, <3>4, <4>2
      <4>4. ~(ReplacementFee(h) >= ReplacementThresholdFee(k))
        <5> SUFFICES ASSUME ReplacementFee(h) >= ReplacementThresholdFee(k) PROVE FALSE
          OBVIOUS
        <5>1. ReplacementFee(k) < ReplacementFee(h)
          BY ReplacementPaysMore
        <5>2. QED
          BY <3>2, <4>3, <5>1
      <4>5. h # k
        BY <3>2, <4>3
      <4>6. h \notin pending'
        BY <1>2, <4>2, <4>5
      <4>7. ReplacementFee(h) < ReplacementThresholdFee(k)
        BY <3>2, <4>4
      <4>8. QED
        BY <3>1, <4>6, <4>7 DEF ShutOut
    <3>8. QED
      BY <3>5, <3>6, <3>7 DEF Standing
  <2>3. QED
    BY <2>1, <2>2
<1>3. QED
  BY <1>1, <1>2, AdmitPlaces

\* Events tell nothing that a later admission makes untrue.
LEMMA EventsLast ==
    ASSUME OrdinaryFees, TypeOK, QueuesMatchPending, NEW k \in Hashes, Admit(k),
           NEW e \in EventRecord, EventHolds(e)
    PROVE  EventHolds(e)'
<1>1. e.hash \in Hashes
  BY DEF EventRecord
<1>2. QED
  BY <1>1, VerdictsLast DEF EventHolds

\* The events after a watermark hold.
TailHolds(hi) == \A i \in 1..Len(log) : i > hi => EventHolds(log[i])

\* A captured pool held what this life admitted, and what was stored since is in the tail.
CaptureHolds(snap) ==
    /\ \A h \in snap.pending : Standing(h)
    /\ \A h \in pending \cap stored :
         \/ h \in snap.pending
         \/ \E i \in 1..Len(log) : i > snap.event_seq_hi /\ log[i] = Event("decoded", h)

\* Nothing is pending that is not stored or about to be.
PendingIsTold ==
    \A h \in pending :
        \/ h \in stored
        \/ \E w \in Workers : \E i \in 1..Len(to_write[w]) : to_write[w][i] = Event("decoded", h)

StoredStand == \A h \in stored : Standing(h)

EventsToWriteHold == \A w \in Workers : \A i \in 1..Len(to_write[w]) : EventHolds(to_write[w][i])

CapturesHold ==
    capture # None =>
        /\ capture.event_seq_hi <= Len(log)
        /\ TailHolds(capture.event_seq_hi)
        /\ "pending" \in DOMAIN capture => capture.life = restarts /\ CaptureHolds(capture)

SnapshotHolds ==
    snapshot # None =>
        /\ snapshot.life <= restarts
        /\ snapshot.life = restarts =>
             /\ snapshot.event_seq_hi <= Len(log)
             /\ TailHolds(snapshot.event_seq_hi)
             /\ CaptureHolds(snapshot)

\* What one life of the process has told storage is true of its pool.
LifeInv == StoredStand /\ EventsToWriteHold /\ PendingIsTold /\ CapturesHold /\ SnapshotHolds

\* A stored transaction that lost its slot does not come back.
LEMMA StoredStayOut ==
    ASSUME OrdinaryFees, TypeOK, QueuesMatchPending, StoredStand, stored \subseteq Hashes,
           NEW k \in Hashes, Admit(k), NEW h \in stored, h \in pending'
    PROVE  h \in pending
<1> SUFFICES ASSUME h \notin pending PROVE FALSE
  OBVIOUS
<1>1. h \in Hashes /\ Beaten(h)
  BY DEF StoredStand, Standing
<1>2. ShutOut(h)
  BY <1>1, BeatenShutOut
<1>3. ShutOut(h)'
  BY <1>1, <1>2, VerdictsLast
<1>4. QED
  BY <1>3 DEF ShutOut

\* The events of the log of this life stay true as transactions are admitted ...
LEMMA AdmitKeepsTail ==
    ASSUME OrdinaryFees, ConsistencyInv, NEW k \in Hashes, Admit(k), log' = log,
           NEW hi, TailHolds(hi)
    PROVE  TailHolds(hi)'
<1> SUFFICES ASSUME NEW i \in 1..Len(log), i > hi PROVE EventHolds(log[i])'
  BY DEF TailHolds
<1>1. log[i] \in EventRecord /\ EventHolds(log[i])
  BY ElementOfSeq DEF TailHolds, ConsistencyInv
<1>2. \A e \in EventRecord : EventHolds(e) => EventHolds(e)'
  BY EventsLast DEF ConsistencyInv
<1>3. QED
  BY <1>1, <1>2 DEF EventHolds

\* ... and so does what was captured of it.
LEMMA AdmitKeepsCapture ==
    ASSUME OrdinaryFees, ConsistencyInv, StoredStand, NEW k \in Hashes, Admit(k),
           UNCHANGED <<log, stored>>,
           NEW snap, snap.pending \subseteq Hashes, CaptureHolds(snap)
    PROVE  /\ \A h \in snap.pending : Standing(h)'
           /\ \A h \in pending' \cap stored :
                \/ h \in snap.pending
                \/ \E i \in 1..Len(log) : i > snap.event_seq_hi /\ log[i] = Event("decoded", h)
<1>1. TypeOK /\ QueuesMatchPending /\ stored \subseteq Hashes
  BY DEF ConsistencyInv
<1>2. \A h \in snap.pending : Standing(h)'
  BY <1>1, VerdictsLast DEF CaptureHolds
<1>3. \A h \in pending' \cap stored : h \in pending
  BY <1>1, StoredStayOut
<1>4. QED
  BY <1>2, <1>3 DEF CaptureHolds

\* The events of an admission hold when it is over.
LEMMA AdmissionTold ==
    ASSUME OrdinaryFees, ConsistencyInv, NEW w \in Workers, NEW k \in Hashes, AdmitLive(w, k)
    PROVE  \E events \in Seq(EventRecord) :
             /\ to_write' = [to_write EXCEPT ![w] = events]
             /\ \A i \in 1..Len(events) : EventHolds(events[i])'
             /\ k \in pending' /\ k \notin pending =>
                  \E i \in 1..Len(events) : events[i] = Event("decoded", k)
<1>0. PICK g : g = Incumbent(k)
  OBVIOUS
<1>a. PICK events : events = IF k \in pending THEN <<>>
                            ELSE IF k \notin pending' THEN <<Event("dropped", k)>>
                            ELSE IF g \in pending
                                 THEN <<Event("replaced", g), Event("decoded", k)>>
                                 ELSE <<Event("decoded", k)>>
  OBVIOUS
<1>1. Admit(k) /\ to_write' = [to_write EXCEPT ![w] = events]
  BY <1>0, <1>a DEF AdmitLive
<1> SUFFICES /\ events \in Seq(EventRecord)
             /\ \A i \in 1..Len(events) : EventHolds(events[i])'
             /\ k \in pending' /\ k \notin pending =>
                  \E i \in 1..Len(events) : events[i] = Event("decoded", k)
  BY <1>1
<1>2. TypeOK /\ QueuesMatchPending
  BY DEF ConsistencyInv
<1>3. \/ /\ pending' = pending /\ sender_queues' = sender_queues
         /\ k \in pending \/ ShutOut(k)
      \/ /\ k \notin pending
         /\ pending' = (pending \ {g}) \cup {k}
  BY <1>0, <1>1, <1>2, AdmitPlaces
<1>4. /\ Event("dropped", k) \in EventRecord /\ Event("dropped", k).kind = "dropped"
      /\ Event("dropped", k).hash = k
      /\ Event("decoded", k) \in EventRecord /\ Event("decoded", k).kind = "decoded"
      /\ Event("decoded", k).hash = k
  BY DEF Event, EventRecord
<1>5. /\ Event("replaced", g).kind = "replaced" /\ Event("replaced", g).hash = g
      /\ g \in pending => Event("replaced", g) \in EventRecord
  BY <1>2 DEF Event, EventRecord, TypeOK
<1>6. k \notin pending' => EventHolds(Event("dropped", k))'
  <2> SUFFICES ASSUME k \notin pending' PROVE EventHolds(Event("dropped", k))'
    OBVIOUS
  <2>1. ShutOut(k)
    BY <1>3
  <2>2. ShutOut(k)'
    BY <1>1, <1>2, <2>1, VerdictsLast
  <2>3. QED
    BY <1>4, <2>2 DEF EventHolds
<1>7. k \in pending' => EventHolds(Event("decoded", k))'
  BY <1>4 DEF EventHolds, Standing
<1>8. k \notin pending /\ k \in pending' /\ g \in pending => EventHolds(Event("replaced", g))'
  <2> SUFFICES ASSUME k \notin pending, k \in pending', g \in pending
               PROVE  EventHolds(Event("replaced", g))'
    OBVIOUS
  <2>1. g \in Hashes /\ g \notin pending'
    BY <1>2, <1>3 DEF TypeOK
  <2>2. Standing(g)'
    BY <1>1, <1>2, <2>1, VerdictsLast DEF Standing
  <2>3. Beaten(g)'
    BY <2>1, <2>2 DEF Standing
  <2>4. TypeOK'
    BY AdmitLiveConsistent DEF ConsistencyInv
  <2>5. PICK x : x = Incumbent(g)'
    OBVIOUS
  <2>6. x \in pending' /\ x \in Hashes /\ ReplacementFee(x) >= ReplacementThresholdFee(g)
    BY <2>3, <2>4, <2>5 DEF Beaten, TypeOK
  <2>7. ReplacementFee(g) < ReplacementThresholdFee(x)
    BY <2>1, <2>6, ReplacementIsOneWay
  <2>8. ShutOut(g)'
    BY <2>1, <2>5, <2>6, <2>7 DEF ShutOut
  <2>9. QED
    BY <1>5, <2>8 DEF EventHolds
<1>9. CASE k \in pending
  <2>1. events = <<>>
    BY <1>a, <1>9
  <2>2. events \in Seq(EventRecord) /\ Len(events) = 0
    BY <2>1
  <2>3. 1..Len(events) = {}
    BY <2>2
  <2>4. QED
    BY <1>9, <2>2, <2>3
<1>10. CASE k \notin pending /\ k \notin pending'
  <2>1. events = <<Event("dropped", k)>>
    BY <1>a, <1>10
  <2>2. events \in Seq(EventRecord) /\ Len(events) = 1 /\ events[1] = Event("dropped", k)
    BY <1>4, <2>1
  <2>3. \A i \in 1..Len(events) : EventHolds(events[i])'
    BY <1>6, <1>10, <2>2 DEF EventHolds
  <2>4. QED
    BY <1>10, <2>2, <2>3
<1>11. CASE k \notin pending /\ k \in pending' /\ g \notin pending
  <2>1. events = <<Event("decoded", k)>>
    BY <1>a, <1>11
  <2>2. events \in Seq(EventRecord) /\ Len(events) = 1 /\ events[1] = Event("decoded", k)
    BY <1>4, <2>1
  <2>3. \A i \in 1..Len(events) : EventHolds(events[i])'
    BY <1>7, <1>11, <2>2 DEF EventHolds
  <2>4. 1 \in 1..Len(events)
    BY <2>2
  <2>5. QED
    BY <2>2, <2>3, <2>4
<1>12. CASE k \notin pending /\ k \in pending' /\ g \in pending
  <2>1. events = <<Event("replaced", g), Event("decoded", k)>>
    BY <1>a, <1>12
  <2>2. /\ events \in Seq(EventRecord) /\ Len(events) = 2
        /\ events[1] = Event("replaced", g) /\ events[2] = Event("decoded", k)
    BY <1>4, <1>5, <1>12, <2>1
  <2>3. \A i \in 1..Len(events) : EventHolds(events[i])'
    BY <1>7, <1>8, <1>12, <2>2 DEF EventHolds
  <2>4. 2 \in 1..Len(events)
    BY <2>2
  <2>5. QED
    BY <2>2, <2>3, <2>4
<1>13. QED
  BY <1>9, <1>10, <1>11, <1>12

\* What the snapshot writer holds, by how far it is.
LEMMA CaptureType ==
    ASSUME ConsistencyInv, capture # None
    PROVE  /\ capture.event_seq_hi \in Nat
           /\ "pending" \in DOMAIN capture => SoundSnapshot(capture)
           /\ "pending" \notin DOMAIN capture => capture \in [event_seq_hi : Nat]
BY DEF ConsistencyInv, SoundSnapshot, SnapshotRecord

LEMMA AdmitKeepsLife ==
    ASSUME OrdinaryFees, ConsistencyInv, LifeInv, NEW w \in Workers, NEW k \in Hashes,
           AdmitLive(w, k)
    PROVE  LifeInv'
<1>1. /\ Admit(k) /\ to_write[w] = <<>>
      /\ UNCHANGED <<log, stored, capture, snapshot, restarts>>
  BY DEF AdmitLive, bootstrap_vars
<1>2. TypeOK /\ QueuesMatchPending /\ stored \subseteq Hashes
  BY DEF ConsistencyInv
<1>3. PICK events \in Seq(EventRecord) :
         /\ to_write' = [to_write EXCEPT ![w] = events]
         /\ \A i \in 1..Len(events) : EventHolds(events[i])'
         /\ k \in pending' /\ k \notin pending =>
              \E i \in 1..Len(events) : events[i] = Event("decoded", k)
  BY AdmissionTold
<1>4. to_write \in [Workers -> Seq(EventRecord)]
  BY DEF ConsistencyInv
<1>5. to_write'[w] = events /\ \A v \in Workers : v # w => to_write'[v] = to_write[v]
  BY <1>3, <1>4
<1>6. StoredStand'
  BY <1>1, <1>2, VerdictsLast DEF LifeInv, StoredStand
<1>7. EventsToWriteHold'
  <2> SUFFICES ASSUME NEW v \in Workers, NEW i \in 1..Len(to_write'[v])
               PROVE  EventHolds(to_write[v][i])'
    BY DEF EventsToWriteHold
  <2>1. CASE v = w
    BY <1>3, <1>5, <2>1 DEF EventHolds
  <2>2. CASE v # w
    <3>1. PICK e : e = to_write[v][i]
      OBVIOUS
    <3>2. e \in EventRecord /\ EventHolds(e)
      BY <1>4, <1>5, <2>2, <3>1, ElementOfSeq DEF LifeInv, EventsToWriteHold
    <3>3. EventHolds(e)'
      BY <1>1, <1>2, <3>2, EventsLast
    <3>4. QED
      BY <1>5, <2>2, <3>1, <3>3 DEF EventHolds
  <2>3. QED
    BY <2>1, <2>2
<1>8. PendingIsTold'
  <2> SUFFICES ASSUME NEW h \in pending', h \notin stored
               PROVE  \E v \in Workers : \E i \in 1..Len(to_write'[v]) :
                         to_write'[v][i] = Event("decoded", h)
    BY <1>1 DEF PendingIsTold, Event
  <2>1. CASE h \in pending
    <3>1. PICK v \in Workers :
             \E i \in 1..Len(to_write[v]) : to_write[v][i] = Event("decoded", h)
      BY <2>1 DEF LifeInv, PendingIsTold
    <3>2. v # w
      BY <1>1, <3>1
    <3>3. QED
      BY <1>5, <3>1, <3>2
  <2>2. CASE h \notin pending
    <3>1. h = k
      BY <1>1, <1>2, <2>2, AdmitPlaces
    <3>2. QED
      BY <1>3, <1>5, <2>2, <3>1
  <2>3. QED
    BY <2>1, <2>2
<1>9. \A hi : TailHolds(hi) => TailHolds(hi)'
  BY <1>1, AdmitKeepsTail
<1>10. \A snap : snap.pending \subseteq Hashes /\ CaptureHolds(snap) =>
          /\ \A h \in snap.pending : Standing(h)'
          /\ \A h \in pending' \cap stored :
               \/ h \in snap.pending
               \/ \E i \in 1..Len(log) : i > snap.event_seq_hi /\ log[i] = Event("decoded", h)
  BY <1>1, AdmitKeepsCapture DEF LifeInv
<1>11. CapturesHold'
  <2> SUFFICES ASSUME capture # None
               PROVE  /\ capture.event_seq_hi <= Len(log)
                      /\ TailHolds(capture.event_seq_hi)'
                      /\ "pending" \in DOMAIN capture =>
                           capture.life = restarts /\ CaptureHolds(capture)'
    BY <1>1 DEF CapturesHold
  <2>1. PICK c : c = capture
    OBVIOUS
  <2>2. /\ c.event_seq_hi <= Len(log)
        /\ TailHolds(c.event_seq_hi)
        /\ "pending" \in DOMAIN c => c.life = restarts /\ CaptureHolds(c)
    BY <2>1 DEF LifeInv, CapturesHold
  <2>3. TailHolds(c.event_seq_hi)'
    BY <1>9, <2>2
  <2>4. ASSUME "pending" \in DOMAIN c
        PROVE  c.life = restarts /\ CaptureHolds(c)'
    <3>1. c.pending \subseteq Hashes
      BY <2>1, <2>4, CaptureType DEF SoundSnapshot, SnapshotRecord
    <3>2. QED
      BY <1>1, <1>10, <2>2, <2>4, <3>1 DEF CaptureHolds, Event
  <2>5. QED
    BY <1>1, <2>1, <2>2, <2>3, <2>4 DEF TailHolds, CaptureHolds
<1>12. SnapshotHolds'
  <2> SUFFICES ASSUME snapshot # None
               PROVE  /\ snapshot.life <= restarts
                      /\ snapshot.life = restarts =>
                           /\ snapshot.event_seq_hi <= Len(log)
                           /\ TailHolds(snapshot.event_seq_hi)'
                           /\ CaptureHolds(snapshot)'
    BY <1>1 DEF SnapshotHolds
  <2>1. PICK c : c = snapshot
    OBVIOUS
  <2>2. /\ c.life <= restarts
        /\ c.life = restarts =>
             c.event_seq_hi <= Len(log) /\ TailHolds(c.event_seq_hi) /\ CaptureHolds(c)
    BY <2>1 DEF LifeInv, SnapshotHolds
  <2>3. ASSUME c.life = restarts PROVE TailHolds(c.event_seq_hi)' /\ CaptureHolds(c)'
    <3>1. c.pending \subseteq Hashes
      BY <2>1 DEF ConsistencyInv, SoundSnapshot, SnapshotRecord
    <3>2. QED
      BY <1>1, <1>9, <1>10, <2>2, <2>3, <3>1 DEF CaptureHolds, Event
  <2>4. QED
    BY <1>1, <2>1, <2>2, <2>3 DEF TailHolds, CaptureHolds
<1>13. QED
  BY <1>6, <1>7, <1>8, <1>11, <1>12 DEF LifeInv

\* Verdicts are about the pool: they stay when it stays.
LEMMA IdleVerdicts ==
    ASSUME UNCHANGED vars
    PROVE  /\ \A h : Standing(h)' <=> Standing(h)
           /\ \A e : EventHolds(e)' <=> EventHolds(e)
           /\ pending' = pending
<1>1. pending' = pending /\ sender_queues' = sender_queues
  BY DEF vars, admission_vars
<1>2. \A h : (Standing(h)' <=> Standing(h)) /\ (ShutOut(h)' <=> ShutOut(h))
  BY <1>1 DEF Standing, Beaten, ShutOut, Incumbent, SlotOf, SenderQueueLen
<1>3. \A e : EventHolds(e)' <=> EventHolds(e)
  BY <1>2 DEF EventHolds
<1>4. QED
  BY <1>1, <1>2, <1>3

LEMMA WriteKeepsLife ==
    ASSUME ConsistencyInv, LifeInv, NEW w \in Workers, WriteEvent(w)
    PROVE  LifeInv'
<1>1. /\ UNCHANGED vars /\ UNCHANGED <<capture, snapshot, restarts>>
      /\ to_write[w] # <<>>
  BY DEF WriteEvent, bootstrap_vars
<1>2. /\ \A h : Standing(h)' <=> Standing(h)
      /\ \A e : EventHolds(e)' <=> EventHolds(e)
      /\ pending' = pending
  BY <1>1, IdleVerdicts
<1>3. to_write \in [Workers -> Seq(EventRecord)] /\ log \in Seq(EventRecord)
  BY DEF ConsistencyInv
<1>4. PICK e : e = Head(to_write[w])
  OBVIOUS
<1>5. PICK rest : rest = Tail(to_write[w])
  OBVIOUS
<1>6. /\ e \in EventRecord /\ rest \in Seq(EventRecord) /\ Len(rest) = Len(to_write[w]) - 1
      /\ \A i \in 1..Len(rest) : rest[i] = to_write[w][i + 1]
      /\ e = to_write[w][1] /\ Len(to_write[w]) \in Nat /\ Len(to_write[w]) > 0
  <2>1. to_write[w] \in Seq(EventRecord)
    BY <1>3
  <2>2. Len(to_write[w]) \in Nat /\ Len(to_write[w]) > 0 /\ e = to_write[w][1]
    BY <1>1, <1>4, <2>1, EmptySeq
  <2>3. QED
    BY <1>1, <1>4, <1>5, <2>1, <2>2, HeadTailProperties
<1>7. /\ log' = Append(log, e)
      /\ to_write' = [to_write EXCEPT ![w] = rest]
      /\ stored' = IF e.kind = "decoded" THEN stored \cup {e.hash} ELSE stored
  BY <1>4, <1>5 DEF WriteEvent
<1>8. to_write'[w] = rest /\ \A v \in Workers : v # w => to_write'[v] = to_write[v]
  BY <1>3, <1>7
<1>9. /\ Len(log) \in Nat /\ Len(log') = Len(log) + 1
      /\ \A i \in 1..Len(log) : log'[i] = log[i]
      /\ log'[Len(log) + 1] = e
  BY <1>3, <1>6, <1>7, AppendProperties
<1>10. EventHolds(e)
  BY <1>6 DEF LifeInv, EventsToWriteHold
<1>11. e.kind = "decoded" => e = Event("decoded", e.hash) /\ Standing(e.hash)
  BY <1>6, <1>10 DEF EventRecord, Event, EventHolds
<1>12. StoredStand'
  BY <1>2, <1>7, <1>11 DEF LifeInv, StoredStand
<1>13. EventsToWriteHold'
  <2> SUFFICES ASSUME NEW v \in Workers, NEW i \in 1..Len(to_write'[v])
               PROVE  EventHolds(to_write'[v][i])
    BY <1>2 DEF EventsToWriteHold, EventHolds
  <2>1. CASE v = w
    <3>1. i \in 1..Len(rest) /\ i + 1 \in 1..Len(to_write[w])
      BY <1>6, <1>8, <2>1
    <3>2. QED
      BY <1>6, <1>8, <2>1, <3>1 DEF LifeInv, EventsToWriteHold
  <2>2. CASE v # w
    BY <1>8, <2>2 DEF LifeInv, EventsToWriteHold
  <2>3. QED
    BY <2>1, <2>2
<1>14. PendingIsTold'
  <2> SUFFICES ASSUME NEW h \in pending, h \notin stored'
               PROVE  \E v \in Workers : \E i \in 1..Len(to_write'[v]) :
                         to_write'[v][i] = Event("decoded", h)
    BY <1>2 DEF PendingIsTold, Event
  <2>1. h \notin stored
    BY <1>7
  <2>2. PICK v \in Workers :
           \E i \in 1..Len(to_write[v]) : to_write[v][i] = Event("decoded", h)
    BY <2>1 DEF LifeInv, PendingIsTold
  <2>3. PICK i \in 1..Len(to_write[v]) : to_write[v][i] = Event("decoded", h)
    BY <2>2
  <2>4. CASE v # w
    BY <1>8, <2>3, <2>4
  <2>5. CASE v = w
    <3>1. i # 1
      <4> SUFFICES ASSUME i = 1 PROVE FALSE
        OBVIOUS
      <4>1. e.kind = "decoded" /\ e.hash = h
        BY <1>6, <2>3, <2>5 DEF Event
      <4>2. QED
        BY <1>7, <4>1
    <3>2. i - 1 \in 1..Len(rest) /\ (i - 1) + 1 = i
      BY <1>6, <2>3, <2>5, <3>1
    <3>3. rest[i - 1] = Event("decoded", h)
      BY <1>6, <2>3, <2>5, <3>2
    <3>4. QED
      BY <1>8, <2>5, <3>2, <3>3
  <2>6. QED
    BY <2>4, <2>5
<1>15. ASSUME NEW hi, TailHolds(hi)
       PROVE  \A i \in 1..Len(log') : i > hi => EventHolds(log'[i])
  <2> SUFFICES ASSUME NEW i \in 1..Len(log'), i > hi PROVE EventHolds(log'[i])
    OBVIOUS
  <2>1. i \in 1..Len(log) \/ i = Len(log) + 1
    BY <1>9
  <2>2. QED
    BY <1>9, <1>10, <1>15, <2>1 DEF TailHolds
<1>16. ASSUME NEW snap, CaptureHolds(snap), snap.event_seq_hi <= Len(log), snap.event_seq_hi \in Nat
       PROVE  /\ \A h \in snap.pending : Standing(h)
              /\ \A h \in pending \cap stored' :
                   \/ h \in snap.pending
                   \/ \E i \in 1..Len(log') :
                        i > snap.event_seq_hi /\ log'[i] = Event("decoded", h)
  <2> SUFFICES ASSUME NEW h \in pending \cap stored', h \notin snap.pending
               PROVE  \E i \in 1..Len(log') :
                         i > snap.event_seq_hi /\ log'[i] = Event("decoded", h)
    BY <1>16 DEF CaptureHolds
  <2>1. CASE h \in stored
    <3>1. PICK i \in 1..Len(log) : i > snap.event_seq_hi /\ log[i] = Event("decoded", h)
      BY <1>16, <2>1 DEF CaptureHolds
    <3>2. i \in 1..Len(log') /\ log'[i] = log[i]
      BY <1>9
    <3>3. QED
      BY <3>1, <3>2
  <2>2. CASE h \notin stored
    <3>1. e.kind = "decoded" /\ e.hash = h
      BY <1>7, <2>2
    <3>2. /\ Len(log) + 1 \in 1..Len(log') /\ Len(log) + 1 > snap.event_seq_hi
          /\ log'[Len(log) + 1] = Event("decoded", h)
      BY <1>9, <1>11, <1>16, <3>1
    <3>3. QED
      BY <3>2
  <2>3. QED
    BY <2>1, <2>2
<1>17. CapturesHold'
  <2> SUFFICES ASSUME capture # None
               PROVE  /\ capture.event_seq_hi <= Len(log')
                      /\ \A i \in 1..Len(log') : i > capture.event_seq_hi => EventHolds(log'[i])
                      /\ "pending" \in DOMAIN capture =>
                           capture.life = restarts /\ CaptureHolds(capture)'
    BY <1>1, <1>2 DEF CapturesHold, TailHolds, EventHolds
  <2>1. /\ capture.event_seq_hi <= Len(log)
        /\ TailHolds(capture.event_seq_hi)
        /\ "pending" \in DOMAIN capture => capture.life = restarts /\ CaptureHolds(capture)
        /\ capture.event_seq_hi \in Nat
    BY CaptureType DEF LifeInv, CapturesHold
  <2>2. capture.event_seq_hi <= Len(log')
    BY <1>9, <2>1
  <2>3. \A i \in 1..Len(log') : i > capture.event_seq_hi => EventHolds(log'[i])
    BY <1>15, <2>1
  <2>4. CaptureHolds(capture) => CaptureHolds(capture)'
    BY <1>1, <1>2, <1>16, <2>1 DEF CaptureHolds, Event
  <2>5. QED
    BY <2>1, <2>2, <2>3, <2>4
<1>18. SnapshotHolds'
  <2> SUFFICES ASSUME snapshot # None
               PROVE  /\ snapshot.life <= restarts
                      /\ snapshot.life = restarts =>
                           /\ snapshot.event_seq_hi <= Len(log')
                           /\ \A i \in 1..Len(log') :
                                i > snapshot.event_seq_hi => EventHolds(log'[i])
                           /\ CaptureHolds(snapshot)'
    BY <1>1, <1>2 DEF SnapshotHolds, TailHolds, EventHolds
  <2>1. /\ snapshot.life <= restarts
        /\ snapshot.life = restarts =>
             /\ snapshot.event_seq_hi <= Len(log)
             /\ TailHolds(snapshot.event_seq_hi)
             /\ CaptureHolds(snapshot)
        /\ snapshot.event_seq_hi \in Nat
    BY DEF LifeInv, SnapshotHolds, ConsistencyInv, SoundSnapshot, SnapshotRecord
  <2> SUFFICES ASSUME snapshot.life = restarts
               PROVE  /\ snapshot.event_seq_hi <= Len(log')
                      /\ \A i \in 1..Len(log') : i > snapshot.event_seq_hi => EventHolds(log'[i])
                      /\ CaptureHolds(snapshot)'
    BY <2>1
  <2>2. snapshot.event_seq_hi <= Len(log')
    BY <1>9, <2>1
  <2>3. \A i \in 1..Len(log') : i > snapshot.event_seq_hi => EventHolds(log'[i])
    BY <1>15, <2>1
  <2>4. CaptureHolds(snapshot)'
    BY <1>1, <1>2, <1>16, <2>1 DEF CaptureHolds, Event
  <2>5. QED
    BY <2>2, <2>3, <2>4
<1>19. QED
  BY <1>12, <1>13, <1>14, <1>17, <1>18 DEF LifeInv

\* What leaves the pool and the log alone leaves what they say alone.
LEMMA IdleLife ==
    ASSUME LifeInv, UNCHANGED <<vars, log, to_write, stored, restarts>>
    PROVE  /\ StoredStand' /\ EventsToWriteHold' /\ PendingIsTold'
           /\ \A hi : TailHolds(hi)' <=> TailHolds(hi)
           /\ \A snap : CaptureHolds(snap)' <=> CaptureHolds(snap)
           /\ capture' = capture => CapturesHold'
           /\ snapshot' = snapshot => SnapshotHolds'
<1>1. /\ \A h : Standing(h)' <=> Standing(h)
      /\ \A e : EventHolds(e)' <=> EventHolds(e)
      /\ pending' = pending
  BY IdleVerdicts
<1>2. StoredStand' /\ EventsToWriteHold' /\ PendingIsTold'
  BY <1>1 DEF LifeInv, StoredStand, EventsToWriteHold, EventHolds, PendingIsTold
<1>3. /\ \A hi : TailHolds(hi)' <=> TailHolds(hi)
      /\ \A snap : CaptureHolds(snap)' <=> CaptureHolds(snap)
  BY <1>1 DEF TailHolds, EventHolds, CaptureHolds, Event
<1>4. capture' = capture => CapturesHold'
  BY <1>1 DEF LifeInv, CapturesHold, TailHolds, EventHolds, CaptureHolds, Event
<1>5. snapshot' = snapshot => SnapshotHolds'
  BY <1>1 DEF LifeInv, SnapshotHolds, TailHolds, EventHolds, CaptureHolds, Event
<1>6. QED
  BY <1>2, <1>3, <1>4, <1>5

LEMMA SnapshotWriterKeepsLife ==
    ASSUME ConsistencyInv, LifeInv, ReadWatermark \/ CaptureSnapshot \/ WriteSchedulerSnapshot
    PROVE  LifeInv'
<1>1. UNCHANGED <<vars, log, to_write, stored, restarts>>
  BY DEF ReadWatermark, CaptureSnapshot, WriteSchedulerSnapshot, bootstrap_vars
<1>2. /\ StoredStand' /\ EventsToWriteHold' /\ PendingIsTold'
      /\ \A hi : TailHolds(hi)' <=> TailHolds(hi)
      /\ \A snap : CaptureHolds(snap)' <=> CaptureHolds(snap)
      /\ capture' = capture => CapturesHold'
      /\ snapshot' = snapshot => SnapshotHolds'
  BY <1>1, IdleLife
<1>3. Len(log) \in Nat /\ restarts \in Nat
  BY DEF ConsistencyInv
<1>4. CASE ReadWatermark
  <2>1. snapshot' = snapshot /\ capture' = [event_seq_hi |-> Len(log)]
    BY <1>4 DEF ReadWatermark
  <2>2. capture'.event_seq_hi = Len(log) /\ "pending" \notin DOMAIN capture'
    BY <2>1
  <2>3. \A i \in 1..Len(log) : ~(i > Len(log))
    BY <1>3
  <2>4. CapturesHold'
    BY <1>1, <1>3, <2>2, <2>3 DEF CapturesHold, TailHolds
  <2>5. QED
    BY <1>2, <2>1, <2>4 DEF LifeInv
<1>5. CASE CaptureSnapshot
  <2>1. /\ capture # None /\ snapshot' = snapshot
        /\ capture' = PersistedSnapshot(capture.event_seq_hi)
    BY <1>5 DEF CaptureSnapshot
  <2>2. PICK hi : hi = capture.event_seq_hi
    OBVIOUS
  <2>3. hi <= Len(log) /\ TailHolds(hi)
    BY <2>1, <2>2 DEF LifeInv, CapturesHold
  <2>4. PICK snap : snap = PersistedSnapshot(hi)
    OBVIOUS
  <2>5. snap.event_seq_hi = hi /\ snap.pending = pending /\ snap.life = restarts
    BY <2>4 DEF PersistedSnapshot
  <2>6. \A h \in pending : Standing(h)
    BY DEF Standing
  <2>7. CaptureHolds(snap)
    BY <2>5, <2>6 DEF CaptureHolds
  <2>8. capture' = snap
    BY <2>1, <2>2, <2>4
  <2>9. TailHolds(hi)' /\ CaptureHolds(snap)'
    BY <1>2, <2>3, <2>7
  <2>10. CapturesHold'
    BY <1>1, <2>3, <2>5, <2>8, <2>9 DEF CapturesHold, TailHolds, CaptureHolds
  <2>11. QED
    BY <1>2, <2>1, <2>10 DEF LifeInv
<1>6. CASE WriteSchedulerSnapshot
  <2>1. /\ capture # None /\ "pending" \in DOMAIN capture
        /\ snapshot' = capture /\ capture' = None
    BY <1>6 DEF WriteSchedulerSnapshot
  <2>2. PICK snap : snap = capture
    OBVIOUS
  <2>3. /\ snap.event_seq_hi <= Len(log) /\ TailHolds(snap.event_seq_hi)
        /\ snap.life = restarts /\ CaptureHolds(snap)
    BY <2>1, <2>2 DEF LifeInv, CapturesHold
  <2>4. TailHolds(snap.event_seq_hi)' /\ CaptureHolds(snap)'
    BY <1>2, <2>3
  <2>5. SnapshotHolds'
    BY <1>1, <1>3, <2>1, <2>2, <2>3, <2>4 DEF SnapshotHolds, TailHolds, CaptureHolds
  <2>6. CapturesHold'
    BY <2>1 DEF CapturesHold
  <2>7. QED
    BY <1>2, <2>5, <2>6 DEF LifeInv
<1>7. QED
  BY <1>4, <1>5, <1>6

\* A restart begins a new life, of which no snapshot was taken yet.
LEMMA RestartKeepsLife ==
    ASSUME ConsistencyInv, LifeInv, Restart
    PROVE  LifeInv'
<1>0. PICK pool \in PoolRecord : \E error : Reboot(pool, error)
  BY RestartInstalls
<1>1. PICK error : Reboot(pool, error)
  BY <1>0
<1>2. /\ pending' = pool.pending /\ stored' = pool.pending
      /\ restarts' = restarts + 1 /\ restarts \in Nat
      /\ to_write' = [w \in Workers |-> <<>>] /\ capture' = None /\ snapshot' = snapshot
  BY <1>1 DEF Reboot, Install, ConsistencyInv
<1>3. StoredStand' /\ PendingIsTold' /\ CapturesHold'
  BY <1>2 DEF StoredStand, Standing, PendingIsTold, CapturesHold
<1>4. EventsToWriteHold'
  <2>1. \A w \in Workers : 1..Len(to_write'[w]) = {}
    BY <1>2
  <2>2. QED
    BY <2>1 DEF EventsToWriteHold
<1>5. SnapshotHolds'
  <2>1. snapshot # None => snapshot.life \in Nat /\ snapshot.life <= restarts
    BY DEF LifeInv, SnapshotHolds, ConsistencyInv, SoundSnapshot, SnapshotRecord
  <2>2. snapshot # None => snapshot.life <= restarts' /\ snapshot.life # restarts'
    BY <1>2, <2>1
  <2>3. QED
    BY <1>2, <2>2 DEF SnapshotHolds
<1>6. QED
  BY <1>3, <1>4, <1>5 DEF LifeInv

\* A new process has no past to be true to.
LEMMA StartKeepsLife ==
    ASSUME StartProcess
    PROVE  LifeInv'
<1>1. /\ pending' = {} /\ stored' = {} /\ capture' = None /\ snapshot' = None
      /\ to_write' = [w \in Workers |-> <<>>]
  BY DEF StartProcess, Install, EmptyPool
<1>2. \A w \in Workers : 1..Len(to_write'[w]) = {}
  BY <1>1
<1>3. QED
  BY <1>1, <1>2 DEF LifeInv, StoredStand, EventsToWriteHold, PendingIsTold, CapturesHold,
                    SnapshotHolds

\* Fees are constants: OrdinaryFees is about the deployment, not about a state.
LEMMA StepKeepsLife ==
    ConsistencyInv /\ (OrdinaryFees => LifeInv) /\ [RehydrationNext]_all_vars
      => (OrdinaryFees => LifeInv)'
<1> SUFFICES ASSUME ConsistencyInv, OrdinaryFees => LifeInv, [RehydrationNext]_all_vars,
                    OrdinaryFees'
             PROVE  LifeInv'
  OBVIOUS
<1>0. OrdinaryFees /\ LifeInv
  BY DEF OrdinaryFees, NoFeeSaturation
<1>1. CASE \E w \in Workers : WriteEvent(w)
  BY <1>0, <1>1, WriteKeepsLife
<1>2. CASE \E w \in Workers, h \in Hashes : AdmitLive(w, h)
  BY <1>0, <1>2, AdmitKeepsLife
<1>3. CASE ReadWatermark \/ CaptureSnapshot \/ WriteSchedulerSnapshot
  BY <1>0, <1>3, SnapshotWriterKeepsLife
<1>4. CASE Restart \/ StartProcess
  BY <1>0, <1>4, RestartKeepsLife, StartKeepsLife
<1>5. CASE UNCHANGED all_vars \/ WriteOther
  <2>1. UNCHANGED <<vars, log, to_write, stored, restarts>> /\ capture' = capture /\ snapshot' = snapshot
    BY <1>5 DEF all_vars, storage_vars, bootstrap_vars, WriteOther
  <2>2. QED
    BY <1>0, <2>1, IdleLife DEF LifeInv
<1>6. QED
  BY <1>1, <1>2, <1>3, <1>4, <1>5 DEF RehydrationNext

LEMMA LifeAtFirst == RehydrationInit => LifeInv
<1> SUFFICES ASSUME RehydrationInit PROVE LifeInv
  OBVIOUS
<1>1. pending = {} /\ stored = {} /\ capture = None /\ snapshot = None
  BY DEF RehydrationInit, Init
<1>2. \A w \in Workers : 1..Len(to_write[w]) = {}
  BY DEF RehydrationInit
<1>3. QED
  BY <1>1, <1>2 DEF LifeInv, StoredStand, EventsToWriteHold, PendingIsTold, CapturesHold,
                    SnapshotHolds

LEMMA AlwaysTrueToLife == RehydrationSpec => [](OrdinaryFees => LifeInv)
BY LifeAtFirst, StepKeepsLife, AlwaysConsistent, PTL DEF RehydrationSpec

----------------------------------------------------------------------------
(* What a restart keeps *)

\* Admitting again what this life admitted, in whatever order, adds nothing that it did not
\* admit and displaces nothing that is still pending.
LEMMA ReadmissionKeeps ==
    ASSUME OrdinaryFees, TypeOK, QueuesMatchPending, SenderLimitHolds,
           NEW pool \in PoolRecord, SoundPool(pool.pending, pool.sender_queues),
           \A h \in pool.pending : Standing(h),
           NEW k \in Hashes, Standing(k)
    PROVE  LET next == AdmitInto(pool, k)
           IN  /\ \A h \in next.pending : Standing(h)
               /\ \A h \in pending : h \in pool.pending \/ h = k => h \in next.pending
<1>1. PICK next : next = AdmitInto(pool, k)
  OBVIOUS
<1>2. PICK g : g = SlotOf(pool.sender_queues, k)
  OBVIOUS
<1>3. PICK used : used = Used(pool.sender_queues[Tx[k].sender])
  OBVIOUS
<1>4. \/ /\ next.pending = pool.pending
         /\ \/ k \in pool.pending
            \/ g \in pool.pending /\ ReplacementFee(k) < ReplacementThresholdFee(g)
            \/ g = None /\ Cardinality(used) >= MaxPendingPerSender
      \/ /\ k \notin pool.pending
         /\ \/ g \in pool.pending /\ ReplacementFee(k) >= ReplacementThresholdFee(g)
            \/ g = None
         /\ next.pending = (pool.pending \ {g}) \cup {k}
  BY <1>1, <1>2, <1>3, AdmitIntoCases
<1>5. Tx[k].sender \in Senders /\ Tx[k].nonce \in Nonces /\ None \notin pool.pending
  BY TxType, TransactionAssumption DEF SoundPool
<1>6. g \in pool.pending => /\ g \in Hashes /\ Standing(g)
                            /\ Tx[g].sender = Tx[k].sender /\ Tx[g].nonce = Tx[k].nonce
  BY <1>2, <1>5 DEF SoundPool, SlotOf
<1>7. g \in pool.pending => Incumbent(g) = Incumbent(k)
  BY <1>6 DEF Incumbent, SlotOf
<1>8. \A h \in pending : Incumbent(h) = h /\ h \in Hashes
  BY DEF QueuesMatchPending, TypeOK
<1>9. ASSUME NEW h \in pending, h \in pool.pending PROVE h \in next.pending
  <2> SUFFICES ASSUME h \notin next.pending PROVE FALSE
    OBVIOUS
  <2>1. /\ h = g /\ h # k /\ g \in pool.pending
        /\ ReplacementFee(k) >= ReplacementThresholdFee(g)
    BY <1>4, <1>5, <1>9
  <2>2. Incumbent(k) = h
    BY <1>7, <1>8, <2>1
  <2>3. k \notin pending
    BY <1>8, <2>1, <2>2
  <2>4. ReplacementFee(h) >= ReplacementThresholdFee(k)
    BY <2>2, <2>3 DEF Standing, Beaten
  <2>5. ReplacementFee(k) < ReplacementThresholdFee(h)
    BY <1>8, <2>4, ReplacementIsOneWay
  <2>6. ReplacementFee(k) \in Nat /\ ReplacementThresholdFee(h) \in Nat
    BY <1>8, ReplacementFeeType, ThresholdType
  <2>7. QED
    BY <2>1, <2>5, <2>6
<1>10. ASSUME k \in pending PROVE k \in next.pending
  <2> SUFFICES ASSUME k \notin next.pending PROVE FALSE
    OBVIOUS
  <2>1. /\ k \notin pool.pending
        /\ \/ g \in pool.pending /\ ReplacementFee(k) < ReplacementThresholdFee(g)
           \/ g = None /\ Cardinality(used) >= MaxPendingPerSender
    BY <1>4
  <2>2. Incumbent(k) = k
    BY <1>8, <1>10
  <2>3. CASE g \in pool.pending /\ ReplacementFee(k) < ReplacementThresholdFee(g)
    <3>1. g # k /\ Incumbent(g) = k
      BY <1>7, <2>1, <2>2, <2>3
    <3>2. g \notin pending
      BY <1>8, <3>1
    <3>3. ReplacementFee(k) >= ReplacementThresholdFee(g)
      BY <1>6, <2>3, <3>1, <3>2 DEF Standing, Beaten
    <3>4. ReplacementFee(k) \in Nat /\ ReplacementThresholdFee(g) \in Nat
      BY <1>6, <2>3, ReplacementFeeType, ThresholdType
    <3>5. QED
      BY <2>3, <3>3, <3>4
  <2>4. CASE g = None /\ Cardinality(used) >= MaxPendingPerSender
    <3>1. PICK real : real = Used(sender_queues[Tx[k].sender])
      OBVIOUS
    <3>2. used \subseteq real
      <4> SUFFICES ASSUME NEW n \in used PROVE n \in real
        OBVIOUS
      <4>1. PICK h : h = pool.sender_queues[Tx[k].sender][n]
        OBVIOUS
      <4>2. n \in Nonces /\ h # None
        BY <1>3, <4>1 DEF Used
      <4>3. h \in pool.pending /\ Tx[h].sender = Tx[k].sender /\ Tx[h].nonce = n
        BY <1>5, <4>1, <4>2 DEF SoundPool
      <4>4. Incumbent(h) \in pending
        BY <1>8, <4>3 DEF Standing, Beaten
      <4>5. sender_queues[Tx[k].sender][n] # None
        BY <4>3, <4>4, TransactionAssumption DEF Incumbent, SlotOf, TypeOK
      <4>6. QED
        BY <3>1, <4>2, <4>5 DEF Used
    <3>3. Tx[k].nonce \in real /\ Tx[k].nonce \notin used
      BY <1>2, <1>3, <1>5, <2>2, <2>4, <3>1, TransactionAssumption DEF Used, Incumbent, SlotOf
    <3>4. /\ IsFiniteSet(real) /\ Cardinality(real) \in Nat
          /\ IsFiniteSet(used) /\ Cardinality(used) \in Nat
      BY <1>3, <3>1, NoncesFinite DEF Used
    <3>5. Cardinality(used) < Cardinality(real)
      <4>1. /\ Cardinality(used) <= Cardinality(real)
            /\ Cardinality(used) = Cardinality(real) => used = real
        BY <3>2, <3>4, FS_Subset
      <4>2. QED
        BY <3>3, <3>4, <4>1
    <3>6. Cardinality(real) <= MaxPendingPerSender
      BY <1>5, <3>1 DEF SenderLimitHolds, SenderQueueLen, Used
    <3>7. QED
      BY <2>4, <3>4, <3>5, <3>6, SchedulerAssumption
  <2>5. QED
    BY <2>1, <2>3, <2>4
<1>11. \A h \in next.pending : Standing(h)
  BY <1>4
<1>12. QED
  BY <1>1, <1>9, <1>10, <1>11

\* So does the replay of a tail.
LEMMA ReplayKeeps ==
    ASSUME OrdinaryFees, TypeOK, QueuesMatchPending, SenderLimitHolds,
           NEW pool \in PoolRecord, SoundPool(pool.pending, pool.sender_queues),
           \A h \in pool.pending : Standing(h),
           NEW tail \in Seq(EventRecord), \A i \in 1..Len(tail) : EventHolds(tail[i])
    PROVE  LET last == ReplayTransactions(pool, tail)
           IN  /\ \A h \in last.pending : Standing(h)
               /\ \A h \in pending :
                    \/ h \in pool.pending
                    \/ \E i \in 1..Len(tail) : tail[i] = Event("decoded", h)
                    => h \in last.pending
<1>1. Len(tail) \in Nat
  OBVIOUS
<1>2. PICK f : /\ f[0] = pool
               /\ \A n \in 1..Len(tail) : f[n] = ReplayAt(f, pool, tail, n)
               /\ ReplayTransactions(pool, tail) = f[Len(tail)]
  BY <1>1, ReplayIsLast
<1> DEFINE Kept(n) == /\ f[n] \in PoolRecord
                      /\ SoundPool(f[n].pending, f[n].sender_queues)
                      /\ \A h \in f[n].pending : Standing(h)
                      /\ \A h \in pending :
                           \/ h \in pool.pending
                           \/ \E i \in 1..n : tail[i] = Event("decoded", h)
                           => h \in f[n].pending
           Good == {n \in Nat : n <= Len(tail) => Kept(n)}
<1>3. 0 \in Good
  BY <1>2
<1>4. ASSUME NEW n \in Nat, n \in Good PROVE n + 1 \in Good
  <2> SUFFICES ASSUME n + 1 <= Len(tail) PROVE Kept(n + 1)
    OBVIOUS
  <2>1. Kept(n)
    BY <1>1, <1>4
  <2>2. n + 1 \in 1..Len(tail) /\ (n + 1) - 1 = n /\ n + 1 # 0
    BY <1>1
  <2>3. PICK e : e = tail[n + 1]
    OBVIOUS
  <2>4. e \in EventRecord /\ EventHolds(e)
    BY <2>2, <2>3, ElementOfSeq
  <2>5. f[n + 1] = IF e.kind \in {"decoded", "reorged"} THEN AdmitInto(f[n], e.hash) ELSE f[n]
    BY <1>2, <2>2, <2>3 DEF ReplayAt
  <2>6. \A h : (\E i \in 1..(n + 1) : tail[i] = Event("decoded", h))
                => (\E i \in 1..n : tail[i] = Event("decoded", h)) \/ e = Event("decoded", h)
    <3> SUFFICES ASSUME NEW h, NEW i \in 1..(n + 1), tail[i] = Event("decoded", h)
                 PROVE  (\E j \in 1..n : tail[j] = Event("decoded", h)) \/ e = Event("decoded", h)
      OBVIOUS
    <3>1. i \in 1..n \/ i = n + 1
      OBVIOUS
    <3>2. QED
      BY <2>3, <3>1
  <2>7. CASE e.kind = "decoded"
    <3>1. e.hash \in Hashes /\ Standing(e.hash)
      BY <2>4, <2>7 DEF EventRecord, EventHolds
    <3>2. PICK next : next = AdmitInto(f[n], e.hash)
      OBVIOUS
    <3>3. next \in PoolRecord /\ SoundPool(next.pending, next.sender_queues)
      BY <2>1, <3>1, <3>2, AdmitIntoSound
    <3>4. /\ \A h \in next.pending : Standing(h)
          /\ \A h \in pending : h \in f[n].pending \/ h = e.hash => h \in next.pending
      BY <2>1, <3>1, <3>2, ReadmissionKeeps
    <3>5. f[n + 1] = next
      BY <2>5, <2>7, <3>2
    <3>6. \A h : e = Event("decoded", h) => h = e.hash
      BY DEF Event
    <3>7. QED
      BY <2>1, <2>6, <3>3, <3>4, <3>5, <3>6
  <2>8. CASE e.kind # "decoded"
    <3>1. f[n + 1] = f[n]
      BY <2>4, <2>5, <2>8 DEF EventRecord
    <3>2. \A h : e # Event("decoded", h)
      BY <2>8 DEF Event
    <3>3. QED
      BY <2>1, <2>6, <3>1, <3>2
  <2>9. QED
    BY <2>7, <2>8
<1> HIDE DEF Good
<1>5. Len(tail) \in Good
  BY <1>1, <1>3, <1>4, NatSetInduction
<1>6. Kept(Len(tail))
  BY <1>1, <1>5 DEF Good
<1>7. QED
  BY <1>2, <1>6

\* The pending set of a sound pool determines its queues.
LEMMA SameQueues ==
    ASSUME NEW p, NEW q, NEW r, SoundPool(p, q), SoundPool(p, r)
    PROVE  q = r
<1>1. ASSUME NEW s \in Senders, NEW n \in Nonces PROVE q[s][n] = r[s][n]
  <2>1. q[s][n] # None => r[s][n] = q[s][n]
    BY DEF SoundPool, SlotOf
  <2>2. r[s][n] # None => q[s][n] = r[s][n]
    BY DEF SoundPool, SlotOf
  <2>3. QED
    BY <2>1, <2>2
<1>2. q \in Queues /\ r \in Queues
  BY DEF SoundPool
<1>3. ASSUME NEW s \in Senders PROVE q[s] = r[s]
  <2>1. q[s] \in [Nonces -> Hashes \cup {None}] /\ r[s] \in [Nonces -> Hashes \cup {None}]
    BY <1>2 DEF Queues
  <2>2. QED
    BY <1>1, <2>1
<1>4. QED
  BY <1>2, <1>3 DEF Queues

\* What a restart from a snapshot of this life makes of the pool.
LEMMA RestoredAndReplayed ==
    ASSUME OrdinaryFees, ConsistencyInv, LifeInv, snapshot # None, snapshot.life = restarts,
           evicted <= snapshot.event_seq_hi, RestartFromSnapshot, failure' = None
    PROVE  /\ \A h \in pending' : Standing(h)
           /\ pending \cap stored \subseteq pending'
           /\ SoundPool(pending', sender_queues')
<1>1. TypeOK /\ QueuesMatchPending /\ SenderLimitHolds /\ stored \subseteq Hashes /\ SoundSnapshot(snapshot)
  BY DEF ConsistencyInv
<1>2. PICK snap : snap = snapshot
  OBVIOUS
<1>3. PICK tail : tail = EventTail
  OBVIOUS
<1>4. PICK pruned : pruned = Sanitize(snap, tail)
  OBVIOUS
<1>5. PICK pool : pool = ReplayTransactions(RestoredPool(pruned), tail)
  OBVIOUS
<1>6. /\ pending' = pool.pending /\ sender_queues' = pool.sender_queues
  BY <1>2, <1>3, <1>4, <1>5 DEF RestartFromSnapshot, Reboot, Install
<1>7. SoundSnapshot(snap) /\ tail \in Seq(EventRecord)
  BY <1>1, <1>2, <1>3, TailType
<1>8. /\ snap.event_seq_hi \in Nat /\ snap.event_seq_hi <= Len(log)
      /\ TailHolds(snap.event_seq_hi) /\ CaptureHolds(snap)
  BY <1>2, <1>7 DEF LifeInv, SnapshotHolds, SoundSnapshot, SnapshotRecord
<1>9. Len(log) \in Nat /\ \A i \in 1..Len(log) : log[i] \in EventRecord
  BY ElementOfSeq DEF ConsistencyInv
<1>10. /\ Len(tail) = Len(log) - snap.event_seq_hi
       /\ \A i \in 1..Len(tail) : tail[i] = log[snap.event_seq_hi + i]
  <2> DEFINE m == snap.event_seq_hi + 1
  <2>1. m \in Int /\ Len(log) \in Int /\ \A i \in m..Len(log) : log[i] \in EventRecord
    BY <1>8, <1>9
  <2>2. /\ Len(SubSeq(log, m, Len(log))) = IF m <= Len(log) THEN Len(log) - m + 1 ELSE 0
        /\ \A i \in 1..(Len(log) - m + 1) : SubSeq(log, m, Len(log))[i] = log[m + i - 1]
    BY <2>1, SubSeqProperties
  <2>3. tail = SubSeq(log, m, Len(log))
    <3>1. evicted \in Nat /\ ~(evicted > snapshot.event_seq_hi)
      <4>1. evicted \in Nat /\ snapshot.event_seq_hi \in Nat
        BY <1>2, <1>8 DEF ConsistencyInv
      <4>2. QED
        BY <4>1
    <3>2. EventTail = SubSeq(log, snapshot.event_seq_hi + 1, Len(log))
      BY <3>1 DEF EventTail
    <3>3. QED
      BY <1>2, <1>3, <3>2
  <2>4. Len(tail) = Len(log) - snap.event_seq_hi
    BY <1>8, <1>9, <2>2, <2>3
  <2>5. ASSUME NEW i \in 1..Len(tail) PROVE tail[i] = log[snap.event_seq_hi + i]
    <3>1. i \in 1..(Len(log) - m + 1) /\ m + i - 1 = snap.event_seq_hi + i
      BY <1>8, <1>9, <2>4
    <3>2. QED
      BY <2>2, <2>3, <3>1
  <2>6. QED
    BY <2>4, <2>5
<1>11. \A i \in 1..Len(tail) : EventHolds(tail[i])
  <2> SUFFICES ASSUME NEW i \in 1..Len(tail) PROVE EventHolds(tail[i])
    OBVIOUS
  <2>1. snap.event_seq_hi + i \in 1..Len(log) /\ snap.event_seq_hi + i > snap.event_seq_hi
    BY <1>8, <1>9, <1>10
  <2>2. QED
    BY <1>8, <1>10, <2>1 DEF TailHolds
<1>12. \A h \in RemovedHashes(tail) : h \notin pending
  <2> SUFFICES ASSUME NEW h \in RemovedHashes(tail) PROVE h \notin pending
    OBVIOUS
  <2>1. PICK i \in DOMAIN tail : tail[i].hash = h /\ tail[i].kind \in {"dropped", "replaced", "confirmed"}
    BY DEF RemovedHashes
  <2>2. i \in 1..Len(tail) /\ tail[i] \in EventRecord
    BY <1>7, <2>1, ElementOfSeq
  <2>3. tail[i].kind \in {"dropped", "replaced"}
    BY <2>1, <2>2 DEF EventRecord
  <2>4. ShutOut(h)
    BY <1>11, <2>1, <2>2, <2>3 DEF EventHolds
  <2>5. QED
    BY <2>4 DEF ShutOut
<1>13. /\ pruned \in SnapshotRecord
       /\ SoundPool(pruned.pending, pruned.sender_queues)
       /\ pruned.pending = snap.pending \ RemovedHashes(tail)
  BY <1>4, <1>7, PrunedSound
<1>14. PICK restored : restored = RestoredPool(pruned)
  OBVIOUS
<1>15. /\ restored \in PoolRecord /\ restored.pending = pruned.pending
       /\ SoundPool(restored.pending, restored.sender_queues)
  BY <1>13, <1>14, RestoredSound
<1>16. \A h \in restored.pending : Standing(h)
  BY <1>8, <1>13, <1>15 DEF CaptureHolds
<1>17. /\ \A h \in pool.pending : Standing(h)
       /\ \A h \in pending :
            \/ h \in restored.pending
            \/ \E i \in 1..Len(tail) : tail[i] = Event("decoded", h)
            => h \in pool.pending
  BY <1>1, <1>5, <1>7, <1>11, <1>14, <1>15, <1>16, ReplayKeeps
<1>18. SoundPool(pool.pending, pool.sender_queues)
  BY <1>5, <1>7, <1>14, <1>15, ReplaySound
<1>19. ASSUME NEW h \in pending \cap stored PROVE h \in pool.pending
  <2>1. CASE h \in snap.pending
    BY <1>12, <1>13, <1>15, <1>17, <2>1
  <2>2. CASE \E i \in 1..Len(log) : i > snap.event_seq_hi /\ log[i] = Event("decoded", h)
    <3>1. PICK i \in 1..Len(log) : i > snap.event_seq_hi /\ log[i] = Event("decoded", h)
      BY <2>2
    <3>2. /\ i - snap.event_seq_hi \in 1..Len(tail)
          /\ snap.event_seq_hi + (i - snap.event_seq_hi) = i
      BY <1>8, <1>9, <1>10, <3>1
    <3>3. tail[i - snap.event_seq_hi] = Event("decoded", h)
      BY <1>10, <3>1, <3>2
    <3>4. QED
      BY <1>17, <3>2, <3>3
  <2>3. QED
    BY <1>8, <2>1, <2>2 DEF CaptureHolds
<1>20. QED
  BY <1>6, <1>17, <1>18, <1>19

\* A restart from a snapshot of the runtime that goes down, none of whose tail has left the
\* ring, keeps every pending transaction that was stored, and the exact pool when everything
\* was.
THEOREM RestartsKeepPool == RehydrationSpec => RestartKeepsPool
<1> DEFINE Kept ==
      /\ OrdinaryFees
      /\ restarts' # restarts
      /\ snapshot # None
      /\ snapshot.life = restarts
      /\ evicted <= snapshot.event_seq_hi
      /\ ~rebuild_scheduler_from_rpc'
      => /\ pending \cap stored \subseteq pending'
         /\ (\A w \in Workers : to_write[w] = <<>>) =>
              pending' = pending /\ sender_queues' = sender_queues
<1>1. ConsistencyInv /\ (OrdinaryFees => LifeInv) /\ [RehydrationNext]_all_vars => Kept
  <2> SUFFICES ASSUME ConsistencyInv, LifeInv, [RehydrationNext]_all_vars, OrdinaryFees,
                      restarts' # restarts, snapshot # None, snapshot.life = restarts,
                      evicted <= snapshot.event_seq_hi, ~rebuild_scheduler_from_rpc'
               PROVE  /\ pending \cap stored \subseteq pending'
                      /\ (\A w \in Workers : to_write[w] = <<>>) =>
                           pending' = pending /\ sender_queues' = sender_queues
    OBVIOUS
  <2>1. Restart
    BY DEF RehydrationNext, all_vars, bootstrap_vars, WriteEvent, WriteOther, AdmitLive,
           ReadWatermark, CaptureSnapshot, WriteSchedulerSnapshot, StartProcess
  <2>2. RestartFromSnapshot /\ failure' = None
    BY <2>1, RehydrationAssumption
       DEF Restart, RestartEmpty, RestartStale, RestartFromSnapshot, Reboot
  <2>3. /\ \A h \in pending' : Standing(h)
        /\ pending \cap stored \subseteq pending'
        /\ SoundPool(pending', sender_queues')
    BY <2>2, RestoredAndReplayed
  <2>4. ASSUME \A w \in Workers : to_write[w] = <<>>
        PROVE  pending' = pending /\ sender_queues' = sender_queues
    <3>1. pending \subseteq pending'
      <4>1. \A w \in Workers : 1..Len(to_write[w]) = {}
        BY <2>4
      <4>2. pending \subseteq stored
        BY <4>1 DEF LifeInv, PendingIsTold
      <4>3. QED
        BY <2>3, <4>2
    <3>2. pending' \subseteq pending
      <4> SUFFICES ASSUME NEW g \in pending', g \notin pending PROVE FALSE
        OBVIOUS
      <4>1. PICK h : h = Incumbent(g)
        OBVIOUS
      <4>2. g \in Hashes /\ h \in pending /\ h # g
        BY <2>3, <4>1 DEF Standing, Beaten, SoundPool
      <4>3. Tx[g].sender \in Senders /\ Tx[g].nonce \in Nonces
        BY <4>2, TxType
      <4>4. Tx[h].sender = Tx[g].sender /\ Tx[h].nonce = Tx[g].nonce
        BY <4>1, <4>2, <4>3, TransactionAssumption
           DEF ConsistencyInv, TypeOK, QueuesMatchPending, Incumbent, SlotOf
      <4>5. SlotOf(sender_queues', g) = g /\ SlotOf(sender_queues', h) = h
        BY <2>3, <3>1, <4>2 DEF SoundPool
      <4>6. QED
        BY <4>2, <4>4, <4>5 DEF SlotOf
    <3>3. pending' = pending
      BY <3>1, <3>2
    <3>4. SoundPool(pending, sender_queues)
      BY PoolIsSound DEF ConsistencyInv
    <3>5. QED
      BY <2>3, <3>3, <3>4, SameQueues
  <2>5. QED
    BY <2>3, <2>4
<1> HIDE DEF Kept
<1>2. RehydrationSpec => [][Kept]_all_vars
  BY <1>1, AlwaysConsistent, AlwaysTrueToLife, PTL DEF RehydrationSpec
<1>3. QED
  BY <1>2 DEF RestartKeepsPool, Kept

============================================================================
