--------------------------- MODULE SchedulerActor ---------------------------
(***************************************************************************)
(* The scheduler actor (crates/scheduler/src/lib.rs, `SchedulerHandle` and *)
(* `SchedulerRuntime`): tasks send commands into a bounded channel without *)
(* waiting for room, the runtime takes them out in order, runs each on the *)
(* state machine of Scheduler and answers through a oneshot channel.  The  *)
(* caller may be gone by then, and the runtime may end with commands in    *)
(* the channel.                                                            *)
(*                                                                         *)
(* `SharedState::state` is written by the runtime alone; the readers       *)
(* (metrics, snapshots) take the read lock and change nothing.             *)
(***************************************************************************)
EXTENDS Scheduler, Sequences

CONSTANTS
    Callers,                \* the tasks that hold a clone of the handle
    HandoffQueueCapacity,   \* SchedulerConfig::handoff_queue_capacity
    MaxCommands             \* bound: commands sent

\* `validate_config` refuses a channel without room (and a zero sender limit,
\* see SchedulerAssumption).
ASSUME ActorAssumption ==
    /\ HandoffQueueCapacity \in Nat \ {0}
    /\ MaxCommands \in Nat
    /\ MaxCommands < MaxGeneration  \* the bound on generations is never met

VARIABLES
    ingress,                \* the channel: [ticket, caller, command]
    replies,                \* the oneshot of each command: None, "applied", "closed"
    running,                \* the runtime task has not ended
    callers,                \* what each caller is doing, for which ticket
    sent,                   \* commands accepted so far
    queue_full_drop_total,
    queue_depth_peak

handle_vars == <<callers, sent, queue_full_drop_total, queue_depth_peak>>
actor_vars == <<vars, ingress, replies, running, handle_vars>>

\* The service the actor implements: the commands in the channel are the open
\* ones, the oneshots hold the answers.
Service == INSTANCE SchedulerService WITH
    open <- {ingress[i] : i \in 1..Len(ingress)},
    answers <- replies,
    serving <- running

Tickets == 1..MaxCommands
Idle == [phase |-> "idle", ticket |-> 0]

ActorInit ==
    /\ Init
    /\ ingress = <<>>
    /\ replies = [t \in Tickets |-> None]
    /\ running = TRUE
    /\ callers = [c \in Callers |-> Idle]
    /\ sent = 0
    /\ queue_full_drop_total = 0
    /\ queue_depth_peak = 0

----------------------------------------------------------------------------
(* The handle *)

\* `try_send_command` with room in the channel.  The depth is read after the
\* command is in, when the runtime may already have taken it out again.
TrySend(c) ==
    /\ callers[c].phase = "idle"
    /\ running
    /\ Len(ingress) < HandoffQueueCapacity
    /\ sent < MaxCommands
    /\ sent' = sent + 1
    /\ \E command \in Service!CommandsOver(tasks) :
         ingress' = Append(ingress, [ticket |-> sent', caller |-> c, command |-> command])
    /\ callers' = [callers EXCEPT ![c] = [phase |-> "measuring", ticket |-> sent']]
    /\ UNCHANGED <<vars, replies, running, queue_full_drop_total, queue_depth_peak>>

\* QueueFull: the command is dropped and counted.  (QueueClosed, once the
\* runtime has ended, changes nothing.)
TrySendFull(c) ==
    /\ callers[c].phase = "idle"
    /\ running
    /\ Len(ingress) = HandoffQueueCapacity
    /\ queue_full_drop_total' = Bump(queue_full_drop_total)
    /\ queue_depth_peak' = HandoffQueueCapacity
    /\ UNCHANGED <<vars, ingress, replies, running, callers, sent>>

\* Record the depth; then wait for the answer, or return at once (`try_admit`).
MeasureDepth(c) ==
    /\ callers[c].phase = "measuring"
    /\ queue_depth_peak' =
         IF Len(ingress) > queue_depth_peak THEN Len(ingress) ELSE queue_depth_peak
    /\ callers' \in {[callers EXCEPT ![c].phase = "awaiting"], [callers EXCEPT ![c] = Idle]}
    /\ UNCHANGED <<vars, ingress, replies, running, sent, queue_full_drop_total>>

\* The await ends with the answer, or with QueueClosed when the sender of the
\* oneshot was dropped.
Return(c) ==
    /\ callers[c].phase = "awaiting"
    /\ replies[callers[c].ticket] # None
    /\ callers' = [callers EXCEPT ![c] = Idle]
    /\ UNCHANGED <<vars, ingress, replies, running, sent, queue_full_drop_total,
                   queue_depth_peak>>

\* The waiting task is aborted: its command stays in the channel.
Cancel(c) ==
    /\ callers[c].phase = "awaiting"
    /\ callers' = [callers EXCEPT ![c] = Idle]
    /\ UNCHANGED <<vars, ingress, replies, running, sent, queue_full_drop_total,
                   queue_depth_peak>>

----------------------------------------------------------------------------
(* The runtime *)

\* Faulty RunCommand: the answer is sent, the command stays in the channel.
RunCommandAgain ==
    /\ running
    /\ ingress # <<>>
    /\ Service!Perform(Head(ingress).command)
    /\ replies' = [replies EXCEPT ![Head(ingress).ticket] = "applied"]
    /\ UNCHANGED <<ingress, running, handle_vars>>

\* Faulty RunCommand: a command whose caller went away is not answered, and
\* the loop ends there.
RunCommandWhileAwaited ==
    /\ running
    /\ ingress # <<>>
    /\ callers[Head(ingress).caller].ticket = Head(ingress).ticket
    /\ Service!Perform(Head(ingress).command)
    /\ ingress' = Tail(ingress)
    /\ replies' = [replies EXCEPT ![Head(ingress).ticket] = "applied"]
    /\ UNCHANGED <<running, handle_vars>>

\* One turn of `run`: the oldest command takes effect and is answered, whether
\* or not anyone is still waiting (`let _ = reply_tx.send(..)`).
RunCommand ==
    /\ running
    /\ ingress # <<>>
    /\ Service!Perform(Head(ingress).command)
    /\ ingress' = Tail(ingress)
    /\ replies' = [replies EXCEPT ![Head(ingress).ticket] = "applied"]
    /\ UNCHANGED <<running, handle_vars>>

\* The runtime task ends: the channel closes and the commands in it are dropped
\* with the senders of their oneshots.
RuntimeEnds ==
    /\ running
    /\ running' = FALSE
    /\ ingress' = <<>>
    /\ replies' = [t \in Tickets |->
                     IF \E i \in 1..Len(ingress) : ingress[i].ticket = t
                     THEN "closed" ELSE replies[t]]
    /\ UNCHANGED <<vars, handle_vars>>

ActorNext ==
    \/ \E c \in Callers :
         TrySend(c) \/ TrySendFull(c) \/ MeasureDepth(c) \/ Return(c) \/ Cancel(c)
    \/ RunCommand
    \/ RuntimeEnds

\* Tokio polls a task that can make progress: the runtime while its channel is
\* not empty, a caller whose future is ready.
ActorFairness ==
    /\ WF_actor_vars(RunCommand)
    /\ \A c \in Callers : WF_actor_vars(MeasureDepth(c)) /\ WF_actor_vars(Return(c))

ActorSpec == ActorInit /\ [][ActorNext]_actor_vars /\ ActorFairness

----------------------------------------------------------------------------
(* Properties *)

\* Whatever the interleaving of callers, cancellations and the end of the
\* runtime, the actor is the atomic service of SchedulerService: an accepted
\* command takes effect at most once, a caller's commands in the order it sent
\* them, and a call that fails with QueueClosed had no effect and never will.
ActorImplementsService == Service!ServiceSpec

\* No caller of `send_command_with_reply` waits for ever, also when callers
\* before it were aborted or the runtime ends with its command in the channel.
EveryCallReturns ==
    \A c \in Callers : callers[c].phase = "awaiting" ~> callers[c].phase = "idle"

=============================================================================
