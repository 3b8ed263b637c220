-------------------------- MODULE SchedulerService --------------------------
(***************************************************************************)
(* What the scheduler promises the tasks that hold a `SchedulerHandle`:    *)
(* an accepted command takes effect at most once, all at once, at some     *)
(* moment before its answer, and the commands of one caller take effect    *)
(* in the order they were sent.  An answer that says "closed" means that   *)
(* the command never had an effect.  Nothing is said about the order of    *)
(* different callers, and there are no queues.                             *)
(***************************************************************************)
EXTENDS Scheduler

CONSTANTS
    Callers,      \* the tasks that hold a clone of the handle
    MaxCommands   \* bound: commands sent

Tickets == 1..MaxCommands

\* `SchedulerCommand`: what is asked, and of what.
CommandsOver(known) ==
    [op : {"admit", "invalidate"}, arg : Hashes]
      \cup [op : {"register"}, arg : RegistrationBatches]
      \cup [op : {"result"}, arg : known]
      \cup [op : {"head"}, arg : Blocks]

\* `SharedState` runs one command under the write lock.
Perform(command) ==
    \/ command.op = "admit" /\ Admit(command.arg)
    \/ command.op = "register" /\ RegisterCandidates(command.arg)
    \/ command.op = "result" /\ ApplySimulationResult(command.arg)
    \/ command.op = "result" /\ RecordStaleSimulationResult(command.arg)
    \/ command.op = "invalidate" /\ InvalidateCandidateHash(command.arg)
    \/ command.op = "head" /\ AdvanceHead(command.arg)

VARIABLES
    open,      \* accepted commands that had no effect yet
    answers,   \* ticket -> None, "applied" or "closed"
    serving    \* does the service still run

service_vars == <<vars, open, answers, serving>>

ServiceInit ==
    /\ Init
    /\ open = {}
    /\ answers = [t \in Tickets |-> None]
    /\ serving = TRUE

Accept(c) ==
    /\ serving
    /\ \E t \in Tickets, command \in CommandsOver(tasks) :
         /\ answers[t] = None
         /\ \A e \in open : e.ticket < t
         /\ open' = open \cup {[ticket |-> t, caller |-> c, command |-> command]}
    /\ UNCHANGED <<vars, answers, serving>>

Serve(e) ==
    /\ serving
    /\ \A d \in open : d.caller = e.caller => e.ticket <= d.ticket
    /\ Perform(e.command)
    /\ open' = open \ {e}
    /\ answers' = [answers EXCEPT ![e.ticket] = "applied"]
    /\ UNCHANGED serving

Close ==
    /\ serving
    /\ serving' = FALSE
    /\ open' = {}
    /\ answers' = [t \in Tickets |->
                     IF \E e \in open : e.ticket = t THEN "closed" ELSE answers[t]]
    /\ UNCHANGED vars

ServiceNext ==
    \/ \E c \in Callers : Accept(c)
    \/ \E e \in open : Serve(e)
    \/ Close

ServiceSpec == ServiceInit /\ [][ServiceNext]_service_vars
=============================================================================
