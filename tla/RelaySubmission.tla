-------------------------- MODULE RelaySubmission --------------------------
(***************************************************************************)
(* The builder's block template on its way to a relay                      *)
(* (crates/builder/src/assembly.rs, `submit_relay_dry_run`, and            *)
(* crates/builder/src/relay_client.rs), composed with the engine.          *)
(*                                                                         *)
(* A submission borrows the engine until it ends, so insertions and        *)
(* rollbacks wait for it while other submissions go on beside it.  All     *)
(* clones of the client share one health record.  Its deadlines are        *)
(* counted down: an amount of time left, zero when the deadline is past.   *)
(***************************************************************************)
EXTENDS AssemblyEngine

CONSTANTS
    Submitters,       \* concurrent callers of submit_relay_dry_run
    MaxRetries,       \* RelayClientConfig::max_retries
    DownweightAt,     \* DOWNWEIGHT_FAILURE_THRESHOLD
    DownweightWindow, \* DOWNWEIGHT_WINDOW_MS, in ticks
    CircuitOpensAt,   \* CIRCUIT_BREAKER_FAILURE_THRESHOLD
    CircuitWindow,    \* CIRCUIT_BREAKER_WINDOW_MS, in ticks
    U32Max            \* where consecutive_failures saturates

ASSUME RelayAssumption ==
    /\ MaxRetries \in Nat
    /\ {DownweightAt, DownweightWindow, CircuitOpensAt, CircuitWindow} \subseteq Nat \ {0}
    /\ U32Max \in Nat /\ U32Max >= CircuitOpensAt

VARIABLES
    health,      \* RelayHealthState
    submission   \* per submitter: where it stands, its attempt and its template

relayVars == <<health, submission>>
allVars == <<candidates, metrics, health, submission>>

----------------------------------------------------------------------------
\* Faulty BuildRelayTemplate: one transaction per candidate.
TemplateCountingCandidates ==
    [tx_count |-> Cardinality(candidates), gas_used |-> metrics.total_gas_used]

\* `build_relay_template`: the member lists are added up, the gas is the cached
\* objective's.  Slot, parent and block hash are the caller's or computed from
\* the candidates and play no part here.
BuildRelayTemplate ==
    [tx_count |-> MapThenSumSet(LAMBDA c : Cardinality(c.tx_hashes), candidates),
     gas_used |-> metrics.total_gas_used]

Idle == [at |-> "idle", attempt |-> 0, template |-> [tx_count |-> 0, gas_used |-> 0]]

Borrowed == \E s \in Submitters : submission[s].at # "idle"

Healthy == [consecutive_failures |-> 0, downweighted |-> 0, circuit_open |-> 0]

IsCircuitOpen == health.circuit_open > 0

\* `record_submission_result(false)`: another failure in a row; each window is
\* counted from now, also when it is open already.
RecordFailure ==
    LET failures == IF health.consecutive_failures < U32Max
                    THEN health.consecutive_failures + 1 ELSE U32Max
    IN health' =
         [consecutive_failures |-> failures,
          downweighted |-> IF failures >= DownweightAt THEN DownweightWindow
                           ELSE health.downweighted,
          circuit_open |-> IF failures >= CircuitOpensAt THEN CircuitWindow
                           ELSE health.circuit_open]

----------------------------------------------------------------------------
RelayInit ==
    /\ Init
    /\ health = Healthy
    /\ submission = [s \in Submitters |-> Idle]

\* Faulty SubmitWhileOpen: a submission refused by the circuit counts as a failure.
SubmitWhileOpenRecorded(s) ==
    /\ submission[s].at = "idle"
    /\ candidates # {}
    /\ IsCircuitOpen
    /\ RecordFailure
    /\ UNCHANGED <<submission, candidates, metrics>>

\* An open circuit answers "circuit_open" at once and leaves the health alone.
SubmitWhileOpen(s) ==
    /\ submission[s].at = "idle"
    /\ candidates # {}
    /\ IsCircuitOpen
    /\ UNCHANGED allVars

\* The template is built and the first request goes out; without candidates there
\* is no template and nothing is submitted.
Submit(s) ==
    /\ submission[s].at = "idle"
    /\ candidates # {}
    /\ ~IsCircuitOpen
    /\ submission' = [submission EXCEPT ![s] =
                        [at |-> "sending", attempt |-> 0, template |-> BuildRelayTemplate]]
    /\ UNCHANGED <<health, candidates, metrics>>

\* The relay answers with success: whatever state other submissions have left, the
\* health is as new.
Accepted(s) ==
    /\ submission[s].at = "sending"
    /\ health' = Healthy
    /\ submission' = [submission EXCEPT ![s] = Idle]
    /\ UNCHANGED <<candidates, metrics>>

\* Any other status, a transport error or the request timeout: back off before the
\* next attempt ...
Retry(s) ==
    /\ submission[s].at = "sending"
    /\ submission[s].attempt < MaxRetries
    /\ submission' = [submission EXCEPT ![s].at = "backoff"]
    /\ UNCHANGED <<health, candidates, metrics>>

\* ... which is made without another look at the circuit ...
Resend(s) ==
    /\ submission[s].at = "backoff"
    /\ submission' = [submission EXCEPT ![s].at = "sending", ![s].attempt = @ + 1]
    /\ UNCHANGED <<health, candidates, metrics>>

\* ... or, after the last attempt, record the failure.
Exhausted(s) ==
    /\ submission[s].at = "sending"
    /\ submission[s].attempt = MaxRetries
    /\ RecordFailure
    /\ submission' = [submission EXCEPT ![s] = Idle]
    /\ UNCHANGED <<candidates, metrics>>

\* Time passes.
Tick ==
    /\ health.downweighted > 0 \/ health.circuit_open > 0
    /\ health' = [health EXCEPT !.downweighted = SaturatingSub(@, 1),
                                !.circuit_open = SaturatingSub(@, 1)]
    /\ UNCHANGED <<submission, candidates, metrics>>

\* The engine changes only while nobody borrows it.
EngineStep == ~Borrowed /\ Next /\ UNCHANGED relayVars

Proceed(s) == Accepted(s) \/ Retry(s) \/ Resend(s) \/ Exhausted(s)

RelayNext ==
    \/ EngineStep
    \/ \E s \in Submitters : Submit(s) \/ SubmitWhileOpen(s) \/ Proceed(s)
    \/ Tick

\* A request ends by its timeout and a sleep by its timer; time passes.  Nobody is
\* obliged to submit or to insert.
RelaySpec ==
    /\ RelayInit
    /\ [][RelayNext]_allVars
    /\ \A s \in Submitters : WF_allVars(Proceed(s))
    /\ WF_allVars(Tick)

----------------------------------------------------------------------------
(* Properties *)

\* What a submission carries is the block as it stands when the relay answers, after
\* any number of retries, and it is a block: `tx_count` adds up member lists and
\* `gas_used` is a cached total, yet they are the number of different transactions
\* in the block and its exact gas, within the limit.
TemplateIsTheBlock ==
    \A s \in Submitters :
        submission[s].at # "idle" =>
            LET t == submission[s].template IN
            /\ t.tx_count = Cardinality(UNION {c.tx_hashes : c \in candidates})
            /\ t.gas_used = SumOfGas(candidates)
            /\ t.gas_used <= BlockGasLimit

\* The circuit always closes again, although submissions that were under way when it
\* opened extend it when they fail, and callers keep trying while it is open.
CircuitRecovers == []<>~IsCircuitOpen
=============================================================================
