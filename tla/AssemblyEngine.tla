--------------------------- MODULE AssemblyEngine ---------------------------
(***************************************************************************)
(* The builder's incremental block candidate set                           *)
(* (crates/builder/src/assembly.rs).  Each action is one call of `insert`  *)
(* or `remove_candidate`, made under the write lock of the engine.         *)
(*                                                                         *)
(* The Vec of active candidates is a set: its order only matters to the    *)
(* block hash, and two equal entries would share their transactions.       *)
(***************************************************************************)
EXTENDS Integers, FiniteSets, FiniteSetsExt

CONSTANTS
    Hashes,          \* transaction hashes
    Strategies,      \* StrategyKind
    Opportunities,   \* the ranked opportunities a searcher may produce
    Simulations,     \* tx_results of a simulation batch: hash -> [success, gas_used]
    BlockGasLimit,   \* AssemblyConfig::block_gas_limit
    U64Max,          \* u64::MAX, where scores and gas saturate
    CounterMax       \* u64::MAX, where the counters saturate

\* `OpportunityCandidate`; an empty member list stands for the transaction alone.
Opportunity ==
    [strategy : Strategies, tx_hash : Hashes, member_tx_hashes : SUBSET Hashes,
     score : 0..U64Max]

\* `AssemblyCandidate`.
Candidate ==
    [candidate_id : Strategies \X Hashes, tx_hashes : SUBSET Hashes,
     priority_score : 0..U64Max, gas_used : 0..U64Max, approved : BOOLEAN]

\* A bundle contains the transaction it is named after (searcher,
\* `build_bundle_candidates`).
ASSUME AssemblyAssumption ==
    /\ IsFiniteSet(Hashes)
    /\ U64Max \in Nat
    /\ CounterMax \in Nat
    /\ BlockGasLimit \in 0..(U64Max - 1)
    /\ Opportunities \subseteq Opportunity
    /\ \A o \in Opportunities :
         o.member_tx_hashes = {} \/ o.tx_hash \in o.member_tx_hashes
    /\ \A sim \in Simulations :
         /\ DOMAIN sim \subseteq Hashes
         /\ \A h \in DOMAIN sim : sim[h].success \in BOOLEAN /\ sim[h].gas_used \in 0..U64Max

VARIABLES
    candidates,  \* the active candidates
    metrics      \* AssemblyMetrics without the latencies

vars == <<candidates, metrics>>

----------------------------------------------------------------------------
Saturate(n) == IF n > U64Max THEN U64Max ELSE n
SaturatingSub(m, n) == IF m > n THEN m - n ELSE 0

Bump(counter, by) == IF counter + by > CounterMax THEN CounterMax ELSE counter + by

SumOfScores(S) == MapThenSumSet(LAMBDA c : c.priority_score, S)
SumOfGas(S) == MapThenSumSet(LAMBDA c : c.gas_used, S)

TotalScore(S) == Saturate(SumOfScores(S))
TotalGas(S) == Saturate(SumOfGas(S))

TxHashes(o) == IF o.member_tx_hashes = {} THEN {o.tx_hash} ELSE o.member_tx_hashes

\* `from_simulated_opportunity`, defined when the simulation has every member.
FromSimulatedOpportunity(o, sim) ==
    [candidate_id |-> <<o.strategy, o.tx_hash>>,
     tx_hashes |-> TxHashes(o),
     priority_score |-> o.score,
     gas_used |-> Saturate(MapThenSumSet(LAMBDA h : sim[h].gas_used, TxHashes(o))),
     approved |-> \A h \in TxHashes(o) : sim[h].success]

\* What may be offered; an opportunity with a member that was not simulated is not.
Offers ==
    {FromSimulatedOpportunity(p[1], p[2]) :
        p \in {q \in Opportunities \X Simulations : TxHashes(q[1]) \subseteq DOMAIN q[2]}}

\* Faulty Conflicts: only candidates with the same id.
ConflictsById(c) == {d \in candidates : d.candidate_id = c.candidate_id}

Conflicts(c) == {d \in candidates : d.tx_hashes \cap c.tx_hashes # {}}

\* Faulty Improves: a tie displaces the incumbents.
ImprovesOrTies(c) ==
    Conflicts(c) = {} \/ c.priority_score >= TotalScore(Conflicts(c))

\* A conflicting candidate must score strictly more than all it would displace.
Improves(c) ==
    Conflicts(c) = {} \/ c.priority_score > TotalScore(Conflicts(c))

\* Gas after the insertion, from the cached total.
NextGasUsed(c) ==
    Saturate(SaturatingSub(metrics.total_gas_used, TotalGas(Conflicts(c))) + c.gas_used)

\* The cached objective after a change of the active set (`refresh_live_metrics`).
RefreshLiveMetrics(m, S) ==
    [m EXCEPT !.active_candidate_total = Cardinality(S),
              !.total_priority_score = TotalScore(S),
              !.total_gas_used = TotalGas(S)]

----------------------------------------------------------------------------
Init ==
    /\ candidates = {}
    /\ metrics = [inserted_total |-> 0, replaced_total |-> 0, rejected_total |-> 0,
                  rejected_simulation_not_approved_total |-> 0,
                  rejected_objective_not_improved_total |-> 0,
                  rejected_gas_limit_total |-> 0, rollback_total |-> 0,
                  active_candidate_total |-> 0, total_priority_score |-> 0,
                  total_gas_used |-> 0]

RejectNotApproved(c) ==
    /\ ~c.approved
    /\ metrics' = [metrics EXCEPT !.rejected_total = Bump(@, 1),
                                  !.rejected_simulation_not_approved_total = Bump(@, 1)]
    /\ UNCHANGED candidates

RejectNotImproved(c) ==
    /\ c.approved
    /\ ~Improves(c)
    /\ metrics' = [metrics EXCEPT !.rejected_total = Bump(@, 1),
                                  !.rejected_objective_not_improved_total = Bump(@, 1)]
    /\ UNCHANGED candidates

RejectGasLimit(c) ==
    /\ c.approved
    /\ Improves(c)
    /\ NextGasUsed(c) > BlockGasLimit
    /\ metrics' = [metrics EXCEPT !.rejected_total = Bump(@, 1),
                                  !.rejected_gas_limit_total = Bump(@, 1)]
    /\ UNCHANGED candidates

\* The conflicting candidates give way.
Accept(c) ==
    /\ c.approved
    /\ Improves(c)
    /\ NextGasUsed(c) <= BlockGasLimit
    /\ candidates' = (candidates \ Conflicts(c)) \cup {c}
    /\ metrics' = RefreshLiveMetrics(
                    [metrics EXCEPT !.inserted_total = Bump(@, 1),
                                    !.replaced_total = Bump(@, Cardinality(Conflicts(c)))],
                    candidates')

Insert(c) == RejectNotApproved(c) \/ RejectNotImproved(c) \/ RejectGasLimit(c) \/ Accept(c)

\* The first active candidate with the id is rolled back; an unknown id changes
\* nothing.
RemoveCandidate(id) ==
    \E c \in candidates :
        /\ c.candidate_id = id
        /\ candidates' = candidates \ {c}
        /\ metrics' = RefreshLiveMetrics([metrics EXCEPT !.rollback_total = Bump(@, 1)],
                                         candidates')

Next ==
    \/ \E c \in Offers : Insert(c)
    \/ \E id \in Strategies \X Hashes : RemoveCandidate(id)

Spec == Init /\ [][Next]_vars

----------------------------------------------------------------------------
(* Properties *)

\* No transaction is in the block twice, however bundles and single candidates
\* displaced each other; hence an id names one active candidate and a rollback
\* removes the right one.
NoSharedTransaction ==
    \A c, d \in candidates :
        c # d => /\ c.tx_hashes \cap d.tx_hashes = {}
                 /\ c.candidate_id # d.candidate_id

\* Candidates are displaced only for a higher sum of scores, whatever number of them
\* one bundle displaces ("to avoid churn between equivalent alternatives"), also where
\* the total is saturated; otherwise a candidate leaves only by its own rollback.
DisplacementRaisesScore ==
    [][\/ candidates \subseteq candidates'
       \/ SumOfScores(candidates') > SumOfScores(candidates)
       \/ \E c \in candidates : /\ candidates' = candidates \ {c}
                                /\ metrics'.rollback_total = Bump(metrics.rollback_total, 1)]_vars
=============================================================================
