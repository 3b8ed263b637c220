-------------------------- MODULE MCSchedulerActor --------------------------
(***************************************************************************)
(* An instance of SchedulerActor for TLC: two callers, two transactions    *)
(* for one slot, and a bundle with both.                                   *)
(***************************************************************************)
EXTENDS SchedulerActor, TLC

CONSTANTS a, h1, h2, c1, p, q

MCTx ==
    [h \in {h1, h2} |->
       [sender |-> a, nonce |-> 0, tx_type |-> 0,
        gas_price_wei |-> IF h = h1 THEN 100 ELSE 110, max_fee_per_gas_wei |-> None]]

MCCandidateSpecs ==
    {[candidate_id |-> c1, tx_hash |-> h1, member_tx_hashes |-> {h1, h2}]}
=============================================================================
