--------------------------- MODULE MCLivePipeline ---------------------------
(***************************************************************************)
(* Instances of LivePipeline for TLC.                                      *)
(***************************************************************************)
EXTENDS LivePipeline, TLC

CONSTANTS a, h1, h2, h3, h4, c1, c2, c3, w1, w2, v1, v2

Legacy(n, fee) ==
    [sender |-> a, nonce |-> n, tx_type |-> 0,
     gas_price_wei |-> fee, max_fee_per_gas_wei |-> None]

\* h4 is blocked until h2 or h3 closes the gap at nonce 1, and h3 replaces h2 and
\* never the other way round.
AllTx ==
    h1 :> Legacy(0, 5) @@ h2 :> Legacy(1, 100) @@ h3 :> Legacy(1, 110) @@ h4 :> Legacy(2, 5)

\* Two strategies see the same opportunity in h2 and are simulated together; a
\* third makes a bundle of h2 and h4, which become ready at once.
BundleSpecs ==
    {[candidate_id |-> c1, tx_hash |-> h2, member_tx_hashes |-> {}],
     [candidate_id |-> c2, tx_hash |-> h2, member_tx_hashes |-> {}],
     [candidate_id |-> c3, tx_hash |-> h2, member_tx_hashes |-> {h2, h4}]}

\* One worker with all four transactions and nothing refused, but a simulation queue
\* that fills up; two workers with the transactions that compete for nonce 1, where
\* nothing is refused, and where writes and commands are and the queue fills up; two
\* workers with h1 and h4, of which h1 blocks h4 again, so that one writes about the
\* other's transaction.
MCDeployments ==
    {[workers |-> {w1}, sim_workers |-> {v1}, reported |-> Hashes,
      sim_queue_capacity |-> 1, storage_may_fill |-> FALSE, scheduler_may_refuse |-> FALSE],
     [workers |-> {w1, w2}, sim_workers |-> {v1, v2}, reported |-> {h2, h3},
      sim_queue_capacity |-> 3, storage_may_fill |-> FALSE, scheduler_may_refuse |-> FALSE],
     [workers |-> {w1, w2}, sim_workers |-> {v1}, reported |-> {h2, h3},
      sim_queue_capacity |-> 1, storage_may_fill |-> TRUE, scheduler_may_refuse |-> TRUE]}
    \cup
    {[workers |-> {w1, w2}, sim_workers |-> {}, reported |-> {h1, h4},
      sim_queue_capacity |-> 1, storage_may_fill |-> b, scheduler_may_refuse |-> b] :
        b \in BOOLEAN}
=============================================================================
