---------------------------- MODULE MCReadModel ----------------------------
(***************************************************************************)
(* Instances of ReadModel for TLC.                                         *)
(***************************************************************************)
EXTENDS ReadModel

CONSTANTS a, h1, h2

\* h1 and h2 are of one sender and compete for nonce 0.
MCTx ==
    [h \in Hashes |-> [sender |-> a, nonce |-> 0, tx_type |-> 0,
                      gas_price_wei |-> 1, max_fee_per_gas_wei |-> None]]

\* All operations with the dashboard's queries, and the log alone with a range replay.
MCFeeds == {{"rows", "events", "dashboard"}, {"events", "range"}}

Symmetry == Permutations({h1, h2})
=============================================================================
