------------------------- MODULE MCCheckpointReplay -------------------------
(***************************************************************************)
(* Instances of CheckpointReplay for TLC.                                  *)
(***************************************************************************)
EXTENDS CheckpointReplay, TLC

CONSTANTS a, h1, h2, h3

Plain(n) ==
    [sender |-> a, nonce |-> n, tx_type |-> 0,
     gas_price_wei |-> 1, max_fee_per_gas_wei |-> None]

\* One sender: h1 and h2 compete for nonce 0, and h3 at nonce 2 is blocked while
\* one of them is pending.
MCTx == h1 :> Plain(0) @@ h2 :> Plain(0) @@ h3 :> Plain(2)
=============================================================================
