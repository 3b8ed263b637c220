--------------------------- MODULE MCRehydration ---------------------------
(***************************************************************************)
(* An instance of Rehydration for TLC: the nonces 0..2 of one sender, the  *)
(* middle one with two transactions of which the second pays the bump.     *)
(***************************************************************************)
EXTENDS Rehydration, TLC

CONSTANTS a, h0, h1, g1, h2, w1, w2

MCTx ==
    LET legacy(n, fee) == [sender |-> a, nonce |-> n, tx_type |-> 0,
                           gas_price_wei |-> fee, max_fee_per_gas_wei |-> None]
    IN  [h \in {h0, h1, g1, h2} |->
           CASE h = h0 -> legacy(0, 100) [] h = h1 -> legacy(1, 100)
             [] h = g1 -> legacy(1, 110) [] h = h2 -> legacy(2, 100)]

WorkerSymmetry == Permutations(Workers)
=============================================================================
