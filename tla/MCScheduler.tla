---------------------------- MODULE MCScheduler ----------------------------
(***************************************************************************)
(* An instance of Scheduler for TLC.                                       *)
(***************************************************************************)
EXTENDS Scheduler, TLC

CONSTANTS a, b, h1, h2, h3, h4, h5, h6, h7, c1

Legacy(s, n, fee) ==
    [sender |-> s, nonce |-> n, tx_type |-> 0,
     gas_price_wei |-> fee, max_fee_per_gas_wei |-> None]

Eip1559(s, n, fee) ==
    [sender |-> s, nonce |-> n, tx_type |-> 2,
     gas_price_wei |-> None, max_fee_per_gas_wei |-> fee]

\* Nonces 0..3 of one sender arrive in any order and open and close gaps;
\* h2 (110) just meets the 10% bump over h1 (100), h3 misses it over h2.  The
\* second sender has one slot and the first may hold three of its four nonces.
AdmissionTx ==
    h1 :> Legacy(a, 0, 100) @@ h2 :> Eip1559(a, 0, 110) @@ h3 :> Legacy(a, 0, 120) @@
    h4 :> Legacy(a, 1, 5) @@ h5 :> Legacy(a, 2, 7) @@ h6 :> Legacy(a, 3, 7) @@
    h7 :> Legacy(b, 0, 9)

\* A bundle across both senders.
AdmissionCandidates ==
    {[candidate_id |-> c1, tx_hash |-> h1, member_tx_hashes |-> {h1, h7}]}
=============================================================================
