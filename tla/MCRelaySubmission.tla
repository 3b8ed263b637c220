-------------------------- MODULE MCRelaySubmission --------------------------
(***************************************************************************)
(* An instance of RelaySubmission, and of AssemblyEngine in it, for TLC.   *)
(***************************************************************************)
EXTENDS RelaySubmission, TLC

CONSTANTS h1, h2, h3, single, bundle

Opp(strategy, hash, members, score) ==
    [strategy |-> strategy, tx_hash |-> hash, member_tx_hashes |-> members, score |-> score]

\* Single candidates for three transactions, and bundles that each displace up to
\* two of them: one that only ties with what it displaces and one that wins.
MCOpportunities ==
    {Opp(single, h1, {}, 2), Opp(single, h2, {h2}, 3), Opp(single, h3, {}, 1),
     Opp(bundle, h1, {h1, h2}, 5), Opp(bundle, h2, {h2, h3}, 5)}

Result(success, gas) == [success |-> success, gas_used |-> gas]

\* One simulation with everything approved, one that costs more, one that fails
\* for h2 and does not cover h3.
MCSimulations ==
    {h1 :> Result(TRUE, 1) @@ h2 :> Result(TRUE, 2) @@ h3 :> Result(TRUE, 2),
     h1 :> Result(TRUE, 3) @@ h2 :> Result(TRUE, 2) @@ h3 :> Result(TRUE, 5),
     h1 :> Result(TRUE, 1) @@ h2 :> Result(FALSE, 1)}
=============================================================================
