------------------------ MODULE MCSimulationService ------------------------
(***************************************************************************)
(* Instances of SimulationService for TLC.                                 *)
(***************************************************************************)
EXTENDS SimulationService, TLC

CONSTANTS a, b, p1, p2, w1, w2

\* Request 1 is of one sender, the later ones share it.
MCSendersOf == [t \in Tasks |-> IF t = 1 THEN {a} ELSE Accounts]
=============================================================================
