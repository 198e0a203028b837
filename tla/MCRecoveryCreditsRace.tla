------------------------ MODULE MCRecoveryCreditsRace ------------------------
(* RecoveryCreditsRace for TLC: requests for the same and another plan.    *)
EXTENDS RecoveryCreditsRace, TLC

CONSTANTS p1, p2, r1, r2, r3

MCPlanOf == [r \in Requests |-> IF r = r3 THEN p2 ELSE p1]

Symmetry == Permutations(HoldIds) \cup Permutations({r1, r2})
=============================================================================
