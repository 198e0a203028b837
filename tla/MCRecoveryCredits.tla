-------------------------- MODULE MCRecoveryCredits --------------------------
(* RecoveryCredits for TLC: r3 is a request for another plan.                *)
EXTENDS RecoveryCredits, TLC

CONSTANTS r1, r2, r3, p1, p2

MCPlanOf == [r \in Requests |-> IF r = r3 THEN p2 ELSE p1]

Symmetry == Permutations(HoldIds) \cup Permutations({r1, r2})
=============================================================================
