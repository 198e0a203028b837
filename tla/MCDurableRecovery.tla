-------------------------- MODULE MCDurableRecovery --------------------------
(* DurableRecovery for TLC.                                                *)
EXTENDS DurableRecovery, TLC

Symmetry == Permutations(Owners)
=============================================================================
