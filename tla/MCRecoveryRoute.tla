--------------------------- MODULE MCRecoveryRoute ---------------------------
(* RecoveryRoute for TLC.                                                    *)
EXTENDS RecoveryRoute, TLC
==============================================================================
