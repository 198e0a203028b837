------------------------- MODULE MCFilesystemRecovery -------------------------
(* FilesystemRecovery for TLC.                                               *)
EXTENDS FilesystemRecovery, TLC

Symmetry == Permutations(Attempts) \cup Permutations(Edits)
===============================================================================
