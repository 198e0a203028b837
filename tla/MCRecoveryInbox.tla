--------------------------- MODULE MCRecoveryInbox ---------------------------
(* RecoveryInbox for TLC.                                                    *)
EXTENDS RecoveryInbox, TLC

CONSTANTS t1, t2   \* the flows

\* The inbox, with previews of rows beside its scans, reviews and runs; and the
\* commands.
InboxOrCommands == {(t1 :> {"scan", "review"}) @@ (t2 :> {"preview"}),
                    (t1 :> {"command"}) @@ (t2 :> {})}

\* The commands, one after the other.
OnlyCommands == {[t \in Flows |-> {"command"}]}

Symmetry == Permutations(Files)
==============================================================================
