--------------------------- MODULE MCTimedPlanLease ---------------------------
(* TimedPlanLease for TLC: interchangeable instances, a short clock.       *)
EXTENDS TimedPlanLease, TLC

Symmetry == Permutations(Owners)

\* Early reads of the clock followed by late statements need a few ticks, and
\* two successive takeovers need the clock to pass two expiries.
ASSUME MaxTime > 2 * TTL
=============================================================================
