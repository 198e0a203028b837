------------------------------ MODULE PlanLease ------------------------------
(***************************************************************************)
(* What a PlanLeaseStore promises to the orchestrators that share it: one  *)
(* exclusive, expiring lease per recovery plan, with a fencing token that  *)
(* identifies each tenure.  One plan is modelled; leases of different      *)
(* plans are separate entries of the store and never interact.             *)
(*                                                                         *)
(* Time is abstracted to the single event "the lease lapses".  A lapse may *)
(* come at any moment, so the module covers every clock, every skew between*)
(* hosts and every pause of a process.  TimedPlanLease puts the clock and  *)
(* the two implementations of the store back, and implements this module.  *)
(***************************************************************************)
EXTENDS Naturals

CONSTANTS Owners,   \* instance ids, one per constructed orchestrator
          NoOwner   \* the empty owner "" of a released lease

ASSUME OwnersAssumption == NoOwner \notin Owners

VARIABLE lease      \* the store's entry for the plan

Lives == {"live", "lapsed"}

LeaseType == [owner : Owners \cup {NoOwner}, token : Nat, life : Lives]

(***************************************************************************)
(* No entry yet: the next acquisition gets token 1, as after a tombstone   *)
(* with token 0.                                                           *)
(***************************************************************************)
LeaseInit == lease = [owner |-> NoOwner, token |-> 0, life |-> "lapsed"]

(***************************************************************************)
(* try_acquire succeeds for any caller, the previous holder included, once *)
(* the entry is absent, released or expired; otherwise it returns None and *)
(* the entry stays as it is.  The new lease may already be lapsed: its     *)
(* expiry counts from the caller's clock reading, and may have passed by   *)
(* the time the store records it.                                          *)
(***************************************************************************)
\* Variant: only a released lease can be acquired, an expired one cannot.
CanAcquireReleased == lease.owner = NoOwner

CanAcquire == lease.life = "lapsed"

\* Variant: the lease is taken over without looking at its expiry.
TryAcquireUnexpired(o, life) ==
    lease' = [owner |-> o, token |-> lease.token + 1, life |-> life]

TryAcquire(o, life) ==
    /\ CanAcquire
    /\ lease' = [owner |-> o, token |-> lease.token + 1, life |-> life]

(***************************************************************************)
(* renew extends the lease of the owner on record and keeps its token.  A  *)
(* store whose clock reading is older than the lease may revive a lease    *)
(* that has just lapsed, as long as nobody has taken it over.              *)
(***************************************************************************)
CanRenew(o) == lease.owner = o /\ lease.life = "live"

Renew(o, life) ==
    /\ lease.owner = o
    /\ lease' = [lease EXCEPT !.life = life]

(***************************************************************************)
(* release leaves a tombstone: no owner, expired, token kept.  It does     *)
(* nothing when somebody else owns the lease by now.                       *)
(***************************************************************************)
Release(o) ==
    lease' = IF lease.owner = o
             THEN [lease EXCEPT !.owner = NoOwner, !.life = "lapsed"]
             ELSE lease

\* The expiry time of a held lease passes without a renewal.
Lapse ==
    /\ lease.owner # NoOwner
    /\ lease.life = "live"
    /\ lease' = [lease EXCEPT !.life = "lapsed"]

LeaseNext ==
    \/ \E o \in Owners, life \in Lives : TryAcquire(o, life) \/ Renew(o, life)
    \/ \E o \in Owners : Release(o)
    \/ Lapse

LeaseSpec == LeaseInit /\ [][LeaseNext]_lease
=============================================================================
