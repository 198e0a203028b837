---------------------------- MODULE TimedPlanLease ----------------------------
(***************************************************************************)
(* The lease store with its clock: SQLPlanLeaseStore, whose methods read   *)
(* the clock first and send a conditional statement later, and             *)
(* InMemoryPlanLeaseStore, whose methods do both under one lock and are    *)
(* the behaviours of this module in which no time passes in between.       *)
(*                                                                         *)
(* An owner is one orchestrator instance making one execute or resume      *)
(* call: it acquires once, renews at step boundaries, and always calls     *)
(* release at the end, whether or not it still owns the lease.             *)
(***************************************************************************)
EXTENDS Naturals

CONSTANTS Owners, NoOwner,
          TTL,       \* lease_ttl_seconds, in clock ticks
          MaxTime    \* bound: the clock stops here

ASSUME TimedOwnersAssumption == NoOwner \notin Owners
ASSUME TTLAssumption == TTL \in Nat \ {0}
ASSUME MaxTimeAssumption == MaxTime \in Nat

VARIABLES
    now,    \* the clock of all hosts (they are assumed to agree)
    row,    \* the plan_leases row; token 0 stands for "no row yet"
    phase,  \* where each owner is in its use of the store
    at,     \* the clock reading the owner's pending statement carries
    told    \* the expires_at of the lease last returned to each owner

vars == <<now, row, phase, at, told>>

(***************************************************************************)
(* _RELEASED_AT, the epoch: before any real clock reading.                 *)
(***************************************************************************)
RELEASED_AT == 0

Phases == {"idle", "acquire", "insert", "held", "renew", "release", "gone"}

TimedTypeOK ==
    /\ now \in Nat
    /\ row \in [owner : Owners \cup {NoOwner}, token : Nat, expires_at : Nat]
    /\ phase \in [Owners -> Phases]
    /\ at \in [Owners -> Nat]
    /\ told \in [Owners -> Nat]

Init ==
    /\ now = 1
    /\ row = [owner |-> NoOwner, token |-> 0, expires_at |-> RELEASED_AT]
    /\ phase = [o \in Owners |-> "idle"]
    /\ at = [o \in Owners |-> 0]
    /\ told = [o \in Owners |-> 0]

Tick ==
    /\ now < MaxTime
    /\ now' = now + 1
    /\ UNCHANGED <<row, phase, at, told>>

\* "now = self._clock()", the first line of try_acquire and of renew.
ReadClock(o) ==
    /\ \/ phase[o] = "idle" /\ phase' = [phase EXCEPT ![o] = "acquire"]
       \/ phase[o] = "held" /\ phase' = [phase EXCEPT ![o] = "renew"]
    /\ at' = [at EXCEPT ![o] = now]
    /\ UNCHANGED <<now, row, told>>

\* Variant: the expiry is computed with the wrong sign.
GrantedBackwards(o) ==
    /\ phase' = [phase EXCEPT ![o] = "held"]
    /\ told' = [told EXCEPT ![o] = at[o] - TTL]
    /\ UNCHANGED <<now, at>>

\* The lease a successful statement returns to o expires TTL after its reading.
Granted(o) ==
    /\ phase' = [phase EXCEPT ![o] = "held"]
    /\ told' = [told EXCEPT ![o] = at[o] + TTL]
    /\ UNCHANGED <<now, at>>

\* None is returned: the caller goes on to the phase p without a lease.
Refused(o, p) ==
    /\ phase' = [phase EXCEPT ![o] = p]
    /\ told' = [told EXCEPT ![o] = 0]
    /\ UNCHANGED <<now, row, at>>

\* Variant: the lease is taken over one tick before it expires.
TakeOverEarly(o) ==
    /\ phase[o] = "acquire"
    /\ row.token # 0
    /\ row.expires_at <= at[o] + 1
    /\ row' = [owner |-> o, token |-> row.token + 1, expires_at |-> at[o] + TTL]
    /\ Granted(o)

\* UPDATE ... WHERE expires_at <= :now; the row exists.
TakeOver(o) ==
    /\ phase[o] = "acquire"
    /\ row.token # 0
    /\ row.expires_at <= at[o]
    /\ row' = [owner |-> o, token |-> row.token + 1, expires_at |-> at[o] + TTL]
    /\ Granted(o)

\* The UPDATE matched no row: fall through to the INSERT.
TakeOverMiss(o) ==
    /\ phase[o] = "acquire"
    /\ row.token = 0 \/ row.expires_at > at[o]
    /\ phase' = [phase EXCEPT ![o] = "insert"]
    /\ UNCHANGED <<now, row, at, told>>

Insert(o) ==
    /\ phase[o] = "insert"
    /\ row.token = 0
    /\ row' = [owner |-> o, token |-> 1, expires_at |-> at[o] + TTL]
    /\ Granted(o)

\* The primary key exists: IntegrityError, try_acquire returns None.
InsertConflict(o) ==
    /\ phase[o] = "insert"
    /\ row.token # 0
    /\ Refused(o, "gone")

\* UPDATE ... WHERE owner = :owner AND expires_at > :now.
RenewHit(o) ==
    /\ phase[o] = "renew"
    /\ row.owner = o
    /\ row.expires_at > at[o]
    /\ row' = [row EXCEPT !.expires_at = at[o] + TTL]
    /\ Granted(o)

RenewMiss(o) ==
    /\ phase[o] = "renew"
    /\ row.owner # o \/ row.expires_at <= at[o]
    /\ Refused(o, "release")

\* The call ends normally and the finally clause is about to run.
EndCall(o) ==
    /\ phase[o] = "held"
    /\ phase' = [phase EXCEPT ![o] = "release"]
    /\ told' = [told EXCEPT ![o] = 0]
    /\ UNCHANGED <<now, row, at>>

\* Variant: release deletes the row, so that its token starts over.
ReleaseDeletesRow(o) ==
    /\ phase[o] = "release"
    /\ row' = IF row.owner = o
              THEN [owner |-> NoOwner, token |-> 0, expires_at |-> RELEASED_AT]
              ELSE row
    /\ phase' = [phase EXCEPT ![o] = "gone"]
    /\ UNCHANGED <<now, at, told>>

ReleaseRow(o) ==
    /\ phase[o] = "release"
    /\ row' = IF row.owner = o
              THEN [row EXCEPT !.owner = NoOwner, !.expires_at = RELEASED_AT]
              ELSE row
    /\ phase' = [phase EXCEPT ![o] = "gone"]
    /\ UNCHANGED <<now, at, told>>

\* The process dies while it holds a lease: nothing is released, and it no
\* longer relies on what it was told.
Crash(o) ==
    /\ phase[o] \in {"held", "renew", "release"}
    /\ Refused(o, "gone")

OwnerStep(o) ==
    \/ ReadClock(o)
    \/ TakeOver(o) \/ TakeOverMiss(o)
    \/ Insert(o) \/ InsertConflict(o)
    \/ RenewHit(o) \/ RenewMiss(o)
    \/ EndCall(o) \/ ReleaseRow(o)

Next == Tick \/ \E o \in Owners : OwnerStep(o) \/ Crash(o)

Spec == Init /\ [][Next]_vars
-----------------------------------------------------------------------------
(***************************************************************************)
(* Refinement: the row, seen through the clock, is the abstract lease.     *)
(***************************************************************************)
Lapsed == now >= row.expires_at

Life == IF Lapsed THEN "lapsed" ELSE "live"

PL == INSTANCE PlanLease WITH
        lease <- [owner |-> row.owner, token |-> row.token, life |-> Life]

\* The timed store, whatever the delay between a clock reading and its
\* statement, only makes the moves the PlanLeaseStore protocol allows: a
\* takeover needs a lapsed lease and always gets the next token, a renewal
\* keeps owner and token, a release is owner-only and keeps the token.
StoreImplementsLease == PL!LeaseSpec

\* While the expiry time an instance was told lies in the future and the
\* instance has neither ended its call nor died, the row is still its own: no
\* second instance can be told that it holds the plan.  The told expiry is
\* computed from a clock reading that may be arbitrarily older than the row.
ToldLeaseHonoured ==
    \A o \in Owners :
        phase[o] \in {"held", "renew"} /\ told[o] > now => row.owner = o
=============================================================================
