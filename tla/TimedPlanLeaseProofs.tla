------------------------- MODULE TimedPlanLeaseProofs -------------------------
(***************************************************************************)
(* Proofs about the timed lease store, for any set of owners, any TTL and  *)
(* any delay between a clock reading and the statement that carries it.    *)
(***************************************************************************)
EXTENDS TimedPlanLease, TLAPS

(***************************************************************************)
(* The inductive invariant.  ToldLeaseHonoured alone is not inductive: a   *)
(* takeover is harmless only because the row's expiry is the one its owner *)
(* was told, and because no clock reading lies in the future.              *)
(***************************************************************************)
ReadingsArePast == \A o \in Owners : at[o] <= now

FreeRowIsExpired ==
    /\ row.owner = NoOwner => row.expires_at = RELEASED_AT
    /\ row.token = 0 => row.owner = NoOwner

ToldIsRecorded ==
    \A o \in Owners :
        phase[o] \in {"held", "renew"} /\ row.owner = o => told[o] = row.expires_at

TimedInv ==
    /\ TimedTypeOK
    /\ ReadingsArePast
    /\ FreeRowIsExpired
    /\ ToldIsRecorded
    /\ ToldLeaseHonoured

USE DEF RELEASED_AT

\* No instance holds or was told a lease when the store is empty.
LEMMA TimedInitially == Init => TimedInv
  BY TimedOwnersAssumption
  DEF Init, TimedInv, TimedTypeOK, ReadingsArePast, FreeRowIsExpired, ToldIsRecorded,
      ToldLeaseHonoured, Phases

\* Every operation of the store, the clock and a crash preserve the invariant.
LEMMA TimedInductive == TimedInv /\ [Next]_vars => TimedInv'
<1> SUFFICES ASSUME TimedInv, [Next]_vars PROVE TimedInv'
  OBVIOUS
<1> USE TimedOwnersAssumption, TTLAssumption, MaxTimeAssumption
    DEF TimedInv, TimedTypeOK, ReadingsArePast, FreeRowIsExpired, ToldIsRecorded,
        ToldLeaseHonoured, Phases
<1>1. CASE Tick
  BY <1>1 DEF Tick
<1>2. ASSUME NEW o \in Owners, ReadClock(o) PROVE TimedInv'
  BY <1>2 DEF ReadClock
<1>3. ASSUME NEW o \in Owners, TakeOver(o) PROVE TimedInv'
  <2>1. row.expires_at <= now
    BY <1>3 DEF TakeOver
  <2>2. \A p \in Owners : phase[p] \in {"held", "renew"} => ~(told[p] > now)
    BY <2>1
  <2> QED
    BY <1>3, <2>2 DEF TakeOver, Granted
<1>4. ASSUME NEW o \in Owners, TakeOverMiss(o) PROVE TimedInv'
  BY <1>4 DEF TakeOverMiss
<1>5. ASSUME NEW o \in Owners, Insert(o) PROVE TimedInv'
  <2>1. \A p \in Owners : phase[p] \in {"held", "renew"} => ~(told[p] > now)
    BY <1>5 DEF Insert
  <2> QED
    BY <1>5, <2>1 DEF Insert, Granted
<1>6. ASSUME NEW o \in Owners, InsertConflict(o) PROVE TimedInv'
  BY <1>6 DEF InsertConflict, Refused
<1>7. ASSUME NEW o \in Owners, RenewHit(o) PROVE TimedInv'
  BY <1>7 DEF RenewHit, Granted
<1>8. ASSUME NEW o \in Owners, RenewMiss(o) PROVE TimedInv'
  BY <1>8 DEF RenewMiss, Refused
<1>9. ASSUME NEW o \in Owners, EndCall(o) PROVE TimedInv'
  BY <1>9 DEF EndCall
<1>10. ASSUME NEW o \in Owners, ReleaseRow(o) PROVE TimedInv'
  BY <1>10 DEF ReleaseRow
<1>11. ASSUME NEW o \in Owners, Crash(o) PROVE TimedInv'
  BY <1>11 DEF Crash, Refused
<1>12. CASE UNCHANGED vars
  BY <1>12 DEF vars
<1> QED
  BY <1>1, <1>2, <1>3, <1>4, <1>5, <1>6, <1>7, <1>8, <1>9, <1>10, <1>11, <1>12
  DEF Next, OwnerStep

\* The invariant holds in every reachable state.
LEMMA TimedInvariant == Spec => []TimedInv
<1>1. Init => TimedInv
  BY TimedInitially
<1>2. TimedInv /\ [Next]_vars => TimedInv'
  BY TimedInductive
<1> QED
  BY <1>1, <1>2, PTL DEF Spec

\* The lease row keeps its type: no token or expiry becomes negative, and the
\* owner is an instance or nobody, for any TTL and any clock bound.
THEOREM TimedTypesCorrect == Spec => []TimedTypeOK
<1>1. TimedInv => TimedTypeOK
  BY DEF TimedInv
<1> QED
  BY <1>1, TimedInvariant, PTL

\* An instance that was told its lease runs until some future time owns the
\* row until then, in try_acquire/renew/release of both stores.
THEOREM ToldLeaseAlwaysHonoured == Spec => []ToldLeaseHonoured
<1>1. TimedInv => ToldLeaseHonoured
  BY DEF TimedInv
<1> QED
  BY <1>1, TimedInvariant, PTL

\* One step of the timed store is a step of the lease protocol or changes
\* nothing of what the protocol sees.
LEMMA TimedStepRefines ==
  TimedInv /\ [Next]_vars =>
    [PL!LeaseNext]_[owner |-> row.owner, token |-> row.token, life |-> Life]
<1> SUFFICES ASSUME TimedInv, [Next]_vars
             PROVE  [PL!LeaseNext]_[owner |-> row.owner, token |-> row.token, life |-> Life]
  OBVIOUS
<1> USE TimedOwnersAssumption, TTLAssumption, MaxTimeAssumption
    DEF TimedInv, TimedTypeOK, ReadingsArePast, FreeRowIsExpired, Lapsed, Life, PL!Lives
<1>1. CASE Tick
  <2>1. CASE Life' = Life
    BY <1>1, <2>1 DEF Tick
  <2>2. CASE Life' # Life
    BY <1>1, <2>2 DEF Tick, PL!LeaseNext, PL!Lapse
  <2> QED
    BY <2>1, <2>2
<1>2. ASSUME NEW o \in Owners, TakeOver(o) \/ Insert(o) PROVE PL!LeaseNext
  <2>1. PL!TryAcquire(o, Life')
    BY <1>2 DEF TakeOver, Insert, Granted, PL!TryAcquire, PL!CanAcquire
  <2> QED
    BY <2>1 DEF PL!LeaseNext
<1>3. ASSUME NEW o \in Owners, RenewHit(o) PROVE PL!LeaseNext
  <2>1. PL!Renew(o, Life')
    BY <1>3 DEF RenewHit, Granted, PL!Renew
  <2> QED
    BY <2>1 DEF PL!LeaseNext
<1>4. ASSUME NEW o \in Owners, ReleaseRow(o) PROVE PL!LeaseNext
  <2>1. CASE row.owner = o
    <3>1. row' = [row EXCEPT !.owner = NoOwner, !.expires_at = RELEASED_AT]
      BY <1>4, <2>1 DEF ReleaseRow
    <3>2. row'.owner = NoOwner /\ row'.token = row.token /\ row'.expires_at = 0
      BY <3>1
    <3>3. Life' = "lapsed"
      BY <1>4, <3>2 DEF ReleaseRow
    <3> QED
      BY <2>1, <3>2, <3>3 DEF PL!LeaseNext, PL!Release
  <2>2. CASE row.owner # o
    BY <1>4, <2>2 DEF ReleaseRow, PL!LeaseNext, PL!Release
  <2> QED
    BY <2>1, <2>2
<1>5. ASSUME NEW o \in Owners,
             \/ ReadClock(o) \/ TakeOverMiss(o) \/ InsertConflict(o)
             \/ RenewMiss(o) \/ EndCall(o) \/ Crash(o)
      PROVE  UNCHANGED [owner |-> row.owner, token |-> row.token, life |-> Life]
  BY <1>5 DEF ReadClock, TakeOverMiss, InsertConflict, RenewMiss, EndCall, Crash, Refused
<1>6. CASE UNCHANGED vars
  BY <1>6 DEF vars
<1> QED
  BY <1>1, <1>2, <1>3, <1>4, <1>5, <1>6 DEF Next, OwnerStep

\* The SQL store, with its clock read before the statement is sent, implements
\* the PlanLeaseStore protocol; so does the in-memory store, whose behaviours
\* are among these.
THEOREM TimedStoreImplementsLease == Spec => StoreImplementsLease
<1>1. Init => PL!LeaseInit
  BY DEF Init, PL!LeaseInit, Lapsed, Life
<1>2. TimedInv /\ [Next]_vars =>
        [PL!LeaseNext]_[owner |-> row.owner, token |-> row.token, life |-> Life]
  BY TimedStepRefines
<1> QED
  BY <1>1, <1>2, TimedInvariant, PTL DEF Spec, StoreImplementsLease, PL!LeaseSpec
=============================================================================
