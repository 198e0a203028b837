--------------------------- MODULE RecoveryCredits ---------------------------
(***************************************************************************)
(* RecoveryCreditService for one tenant: the credit wallet, the holds      *)
(* (CreditReservation rows) placed around executions of recovery plans,    *)
(* and the append-only ledger with its unique idempotency keys.            *)
(*                                                                         *)
(* Here one server process serves every request.  The service awaits       *)
(* nothing but its repository, whose SQL session is synchronous, so a call *)
(* of the service is never suspended and is one step; requests interleave  *)
(* while they await the engine, between reserving and settling.            *)
(* RecoveryCreditsRace splits the calls for several processes.             *)
(*                                                                         *)
(* Time is counted in billing periods: period s runs from s to s + 1.      *)
(***************************************************************************)
EXTENDS Integers, FiniteSets

CONSTANTS Requests,    \* execute or resume requests, each served once
          PlanOf,      \* the recovery plan of a request
          HoldIds,     \* ids of the reservations that can be created
          Allowances,  \* recovery_credits of the plans on offer
          MaxPeriod    \* the last billing period (bound)

Plans == {PlanOf[r] : r \in Requests}
Unbilled == "unbilled"     \* no hold: the tenant is in evaluation mode
Billed == "already_billed" \* a hold without reservation: nothing to settle
NoPlan == "no_plan"

ASSUME AllowancesAssumption == Allowances \subseteq Nat \ {0}
ASSUME MaxPeriodAssumption == MaxPeriod \in Nat
ASSUME HoldIdsAssumption ==
    /\ IsFiniteSet(HoldIds)
    /\ HoldIds \cap {Unbilled, Billed} = {}
ASSUME PlansAssumption ==
    /\ PlanOf \in [Requests -> Plans]
    /\ NoPlan \notin Plans

VARIABLES
    wallet,    \* the CreditWallet row
    status,    \* status of each reservation row; "none": no row
    planOf,    \* recovery_plan_id of each reservation
    overdue,   \* reservations whose expires_at has passed
    ledger,    \* idempotency keys of the recorded entries
    balance,   \* sum of the deltas of the recorded entries
    now,       \* the clock
    at,        \* where each request is
    held,      \* the CreditHold a request got
    verified   \* requests whose execution ended completed and verified

rowVars == <<wallet, status, planOf, ledger, balance>>
reqVars == <<at, held, verified>>
vars == <<rowVars, overdue, now, reqVars>>

Statuses == {"none", "active", "consumed", "released", "expired"}
Wallets == [open : BOOLEAN, enforced : BOOLEAN, allocated : Int,
            consumed : Int, reserved : Nat, end : Nat, tier : Nat]

\* The row is missing; a new one starts with these counters.
NoWallet == [open |-> FALSE, enforced |-> FALSE, allocated |-> 0,
             consumed |-> 0, reserved |-> 0, end |-> 0, tier |-> 0]

Init ==
    /\ wallet = NoWallet
    /\ status = [h \in HoldIds |-> "none"]
    /\ planOf = [h \in HoldIds |-> NoPlan]
    /\ overdue = {}
    /\ ledger = {}
    /\ balance = 0
    /\ now = 0
    /\ at = [r \in Requests |-> "idle"]
    /\ held = [r \in Requests |-> Unbilled]
    /\ verified = {}

-----------------------------------------------------------------------------
(* What the service computes from a wallet.                                *)

Available(w) == w.allocated - w.consumed - w.reserved
Enforced(w) == w.open /\ w.enforced

\* reserved = max(reserved - 1, 0), once for each of k holds.
WithoutHolds(w, k) == [w EXCEPT !.reserved = IF @ >= k THEN @ - k ELSE 0]

WithHold(w) == [w EXCEPT !.reserved = @ + 1]

\* _settle_consumption: the hold becomes a consumed credit.
ChargedKeepingHold(w) == [w EXCEPT !.consumed = @ + 1]
Charged(w) == [WithoutHolds(w, 1) EXCEPT !.consumed = @ + 1]

\* _expire_remaining_locked: the period counters restart, holds stay.
Emptied(w) == [w EXCEPT !.allocated = 0, !.consumed = 0]

\* allocate: a credits for period s.
Granted(w, s, a) ==
    [w EXCEPT !.open = TRUE, !.enforced = TRUE, !.allocated = @ + a,
              !.end = s + 1, !.tier = a]

(***************************************************************************)
(* A transaction: the wallet and the reservation statuses it writes, and   *)
(* the keys and the total delta of the ledger entries it adds.             *)
(***************************************************************************)
Tx(w, marks, keys, delta) ==
    [wallet |-> w, marks |-> marks, keys |-> keys, delta |-> delta]

Marked(marks) ==
    [h \in HoldIds |-> IF h \in DOMAIN marks THEN marks[h] ELSE status[h]]

Commit(tx) ==
    /\ wallet' = tx.wallet
    /\ status' = Marked(tx.marks)
    /\ ledger' = ledger \cup tx.keys
    /\ balance' = balance + tx.delta

\* _sweep_expired_reservations: the holds it releases.
Swept == {h \in HoldIds :
            /\ h \in overdue
            /\ status[h] = "active"
            /\ <<"release", h>> \notin ledger}
SweepMarks == [h \in Swept |-> "expired"]
SweepKeys == {<<"release", h>> : h \in Swept}
SweptWallet == WithoutHolds(wallet, Cardinality(Swept))
SweepTx == Tx(SweptWallet, SweepMarks, SweepKeys, Cardinality(Swept))

\* The hold h is placed on wallet w.
PlaceTx(w, h) ==
    Tx(WithHold(w), [x \in {h} |-> "active"], {<<"reserve", h>>}, -1)

ChargeTx(w, h) ==
    Tx(Charged(w), [x \in {h} |-> "consumed"], {<<"consume", planOf[h]>>}, 0)

ReleaseTx(w, h) ==
    Tx(WithoutHolds(w, 1), [x \in {h} |-> "released"], {<<"release", h>>}, 1)

SettleTxAlways(w, h, billable) ==
    IF <<"consume", planOf[h]>> \notin ledger
    THEN ChargeTx(w, h) ELSE ReleaseTx(w, h)
SettleTx(w, h, billable) ==
    IF billable /\ <<"consume", planOf[h]>> \notin ledger
    THEN ChargeTx(w, h) ELSE ReleaseTx(w, h)

-----------------------------------------------------------------------------
(* Requests.                                                               *)

ActiveHoldsOf(p) == {h \in HoldIds : status[h] = "active" /\ planOf[h] = p}

Starts(r, hold) ==
    /\ at' = [at EXCEPT ![r] = "running"]
    /\ held' = [held EXCEPT ![r] = hold]
    /\ UNCHANGED <<overdue, now, verified>>

\* reserve_for_execution: evaluation mode, nothing is held.
RunUnbilled(r) ==
    /\ at[r] = "idle"
    /\ ~Enforced(wallet)
    /\ Starts(r, Unbilled)
    /\ UNCHANGED rowVars

\* reserve_for_execution of a plan that was charged before.
RunBilled(r) ==
    /\ at[r] = "idle"
    /\ Enforced(wallet)
    /\ <<"consume", PlanOf[r]>> \in ledger
    /\ Starts(r, Billed)
    /\ UNCHANGED rowVars

\* reserve_for_execution: a hold of the plan is still active and is reused.
ReuseHold(r) ==
    /\ at[r] = "idle"
    /\ Enforced(wallet)
    /\ <<"consume", PlanOf[r]>> \notin ledger
    /\ \E h \in ActiveHoldsOf(PlanOf[r]) : Starts(r, h)
    /\ UNCHANGED rowVars

NeedsHold(r) ==
    /\ at[r] = "idle"
    /\ Enforced(wallet)
    /\ <<"consume", PlanOf[r]>> \notin ledger
    /\ ActiveHoldsOf(PlanOf[r]) = {}

\* reserve_for_execution sweeps and then places a new hold, if a credit is
\* available.
PlaceHoldUnchecked(r) ==
    /\ NeedsHold(r)
    /\ \E h \in HoldIds :
        /\ planOf[h] = NoPlan
        /\ LET place == PlaceTx(SweptWallet, h)
           IN  Commit(Tx(place.wallet,
                         [x \in Swept \cup {h} |->
                            IF x = h THEN "active" ELSE "expired"],
                         SweepKeys \cup place.keys,
                         Cardinality(Swept) + place.delta))
        /\ planOf' = [planOf EXCEPT ![h] = PlanOf[r]]
        /\ Starts(r, h)
PlaceHoldNoPlan(r) ==
    /\ NeedsHold(r)
    /\ Available(SweptWallet) >= 1
    /\ \E h \in HoldIds :
        /\ status[h] = "none"
        /\ Commit(PlaceTx(wallet, h))
        /\ UNCHANGED planOf
        /\ Starts(r, h)
PlaceHold(r) ==
    /\ Available(SweptWallet) >= 1
    /\ PlaceHoldUnchecked(r)

\* reserve_for_execution sweeps and raises InsufficientCreditsError.
Refuse(r) ==
    /\ NeedsHold(r)
    /\ Available(SweptWallet) < 1
    /\ Commit(SweepTx)
    /\ at' = [at EXCEPT ![r] = "refused"]
    /\ UNCHANGED <<planOf, overdue, now, held, verified>>

(***************************************************************************)
(* finalize_hold, called when the execution ends, in whatever way; the run *)
(* is billable when its result was completed and verified.  A hold that is *)
(* no longer active is left as it is ("noop").                             *)
(***************************************************************************)
SettlesAny(r) == held[r] \in HoldIds
Settles(r) == held[r] \in HoldIds /\ status[held[r]] = "active"

Settle(r) ==
    /\ at[r] = "running"
    /\ at' = [at EXCEPT ![r] = "done"]
    /\ \E billable \in BOOLEAN :
        /\ verified' = IF billable THEN verified \cup {r} ELSE verified
        /\ IF Settles(r)
           THEN Commit(SettleTx(wallet, held[r], billable))
           ELSE UNCHANGED <<wallet, status, ledger, balance>>
    /\ UNCHANGED <<planOf, overdue, now, held>>

\* The process dies while the engine works; the hold stays behind.
Die(r) ==
    /\ at[r] = "running"
    /\ at' = [at EXCEPT ![r] = "dead"]
    /\ UNCHANGED <<rowVars, overdue, now, held, verified>>

-----------------------------------------------------------------------------
(* Webhooks of the payment provider, and time.                             *)

\* allocate: the invoice of period s is paid for a plan of a credits.
RollsOver(s) == wallet.open /\ (wallet.end <= now \/ s >= wallet.end)

Allocate(s, a) ==
    /\ <<"alloc", s>> \notin ledger
    /\ LET rest == Available(SweptWallet)
           base == IF RollsOver(s) THEN Emptied(SweptWallet) ELSE SweptWallet
           key == <<"expire", wallet.end>>
           expires == RollsOver(s) /\ rest > 0 /\ key \notin ledger
       IN  Commit(Tx(Granted(base, s, a),
                     SweepMarks,
                     SweepKeys \cup {<<"alloc", s>>}
                               \cup (IF expires THEN {key} ELSE {}),
                     Cardinality(Swept) + a - (IF expires THEN rest ELSE 0)))
    /\ UNCHANGED <<planOf, overdue, now, reqVars>>

\* attach_subscription, called by _handle_plan_change without a wallet.
AttachSubscription(a) ==
    /\ ~wallet.open
    /\ wallet' = [wallet EXCEPT !.open = TRUE, !.end = now, !.tier = a]
    /\ UNCHANGED <<status, planOf, ledger, balance, overdue, now, reqVars>>

\* apply_plan_upgrade, called by _handle_plan_change when the plan differs.
Upgrade(s, a) ==
    /\ Enforced(wallet)
    /\ a # wallet.tier
    /\ a > wallet.allocated
    /\ <<"adjust", a, s>> \notin ledger
    /\ Commit(Tx([wallet EXCEPT !.allocated = a], <<>>,
                 {<<"adjust", a, s>>}, a - wallet.allocated))
    /\ UNCHANGED <<planOf, overdue, now, reqVars>>

\* expire_remaining: the wallet is written only when something is left.
ExpiredWallet ==
    IF Available(SweptWallet) > 0 THEN Emptied(SweptWallet) ELSE SweptWallet

ExpireTx(w) ==
    LET rest == Available(SweptWallet)
        key == <<"expire", wallet.end>>
        records == rest > 0 /\ key \notin ledger
    IN  Tx(w, SweepMarks,
           SweepKeys \cup (IF records THEN {key} ELSE {}),
           Cardinality(Swept) - (IF records THEN rest ELSE 0))

\* deactivate: it expires the rest and, in a transaction of its own, ends
\* the enforcement; the process may die between the two.
Deactivate(dies) ==
    /\ wallet.open
    /\ Commit(ExpireTx(IF dies THEN ExpiredWallet
                       ELSE [ExpiredWallet EXCEPT !.enforced = FALSE]))
    /\ UNCHANGED <<planOf, overdue, now, reqVars>>

\* The TTL of an active hold elapses.
Overrun(h) ==
    /\ status[h] = "active"
    /\ h \notin overdue
    /\ overdue' = overdue \cup {h}
    /\ UNCHANGED <<rowVars, now, reqVars>>

Tick ==
    /\ now < MaxPeriod
    /\ now' = now + 1
    /\ UNCHANGED <<rowVars, overdue, reqVars>>

RequestNext(r) ==
    \/ RunUnbilled(r) \/ RunBilled(r) \/ ReuseHold(r)
    \/ PlaceHold(r) \/ Refuse(r) \/ Settle(r) \/ Die(r)

WebhookNext ==
    \/ \E s \in 0 .. MaxPeriod, a \in Allowances :
        Allocate(s, a) \/ Upgrade(s, a)
    \/ \E a \in Allowances : AttachSubscription(a)
    \/ \E dies \in BOOLEAN : Deactivate(dies)

TimeNext == Tick \/ \E h \in HoldIds : Overrun(h)

Next == WebhookNext \/ TimeNext \/ \E r \in Requests : RequestNext(r)

Spec == Init /\ [][Next]_vars

-----------------------------------------------------------------------------
\* The rows and the request states are what the code can store; a hold that
\* is in use knows its plan.
CreditTypeOK ==
    /\ wallet \in Wallets
    /\ status \in [HoldIds -> Statuses]
    /\ planOf \in [HoldIds -> Plans \cup {NoPlan}]
    /\ overdue \subseteq HoldIds
    /\ balance \in Int
    /\ now \in Nat
    /\ at \in [Requests -> {"idle", "running", "refused", "done", "dead"}]
    /\ held \in [Requests -> HoldIds \cup {Unbilled, Billed}]
    /\ verified \subseteq Requests
    /\ \A h \in HoldIds : planOf[h] = NoPlan => status[h] = "none"

\* What the service's contract says of reserve_for_execution: requests never
\* spend more credits than were granted, so the recorded movements never sum
\* to less than zero.
NeverOverspent == balance >= 0

\* The wallet never offers more than the ledger accounts for: over any
\* sequence of grants, holds, charges, sweeps, renewals and cancellations
\* nothing is overspent, and what reserve_for_execution may still give out is
\* at most the sum of the recorded movements.
WalletWithinLedger == NeverOverspent /\ Available(wallet) <= balance

\* The wallet's reserved counter is the number of active holds, through
\* reuse, settlement, sweeps and renewals ("so the reserved counter stays
\* honest").
ReservedIsActive ==
    wallet.reserved = Cardinality({h \in HoldIds : status[h] = "active"})

\* At most one hold of a plan is ever converted to a consumption, however
\* often the plan is executed or resumed.
ChargedOnce ==
    \A h1, h2 \in HoldIds :
        /\ status[h1] = "consumed"
        /\ status[h2] = "consumed"
        /\ planOf[h1] = planOf[h2]
        => h1 = h2

\* A plan is charged only if one of its executions ended completed and
\* verified; failed, partial and unverified runs cost nothing.
ChargeIsEarned ==
    \A p \in Plans :
        <<"consume", p>> \in ledger => \E r \in verified : PlanOf[r] = p

\* A hold is settled once: after it was consumed, released or expired, a late
\* finalize_hold or sweep changes nothing about it.
SettledIsFinal ==
    [][\A h \in HoldIds : status[h] \in {"consumed", "released", "expired"}
                          => status'[h] = status[h]]_vars
=============================================================================
