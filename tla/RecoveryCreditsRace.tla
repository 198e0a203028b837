------------------------- MODULE RecoveryCreditsRace -------------------------
(***************************************************************************)
(* RecoveryCredits with the requests on different server processes.  A     *)
(* call of the service reads rows with plain SELECTs and later writes what *)
(* it computed from them; another process may commit in between.           *)
(*                                                                         *)
(* save_wallet loads the row once more and assigns every column, and the   *)
(* ORM's UPDATE names only the columns whose value differs from that load. *)
(* The UPDATE locks the row until the transaction ends, so the writes of a *)
(* transaction take effect together, when it commits; a ledger entry whose *)
(* key is taken rolls the whole transaction back.                          *)
(*                                                                         *)
(* The webhooks' calls stay whole steps here.                              *)
(***************************************************************************)
EXTENDS RecoveryCredits

VARIABLES pending,   \* the writes each request has computed
          loaded     \* the wallet as get_wallet or save_wallet last read it

raceVars == <<vars, pending, loaded>>

NoTx == Tx(NoWallet, <<>>, {}, 0)

RaceInit ==
    /\ Init
    /\ pending = [r \in Requests |-> NoTx]
    /\ loaded = [r \in Requests |-> NoWallet]

Goes(r, from, to) ==
    /\ at[r] = from
    /\ at' = [at EXCEPT ![r] = to]

Computes(r, tx) == pending' = [pending EXCEPT ![r] = tx]
Reads(r) == loaded' = [loaded EXCEPT ![r] = wallet]

noRows == <<rowVars, overdue, now>>
noWork == <<pending, loaded>>

-----------------------------------------------------------------------------
(* reserve_for_execution                                                   *)

\* get_wallet and was_plan_consumed.
Enter(r) ==
    \/ /\ RunUnbilled(r) \/ RunBilled(r)
       /\ UNCHANGED noWork
    \/ /\ Enforced(wallet)
       /\ <<"consume", PlanOf[r]>> \notin ledger
       /\ Goes(r, "idle", "find")
       /\ UNCHANGED <<noRows, held, verified, noWork>>

\* get_active_reservation; without one, the sweep lists the overdue holds and
\* computes their release, if there are any.
FindHold(r) ==
    \/ /\ at[r] = "find"
       /\ \E h \in ActiveHoldsOf(PlanOf[r]) : Starts(r, h)
       /\ UNCHANGED <<rowVars, noWork>>
    \/ /\ ActiveHoldsOf(PlanOf[r]) = {}
       /\ Goes(r, "find", IF Swept = {} THEN "check" ELSE "sweep")
       /\ Computes(r, IF Swept = {} THEN NoTx ELSE SweepTx)
       /\ UNCHANGED <<noRows, held, verified, loaded>>

\* The second get_wallet: evaluation mode, no credit, or a hold to place.
ReadWallet(r) ==
    \/ /\ at[r] = "check"
       /\ ~Enforced(wallet)
       /\ Starts(r, Unbilled)
       /\ UNCHANGED <<rowVars, noWork>>
    \/ /\ Enforced(wallet)
       /\ Available(wallet) < 1
       /\ Goes(r, "check", "refused")
       /\ UNCHANGED <<noRows, held, verified, noWork>>
    \/ /\ Enforced(wallet)
       /\ Available(wallet) >= 1
       /\ Goes(r, "check", "place")
       /\ \E h \in HoldIds :
            /\ planOf[h] = NoPlan
            /\ planOf' = [planOf EXCEPT ![h] = PlanOf[r]]
            /\ held' = [held EXCEPT ![r] = h]
            /\ Computes(r, PlaceTx(wallet, h))
       /\ UNCHANGED <<wallet, status, ledger, balance, overdue, now, verified,
                      loaded>>

-----------------------------------------------------------------------------
(* finalize_hold                                                           *)

\* The execution ends; get_wallet.
Finish(r) ==
    /\ Goes(r, "running", "settle")
    /\ \/ verified' = verified \cup {r}
       \/ verified' = verified
    /\ Reads(r)
    /\ UNCHANGED <<noRows, held, pending>>

\* get_reservation and was_plan_consumed, then the settlement is computed
\* from the wallet read before.
DecideSettlement(r) ==
    /\ IF Settles(r)
       THEN /\ Goes(r, "settle", "finalize")
            /\ Computes(r, SettleTx(loaded[r], held[r], r \in verified))
       ELSE /\ Goes(r, "settle", "done")
            /\ UNCHANGED pending
    /\ UNCHANGED <<noRows, held, verified, loaded>>

\* After DuplicateCreditOperationError: the rows are read again and a hold
\* that is still active is released.
Reconsider(r) ==
    /\ IF Settles(r)
       THEN /\ Goes(r, "duplicate", "rerelease")
            /\ Computes(r, ReleaseTx(wallet, held[r]))
       ELSE /\ Goes(r, "duplicate", "done")
            /\ UNCHANGED pending
    /\ UNCHANGED <<noRows, held, verified, loaded>>

-----------------------------------------------------------------------------
(* The writing half of the transactions.                                   *)

Writing == {"sweep", "place", "finalize", "rerelease"}
Ready == [sweep |-> "sweep_save", place |-> "place_save",
          finalize |-> "finalize_save", rerelease |-> "rerelease_save"]
AfterCommit == [sweep_save |-> "check", place_save |-> "running",
                finalize_save |-> "done", rerelease_save |-> "done"]
\* finalize_hold handles the duplicate; elsewhere it ends the request.
AfterDuplicate == [sweep_save |-> "failed", place_save |-> "failed",
                   finalize_save |-> "duplicate", rerelease_save |-> "done"]

\* save_wallet loads the row.
LoadForSave(r) ==
    /\ at[r] \in Writing
    /\ Goes(r, at[r], Ready[at[r]])
    /\ Reads(r)
    /\ UNCHANGED <<noRows, held, verified, pending>>

\* The columns that differ from the loaded row are written.
Merged(r) ==
    [f \in DOMAIN wallet |->
        IF pending[r].wallet[f] # loaded[r][f]
        THEN pending[r].wallet[f] ELSE wallet[f]]

KeysUnchecked(r) == TRUE
KeysAreFree(r) == pending[r].keys \cap ledger = {}

Write(r) ==
    /\ at[r] \in DOMAIN AfterCommit
    /\ IF KeysAreFree(r)
       THEN /\ Goes(r, at[r], AfterCommit[at[r]])
            /\ Commit([pending[r] EXCEPT !.wallet = Merged(r)])
       ELSE /\ Goes(r, at[r], AfterDuplicate[at[r]])
            /\ UNCHANGED <<wallet, status, ledger, balance>>
    /\ Computes(r, NoTx)
    /\ UNCHANGED <<planOf, overdue, now, held, verified, loaded>>

\* The process dies; what it has not committed is lost.
DieAnywhere(r) ==
    /\ at[r] \notin {"idle", "refused", "failed", "done", "dead"}
    /\ Goes(r, at[r], "dead")
    /\ Computes(r, NoTx)
    /\ UNCHANGED <<noRows, held, verified, loaded>>

RaceNext ==
    \/ /\ WebhookNext \/ TimeNext
       /\ UNCHANGED noWork
    \/ \E r \in Requests :
        \/ Enter(r) \/ FindHold(r) \/ ReadWallet(r)
        \/ Finish(r) \/ DecideSettlement(r) \/ Reconsider(r)
        \/ LoadForSave(r) \/ Write(r) \/ DieAnywhere(r)

RaceSpec == RaceInit /\ [][RaceNext]_raceVars

-----------------------------------------------------------------------------
\* What the service's contract says of concurrent requests: they never spend
\* more credits than the wallet holds.  As long as nothing has expired, the
\* holds and charges stay within what was granted.
RequestsNeverOverspend ==
    (\A s \in 0 .. MaxPeriod + 1 : <<"expire", s>> \notin ledger)
        => NeverOverspent
=============================================================================
