---------------------- MODULE RecoveryCreditsRaceProofs ----------------------
(***************************************************************************)
(* Proofs about the credit service on several processes: whatever the      *)
(* interleaving of reads, saves, duplicates, sweeps, crashes and webhooks, *)
(* a plan is charged at most once.                                         *)
(***************************************************************************)
EXTENDS RecoveryCreditsRace, TLAPS

ConsumeKey(h) == <<"consume", planOf[h]>>

(***************************************************************************)
(* The inductive invariant.  ChargedOnce rests on the unique ledger key:   *)
(* every consumed hold has the key of its plan in the ledger, and every    *)
(* transaction that is about to consume a hold is about to add that key.   *)
(***************************************************************************)
RowTypes ==
    /\ status \in [HoldIds -> Statuses]
    /\ planOf \in [HoldIds -> Plans \cup {NoPlan}]

RowsHavePlans == \A h \in HoldIds : status[h] # "none" => planOf[h] # NoPlan

ConsumedRecorded ==
    \A h \in HoldIds : status[h] = "consumed" => ConsumeKey(h) \in ledger

\* A computed transaction marks rows with a plan, and consumes at most one
\* hold, together with its key.
PendingOK ==
    \A r \in Requests : \A h \in DOMAIN pending[r].marks :
        /\ h \in HoldIds
        /\ planOf[h] # NoPlan
        /\ pending[r].marks[h] \in Statuses \ {"none"}
        /\ pending[r].marks[h] = "consumed"
            => ConsumeKey(h) \in pending[r].keys /\ DOMAIN pending[r].marks = {h}

PendingType == DOMAIN pending = Requests

RaceInv == RowTypes /\ RowsHavePlans /\ ConsumedRecorded /\ PendingType /\ PendingOK /\ ChargedOnce

\* Nothing is reserved or computed when the service starts.
LEMMA RaceInitially == RaceInit => RaceInv
<1> SUFFICES ASSUME RaceInit PROVE RaceInv
  OBVIOUS
<1>1. \A r \in Requests : DOMAIN pending[r].marks = {}
  BY DEF RaceInit, NoTx, Tx
<1> QED
  BY <1>1 DEF RaceInit, Init, RaceInv, RowTypes, RowsHavePlans, ConsumedRecorded, PendingType,
              PendingOK, ChargedOnce, Statuses

\* Steps that only release or expire holds, and keep the plans.
LEMMA NoCharge ==
    ASSUME RaceInv, ledger \subseteq ledger', planOf' = planOf, pending' = pending,
           status' \in [HoldIds -> Statuses],
           \A h \in HoldIds : status'[h] = status[h]
                \/ (status[h] # "none" /\ status'[h] # "consumed")
    PROVE  RaceInv'
  BY DEF RaceInv, RowTypes, RowsHavePlans, ConsumedRecorded, PendingType, PendingOK,
         ChargedOnce, ConsumeKey

\* A commit of the sweep's marks charges nothing.
LEMMA SweepCommit ==
    ASSUME RaceInv, NEW tx, Commit(tx), tx.marks = SweepMarks \/ tx.marks = <<>>,
           planOf' = planOf, pending' = pending
    PROVE  RaceInv'
<1>1. DOMAIN <<>> = {}
  OBVIOUS
<1>2. \A h \in HoldIds : status'[h] = status[h]
        \/ (status[h] = "active" /\ status'[h] = "expired")
  BY <1>1 DEF Commit, Marked, SweepMarks, Swept
<1>3. status' \in [HoldIds -> Statuses]
  <2>1. status' = Marked(tx.marks)
    BY DEF Commit
  <2>2. DOMAIN status' = HoldIds /\ status' = [h \in HoldIds |-> status'[h]]
    BY <2>1 DEF Marked
  <2> QED BY <1>2, <2>2 DEF RaceInv, RowTypes, Statuses
<1>4. ledger \subseteq ledger'
  BY DEF Commit
<1> QED BY <1>2, <1>3, <1>4, NoCharge

\* A webhook or the passing of time charges nothing.
LEMMA OthersKeepRaceInv ==
    ASSUME RaceInv, WebhookNext \/ TimeNext, UNCHANGED noWork
    PROVE  RaceInv'
<1>0. pending' = pending
  BY DEF noWork
<1>1. ASSUME NEW s \in 0 .. MaxPeriod, NEW a \in Allowances, Allocate(s, a)
      PROVE  RaceInv'
  <2>1. PICK w, keys, delta : Commit(Tx(w, SweepMarks, keys, delta))
    BY <1>1 DEF Allocate
  <2>2. Tx(w, SweepMarks, keys, delta).marks = SweepMarks
    BY DEF Tx
  <2> QED BY <1>0, <1>1, <2>1, <2>2, SweepCommit DEF Allocate
<1>2. ASSUME NEW s \in 0 .. MaxPeriod, NEW a \in Allowances, Upgrade(s, a)
      PROVE  RaceInv'
  <2>1. PICK w, keys, delta : Commit(Tx(w, <<>>, keys, delta))
    BY <1>2 DEF Upgrade
  <2>2. Tx(w, <<>>, keys, delta).marks = <<>>
    BY DEF Tx
  <2> QED BY <1>0, <1>2, <2>1, <2>2, SweepCommit DEF Upgrade
<1>3. ASSUME NEW dies \in BOOLEAN, Deactivate(dies)
      PROVE  RaceInv'
  <2>1. PICK w, keys, delta : Commit(Tx(w, SweepMarks, keys, delta))
    BY <1>3 DEF Deactivate, ExpireTx
  <2>2. Tx(w, SweepMarks, keys, delta).marks = SweepMarks
    BY DEF Tx
  <2> QED BY <1>0, <1>3, <2>1, <2>2, SweepCommit DEF Deactivate
<1>4. ASSUME UNCHANGED <<status, planOf, ledger>>
      PROVE  RaceInv'
  BY <1>0, <1>4, NoCharge DEF RaceInv, RowTypes
<1>5. ASSUME NEW a \in Allowances, AttachSubscription(a)
      PROVE  RaceInv'
  BY <1>4, <1>5 DEF AttachSubscription
<1>6. CASE TimeNext
  BY <1>4, <1>6 DEF TimeNext, Tick, Overrun, rowVars
<1> QED BY <1>1, <1>2, <1>3, <1>5, <1>6 DEF WebhookNext

-----------------------------------------------------------------------------
(* The requests' steps.                                                    *)

\* A request computes new writes and touches no row.
LEMMA ComputeStep ==
    ASSUME RaceInv, NEW r \in Requests, NEW tx,
           UNCHANGED <<status, planOf, ledger>>, Computes(r, tx),
           \A h \in DOMAIN tx.marks :
                /\ h \in HoldIds
                /\ planOf[h] # NoPlan
                /\ tx.marks[h] \in Statuses \ {"none"}
                /\ tx.marks[h] = "consumed" => ConsumeKey(h) \in tx.keys /\ DOMAIN tx.marks = {h}
    PROVE  RaceInv'
<1>1. RowTypes' /\ RowsHavePlans' /\ ConsumedRecorded' /\ ChargedOnce' /\ PendingType'
  BY DEF RaceInv, RowTypes, RowsHavePlans, ConsumedRecorded, ChargedOnce, ConsumeKey,
         Computes, PendingType
<1>2. PendingOK'
  BY DEF RaceInv, PendingOK, PendingType, Computes, ConsumeKey
<1> QED BY <1>1, <1>2 DEF RaceInv

\* The same without new writes.
LEMMA ReadStep ==
    ASSUME RaceInv, UNCHANGED <<status, planOf, ledger, pending>>
    PROVE  RaceInv'
  BY NoCharge DEF RaceInv, RowTypes

\* A transaction without marks.
LEMMA EmptyTx == DOMAIN NoTx.marks = {}
  BY DEF NoTx, Tx

\* The transaction that settles an active hold.
LEMMA SettleMarks ==
    ASSUME RaceInv, NEW r \in Requests, Settles(r), NEW w, NEW tx,
           tx = ChargeTx(w, held[r]) \/ tx = ReleaseTx(w, held[r])
    PROVE  \A h \in DOMAIN tx.marks :
                /\ h \in HoldIds
                /\ planOf[h] # NoPlan
                /\ tx.marks[h] \in Statuses \ {"none"}
                /\ tx.marks[h] = "consumed" => ConsumeKey(h) \in tx.keys /\ DOMAIN tx.marks = {h}
<1>1. held[r] \in HoldIds /\ planOf[held[r]] # NoPlan
  BY DEF Settles, RaceInv, RowsHavePlans
<1>2. DOMAIN tx.marks = {held[r]}
  BY DEF ChargeTx, ReleaseTx, Tx
<1>3. \/ tx.marks[held[r]] = "consumed" /\ tx.keys = {ConsumeKey(held[r])}
      \/ tx.marks[held[r]] = "released"
  BY DEF ChargeTx, ReleaseTx, Tx, ConsumeKey
<1> QED BY <1>1, <1>2, <1>3 DEF Statuses

\* Committing what a request computed: a plan that is charged now has no
\* entry yet, so none of its holds is consumed.
LEMMA WriteStep ==
    ASSUME RaceInv, NEW r \in Requests, Write(r)
    PROVE  RaceInv'
<1>0. planOf' = planOf /\ Computes(r, NoTx)
  BY DEF Write
<1>1. CASE ~KeysAreFree(r)
  <2>1. UNCHANGED <<status, planOf, ledger>>
    BY <1>1 DEF Write
  <2> QED BY <1>0, <2>1, EmptyTx, ComputeStep
<1>2. CASE KeysAreFree(r)
  <2> DEFINE m == pending[r].marks
             k == pending[r].keys
  <2>1. status' = Marked(m) /\ ledger' = ledger \cup k
    BY <1>2 DEF Write, Commit
  <2>2. \A h \in DOMAIN m :
            /\ h \in HoldIds
            /\ planOf[h] # NoPlan
            /\ m[h] \in Statuses \ {"none"}
            /\ m[h] = "consumed" => ConsumeKey(h) \in k /\ DOMAIN m = {h}
    BY DEF RaceInv, PendingOK
  <2>3. k \cap ledger = {}
    BY <1>2 DEF KeysAreFree
  <2> HIDE DEF m, k
  <2>4. \A h \in HoldIds : status'[h] = IF h \in DOMAIN m THEN m[h] ELSE status[h]
    BY <2>1 DEF Marked
  <2>5. status' \in [HoldIds -> Statuses]
    BY <2>1, <2>2 DEF Marked, RaceInv, RowTypes
  <2>6. RowTypes' /\ RowsHavePlans'
    BY <1>0, <2>2, <2>4, <2>5 DEF RaceInv, RowTypes, RowsHavePlans
  <2>7. ConsumedRecorded'
    BY <1>0, <2>1, <2>2, <2>4 DEF RaceInv, ConsumedRecorded, ConsumeKey
  <2>8. ChargedOnce'
    <3> SUFFICES ASSUME NEW h1 \in HoldIds, NEW h2 \in HoldIds,
                        status'[h1] = "consumed", status'[h2] = "consumed",
                        planOf[h1] = planOf[h2]
                 PROVE  h1 = h2
      BY <1>0 DEF ChargedOnce
    <3>1. CASE h1 \in DOMAIN m /\ h2 \in DOMAIN m
      BY <2>2, <2>4, <3>1
    <3>2. CASE h1 \in DOMAIN m /\ h2 \notin DOMAIN m
      BY <2>2, <2>3, <2>4, <3>2 DEF RaceInv, ConsumedRecorded, ConsumeKey
    <3>3. CASE h1 \notin DOMAIN m /\ h2 \in DOMAIN m
      BY <2>2, <2>3, <2>4, <3>3 DEF RaceInv, ConsumedRecorded, ConsumeKey
    <3>4. CASE h1 \notin DOMAIN m /\ h2 \notin DOMAIN m
      BY <2>4, <3>4 DEF RaceInv, ChargedOnce
    <3> QED BY <3>1, <3>2, <3>3, <3>4
  <2>9. PendingType' /\ PendingOK'
    BY <1>0, EmptyTx DEF RaceInv, PendingType, PendingOK, Computes, ConsumeKey
  <2> QED BY <2>6, <2>7, <2>8, <2>9 DEF RaceInv
<1> QED BY <1>1, <1>2

\* The second read of the wallet binds a new id to the plan.
LEMMA ReadWalletStep ==
    ASSUME RaceInv, NEW r \in Requests, ReadWallet(r)
    PROVE  RaceInv'
<1>1. CASE UNCHANGED <<status, planOf, ledger, pending>>
  BY <1>1, ReadStep
<1>2. ASSUME NEW h \in HoldIds, planOf[h] = NoPlan,
             planOf' = [planOf EXCEPT ![h] = PlanOf[r]],
             Computes(r, PlaceTx(wallet, h)), UNCHANGED <<status, ledger>>
      PROVE  RaceInv'
  <2> DEFINE tx == PlaceTx(wallet, h)
  <2>1. PlanOf[r] \in Plans /\ PlanOf[r] # NoPlan
    BY PlansAssumption
  <2>2. \A g \in HoldIds : planOf[g] # NoPlan => planOf'[g] = planOf[g] /\ g # h
    BY <1>2 DEF RaceInv, RowTypes
  <2>3. planOf'[h] # NoPlan /\ planOf' \in [HoldIds -> Plans \cup {NoPlan}]
    BY <1>2, <2>1 DEF RaceInv, RowTypes
  <2>4. DOMAIN tx.marks = {h} /\ tx.marks[h] = "active"
    BY DEF PlaceTx, Tx
  <2>5. RowTypes' /\ RowsHavePlans'
    BY <1>2, <2>2, <2>3 DEF RaceInv, RowTypes, RowsHavePlans
  <2>6. ConsumedRecorded' /\ ChargedOnce'
    BY <1>2, <2>2 DEF RaceInv, ConsumedRecorded, ChargedOnce, ConsumeKey, RowsHavePlans
  <2> HIDE DEF tx
  <2>7. PendingType' /\ pending'[r] = tx /\ \A q \in Requests \ {r} : pending'[q] = pending[q]
    BY <1>2 DEF Computes, RaceInv, PendingType, tx
  <2>8. PendingOK'
    <3> SUFFICES ASSUME NEW q \in Requests, NEW g \in DOMAIN pending'[q].marks
                 PROVE  /\ g \in HoldIds
                        /\ planOf'[g] # NoPlan
                        /\ pending'[q].marks[g] \in Statuses \ {"none"}
                        /\ pending'[q].marks[g] = "consumed"
                            => ConsumeKey(g)' \in pending'[q].keys
                               /\ DOMAIN pending'[q].marks = {g}
      BY DEF PendingOK
    <3>1. CASE q = r
      BY <2>3, <2>4, <2>7, <3>1 DEF Statuses
    <3>2. CASE q # r
      BY <2>2, <2>7, <3>2 DEF RaceInv, PendingOK, ConsumeKey
    <3> QED BY <3>1, <3>2
  <2> QED BY <2>5, <2>6, <2>7, <2>8 DEF RaceInv
<1> QED BY <1>1, <1>2 DEF ReadWallet, rowVars, noRows, noWork

\* Every statement of a request, webhook, tick or crash keeps the invariant.
LEMMA RaceInductive == RaceInv /\ [RaceNext]_raceVars => RaceInv'
<1> SUFFICES ASSUME RaceInv, [RaceNext]_raceVars PROVE RaceInv'
  OBVIOUS
<1>1. CASE (WebhookNext \/ TimeNext) /\ UNCHANGED noWork
  BY <1>1, OthersKeepRaceInv
<1>2. ASSUME NEW r \in Requests, Enter(r)
      PROVE  RaceInv'
  BY <1>2, ReadStep DEF Enter, RunUnbilled, RunBilled, noRows, noWork, rowVars
<1>3. ASSUME NEW r \in Requests, FindHold(r)
      PROVE  RaceInv'
  <2>1. CASE UNCHANGED <<status, planOf, ledger, pending>>
    BY <2>1, ReadStep
  <2>2. CASE UNCHANGED <<status, planOf, ledger>> /\ Computes(r, NoTx)
    BY <2>2, EmptyTx, ComputeStep
  <2>3. CASE UNCHANGED <<status, planOf, ledger>> /\ Computes(r, SweepTx)
    <3>1. DOMAIN SweepTx.marks = Swept /\ \A h \in Swept : SweepTx.marks[h] = "expired"
      BY DEF SweepTx, SweepMarks, Tx
    <3>2. \A h \in Swept : h \in HoldIds /\ planOf[h] # NoPlan
      BY DEF Swept, RaceInv, RowTypes, RowsHavePlans
    <3> QED BY <2>3, <3>1, <3>2, ComputeStep DEF Statuses
  <2> QED BY <1>3, <2>1, <2>2, <2>3 DEF FindHold, noRows, noWork, rowVars
<1>4. ASSUME NEW r \in Requests, ReadWallet(r)
      PROVE  RaceInv'
  BY <1>4, ReadWalletStep
<1>5. ASSUME NEW r \in Requests, Finish(r) \/ LoadForSave(r)
      PROVE  RaceInv'
  BY <1>5, ReadStep DEF Finish, LoadForSave, noRows, rowVars
<1>6. ASSUME NEW r \in Requests, DecideSettlement(r) \/ Reconsider(r)
      PROVE  RaceInv'
  <2>1. UNCHANGED <<status, planOf, ledger>>
    BY <1>6 DEF DecideSettlement, Reconsider, noRows, rowVars
  <2>2. CASE ~Settles(r)
    BY <1>6, <2>1, <2>2, ReadStep DEF DecideSettlement, Reconsider
  <2>3. CASE Settles(r)
    <3>1. ASSUME NEW w, NEW tx, Computes(r, tx),
                 tx = ChargeTx(w, held[r]) \/ tx = ReleaseTx(w, held[r])
          PROVE  RaceInv'
      BY <2>1, <2>3, <3>1, SettleMarks, ComputeStep
    <3>2. CASE DecideSettlement(r)
      <4>1. Computes(r, SettleTx(loaded[r], held[r], r \in verified))
        BY <2>3, <3>2 DEF DecideSettlement
      <4> QED BY <3>1, <4>1 DEF SettleTx
    <3>3. CASE Reconsider(r)
      <4>1. Computes(r, ReleaseTx(wallet, held[r]))
        BY <2>3, <3>3 DEF Reconsider
      <4> QED BY <3>1, <4>1
    <3> QED BY <1>6, <3>2, <3>3
  <2> QED BY <2>2, <2>3
<1>7. ASSUME NEW r \in Requests, Write(r)
      PROVE  RaceInv'
  BY <1>7, WriteStep
<1>8. ASSUME NEW r \in Requests, DieAnywhere(r)
      PROVE  RaceInv'
  BY <1>8, EmptyTx, ComputeStep DEF DieAnywhere, noRows, rowVars
<1>9. CASE UNCHANGED raceVars
  BY <1>9, ReadStep DEF raceVars, vars, rowVars
<1> QED
  BY <1>1, <1>2, <1>3, <1>4, <1>5, <1>6, <1>7, <1>8, <1>9 DEF RaceNext

\* Whatever the interleaving of the service's statements on any number of
\* processes, at most one hold of a plan becomes a consumption: the unique
\* ledger key and the rollback in add_ledger_entry are enough.
THEOREM ChargedAtMostOnce == RaceSpec => []ChargedOnce
<1>1. RaceInv => ChargedOnce
  BY DEF RaceInv
<1> QED BY <1>1, RaceInitially, RaceInductive, PTL DEF RaceSpec
=============================================================================
