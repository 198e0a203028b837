------------------------ MODULE RecoveryCreditsProofs ------------------------
(***************************************************************************)
(* Proofs about the credit service in one process, for any requests,       *)
(* plans, allowances, number of holds and number of billing periods.       *)
(***************************************************************************)
EXTENDS RecoveryCredits, FiniteSetTheorems, TLAPS

Active == {h \in HoldIds : status[h] = "active"}

(***************************************************************************)
(* The inductive invariant.  WalletWithinLedger is inductive given the     *)
(* types; ReservedIsActive also needs that an id without a plan has no     *)
(* row, which is a conjunct of CreditTypeOK.                               *)
(***************************************************************************)
CreditInv == CreditTypeOK /\ WalletWithinLedger /\ ReservedIsActive

(***************************************************************************)
(* What a transaction must satisfy to be committed: it only settles holds  *)
(* that are not settled yet, leaves the counter of holds right, and moves  *)
(* the ledger at least as far up as the wallet.                            *)
(***************************************************************************)
MarksOK(marks) ==
    \A h \in DOMAIN marks :
        /\ h \in HoldIds
        /\ marks[h] \in Statuses \ {"none"}
        /\ status[h] \in {"none", "active"}

Sound(tx) ==
    /\ tx.wallet \in Wallets
    /\ tx.delta \in Int
    /\ MarksOK(tx.marks)
    /\ balance + tx.delta >= 0
    /\ Available(tx.wallet) <= balance + tx.delta
    /\ tx.wallet.reserved
        = Cardinality({h \in HoldIds : Marked(tx.marks)[h] = "active"})

Final(h) == status[h] \in {"consumed", "released", "expired"}

-----------------------------------------------------------------------------
(* The wallet's operations.                                                *)

\* Releasing k holds (max(reserved - 1, 0), k times) gives back at most k credits.
LEMMA WithoutHoldsFacts ==
    ASSUME NEW w \in Wallets, NEW k \in Nat
    PROVE  /\ WithoutHolds(w, k) \in Wallets
           /\ Available(w) \in Int
           /\ Available(WithoutHolds(w, k)) \in Int
           /\ Available(WithoutHolds(w, k)) <= Available(w) + k
           /\ k <= w.reserved => WithoutHolds(w, k).reserved = w.reserved - k
  BY DEF Wallets, WithoutHolds, Available

\* Emptying a wallet leaves nothing available and keeps its holds.
LEMMA EmptiedFacts ==
    ASSUME NEW w \in Wallets
    PROVE  /\ Emptied(w) \in Wallets
           /\ Available(Emptied(w)) = 0 - w.reserved
           /\ Emptied(w).reserved = w.reserved
           /\ w.reserved \in Nat
<1>1. Emptied(w) \in Wallets
  <2> DEFINE u == [w EXCEPT !.allocated = 0]
  <2>1. u \in Wallets
    BY DEF Wallets
  <2>2. Emptied(w) = [u EXCEPT !.consumed = 0]
    BY DEF Emptied
  <2> HIDE DEF u
  <2> QED BY <2>1, <2>2 DEF Wallets
<1>2. /\ Emptied(w).allocated = 0
      /\ Emptied(w).consumed = 0
      /\ Emptied(w).reserved = w.reserved
  BY DEF Wallets, Emptied
<1>3. w.reserved \in Nat
  BY DEF Wallets
<1> QED BY <1>1, <1>2, <1>3 DEF Available

\* Charging a hold leaves the available credits as they are.
LEMMA ChargedFacts ==
    ASSUME NEW w \in Wallets
    PROVE  /\ Charged(w) \in Wallets
           /\ Available(Charged(w)) <= Available(w)
           /\ w.reserved >= 1 => Charged(w).reserved = w.reserved - 1
<1> DEFINE u == WithoutHolds(w, 1)
<1>1. /\ u \in Wallets
      /\ Available(u) <= Available(w) + 1
      /\ w.reserved >= 1 => u.reserved = w.reserved - 1
  BY WithoutHoldsFacts
<1>2. Charged(w) = [u EXCEPT !.consumed = @ + 1]
  BY DEF Charged
<1> HIDE DEF u
<1>3. /\ Charged(w) \in Wallets
      /\ Charged(w).reserved = u.reserved
      /\ Charged(w).consumed = u.consumed + 1
      /\ Charged(w).allocated = u.allocated
      /\ u.consumed \in Int /\ u.allocated \in Int /\ u.reserved \in Nat
  BY <1>1, <1>2 DEF Wallets
<1>4. Available(w) \in Int
  BY WithoutHoldsFacts
<1> QED BY <1>1, <1>3, <1>4 DEF Available

\* Placing a hold takes one available credit.
LEMMA WithHoldFacts ==
    ASSUME NEW w \in Wallets
    PROVE  /\ WithHold(w) \in Wallets
           /\ Available(WithHold(w)) = Available(w) - 1
           /\ WithHold(w).reserved = w.reserved + 1
  BY DEF Wallets, WithHold, Available

-----------------------------------------------------------------------------
(* Active holds.                                                           *)

\* The set of holds is finite.
LEMMA ActiveFinite ==
    ASSUME NEW S \in SUBSET HoldIds
    PROVE  IsFiniteSet(S) /\ Cardinality(S) \in Nat
  BY HoldIdsAssumption, FS_Subset, FS_CardinalityType

\* The sweep of overdue holds: it releases holds that are active, and the
\* wallet it computes counts the others.
LEMMA SweepFacts ==
    ASSUME CreditInv
    PROVE  /\ Swept \subseteq Active
           /\ Cardinality(Swept) \in Nat
           /\ SweptWallet \in Wallets
           /\ Available(SweptWallet) \in Int
           /\ Available(SweptWallet) <= balance + Cardinality(Swept)
           /\ SweptWallet.reserved = Cardinality(Active \ Swept)
           /\ MarksOK(SweepMarks)
<1>1. Swept \subseteq Active
  BY DEF Swept, Active, CreditInv, CreditTypeOK
<1>2. Swept \in SUBSET HoldIds /\ Active \in SUBSET HoldIds
  BY <1>1 DEF Active
<1>3. /\ IsFiniteSet(Active) /\ Cardinality(Active) \in Nat
      /\ IsFiniteSet(Swept) /\ Cardinality(Swept) \in Nat
  BY <1>2, ActiveFinite
<1>4. /\ Cardinality(Swept) <= Cardinality(Active)
      /\ Cardinality(Active \ Swept) = Cardinality(Active) - Cardinality(Swept)
  <2>1. Active \cap Swept = Swept
    BY <1>1
  <2>2. Cardinality(Swept) <= Cardinality(Active)
    BY <1>1, <1>3, FS_Subset
  <2>3. Cardinality(Active \ Swept) = Cardinality(Active) - Cardinality(Active \cap Swept)
    BY <1>3, FS_Difference
  <2> QED BY <2>1, <2>2, <2>3
<1>5. wallet \in Wallets /\ wallet.reserved = Cardinality(Active)
  BY DEF CreditInv, CreditTypeOK, ReservedIsActive, Active
<1>6. Available(wallet) <= balance /\ balance \in Int
  BY DEF CreditInv, CreditTypeOK, WalletWithinLedger
<1>7. MarksOK(SweepMarks)
  BY <1>1 DEF MarksOK, SweepMarks, Active, Statuses
<1>8. /\ SweptWallet \in Wallets
      /\ Available(wallet) \in Int
      /\ Available(SweptWallet) \in Int
      /\ Available(SweptWallet) <= Available(wallet) + Cardinality(Swept)
      /\ SweptWallet.reserved = wallet.reserved - Cardinality(Swept)
  BY <1>3, <1>4, <1>5, WithoutHoldsFacts DEF SweptWallet
<1>9. Available(SweptWallet) <= balance + Cardinality(Swept)
  BY <1>3, <1>6, <1>8
<1> QED BY <1>1, <1>3, <1>4, <1>5, <1>7, <1>8, <1>9

\* Committing a sound transaction keeps the counters right and changes no
\* settled hold.
LEMMA CommitFacts ==
    ASSUME CreditInv, NEW tx, Sound(tx), Commit(tx)
    PROVE  /\ wallet' \in Wallets
           /\ status' \in [HoldIds -> Statuses]
           /\ balance' \in Int
           /\ WalletWithinLedger'
           /\ ReservedIsActive'
           /\ \A h \in HoldIds : Final(h) => status'[h] = status[h]
           /\ \A h \in HoldIds : h \notin DOMAIN tx.marks => status'[h] = status[h]
<1>1. status' = Marked(tx.marks) /\ wallet' = tx.wallet /\ balance' = balance + tx.delta
  BY DEF Commit
<1>2. status \in [HoldIds -> Statuses] /\ balance \in Int
  BY DEF CreditInv, CreditTypeOK
<1>3. status' \in [HoldIds -> Statuses]
  BY <1>1, <1>2 DEF Marked, Sound, MarksOK
<1>4. \A h \in HoldIds : h \notin DOMAIN tx.marks => status'[h] = status[h]
  BY <1>1 DEF Marked
<1>5. \A h \in HoldIds : Final(h) => status'[h] = status[h]
  BY <1>4 DEF Sound, MarksOK, Final
<1>6. WalletWithinLedger'
  BY <1>1 DEF Sound, WalletWithinLedger, NeverOverspent, Available
<1>7. ReservedIsActive'
  BY <1>1 DEF Sound, ReservedIsActive
<1>8. wallet' \in Wallets /\ balance' \in Int
  BY <1>1, <1>2 DEF Sound
<1> QED BY <1>3, <1>4, <1>5, <1>6, <1>7, <1>8

\* A transaction is sound when its parts are.
LEMMA SoundParts ==
    ASSUME NEW w \in Wallets, NEW marks, MarksOK(marks), NEW keys, NEW delta \in Int,
           balance + delta >= 0,
           Available(w) <= balance + delta,
           w.reserved = Cardinality({h \in HoldIds : Marked(marks)[h] = "active"})
    PROVE  Sound(Tx(w, marks, keys, delta))
<1> DEFINE tx == Tx(w, marks, keys, delta)
<1>1. tx.wallet = w /\ tx.marks = marks /\ tx.delta = delta
  BY DEF Tx
<1> HIDE DEF tx
<1>2. Sound(tx)
  BY <1>1 DEF Sound
<1> QED BY <1>2 DEF tx

\* Holds that the sweep releases are the only ones that stop being active.
LEMMA SweepActive ==
    ASSUME CreditInv
    PROVE  {h \in HoldIds : Marked(SweepMarks)[h] = "active"} = Active \ Swept
  BY DEF Marked, SweepMarks, Active

\* A settlement changes one hold.
LEMMA MarkOne ==
    ASSUME CreditInv, NEW h \in HoldIds, NEW v \in Statuses \ {"active"}
    PROVE  {g \in HoldIds : Marked([x \in {h} |-> v])[g] = "active"} = Active \ {h}
  BY DEF Marked, Active

\* The hold that finalize_hold settles was counted.
LEMMA OneLess ==
    ASSUME CreditInv, NEW h \in Active
    PROVE  /\ wallet.reserved >= 1
           /\ Cardinality(Active \ {h}) = wallet.reserved - 1
<1>1. IsFiniteSet(Active) /\ Cardinality(Active) \in Nat
  BY ActiveFinite DEF Active
<1>2. Cardinality(Active \ {h}) = Cardinality(Active) - 1
  BY <1>1, FS_RemoveElement
<1>3. Cardinality(Active \ {h}) \in Nat
  BY ActiveFinite DEF Active
<1>4. wallet.reserved = Cardinality(Active)
  BY DEF CreditInv, ReservedIsActive, Active
<1> QED BY <1>1, <1>2, <1>3, <1>4

\* finalize_hold of an active hold commits a sound transaction, billable or not.
LEMMA SettleSound ==
    ASSUME CreditInv, NEW h \in Active, NEW billable \in BOOLEAN
    PROVE  Sound(SettleTx(wallet, h, billable))
<1>1. wallet \in Wallets /\ balance \in Int /\ balance >= 0 /\ Available(wallet) <= balance
  BY DEF CreditInv, CreditTypeOK, WalletWithinLedger, NeverOverspent
<1>2. /\ wallet.reserved >= 1
      /\ Cardinality(Active \ {h}) = wallet.reserved - 1
  BY OneLess
<1>3. h \in HoldIds /\ status[h] = "active"
  BY DEF Active
<1>4. Sound(ChargeTx(wallet, h))
  <2>1. MarksOK([x \in {h} |-> "consumed"])
    BY <1>3 DEF MarksOK, Statuses
  <2>2. {g \in HoldIds : Marked([x \in {h} |-> "consumed"])[g] = "active"} = Active \ {h}
    BY <1>3, MarkOne DEF Statuses
  <2>3. /\ Charged(wallet) \in Wallets
        /\ Available(Charged(wallet)) <= Available(wallet)
        /\ Charged(wallet).reserved = wallet.reserved - 1
    BY <1>1, <1>2, ChargedFacts
  <2>4. Available(Charged(wallet)) \in Int /\ Available(wallet) \in Int
    BY <1>1, <2>3, WithoutHoldsFacts
  <2>5. /\ balance + 0 >= 0
        /\ Available(Charged(wallet)) <= balance + 0
        /\ Charged(wallet).reserved
             = Cardinality({g \in HoldIds : Marked([x \in {h} |-> "consumed"])[g] = "active"})
    BY <1>1, <1>2, <2>2, <2>3, <2>4
  <2> QED BY <2>1, <2>3, <2>5, SoundParts DEF ChargeTx
<1>5. Sound(ReleaseTx(wallet, h))
  <2>1. MarksOK([x \in {h} |-> "released"])
    BY <1>3 DEF MarksOK, Statuses
  <2>2. {g \in HoldIds : Marked([x \in {h} |-> "released"])[g] = "active"} = Active \ {h}
    BY <1>3, MarkOne DEF Statuses
  <2>3. /\ WithoutHolds(wallet, 1) \in Wallets
        /\ Available(wallet) \in Int
        /\ Available(WithoutHolds(wallet, 1)) \in Int
        /\ Available(WithoutHolds(wallet, 1)) <= Available(wallet) + 1
        /\ WithoutHolds(wallet, 1).reserved = wallet.reserved - 1
    BY <1>1, <1>2, WithoutHoldsFacts
  <2>4. /\ balance + 1 >= 0
        /\ Available(WithoutHolds(wallet, 1)) <= balance + 1
        /\ WithoutHolds(wallet, 1).reserved
             = Cardinality({g \in HoldIds : Marked([x \in {h} |-> "released"])[g] = "active"})
    BY <1>1, <1>2, <2>2, <2>3
  <2> QED BY <2>1, <2>3, <2>4, SoundParts DEF ReleaseTx
<1> QED BY <1>4, <1>5 DEF SettleTx

\* A sweep on its own (reserve_for_execution without credits) is sound.
LEMMA SweepSound == ASSUME CreditInv PROVE Sound(SweepTx)
<1>1. balance \in Int /\ balance >= 0
  BY DEF CreditInv, CreditTypeOK, WalletWithinLedger, NeverOverspent
<1>2. /\ balance + Cardinality(Swept) >= 0
      /\ Cardinality(Swept) \in Int
      /\ SweptWallet.reserved
           = Cardinality({h \in HoldIds : Marked(SweepMarks)[h] = "active"})
  BY <1>1, SweepFacts, SweepActive
<1> QED BY <1>2, SweepFacts, SoundParts DEF SweepTx

\* Sweeping and placing a hold is sound: a credit was available.
LEMMA PlaceSound ==
    ASSUME CreditInv, NEW h \in HoldIds, status[h] = "none",
           Available(SweptWallet) >= 1, NEW keys
    PROVE  LET marks == [x \in Swept \cup {h} |-> IF x = h THEN "active" ELSE "expired"]
           IN  Sound(Tx(WithHold(SweptWallet), marks, keys, Cardinality(Swept) + (-1)))
<1> DEFINE marks == [x \in Swept \cup {h} |-> IF x = h THEN "active" ELSE "expired"]
           delta == Cardinality(Swept) + (-1)
<1>1. h \notin Active /\ Swept \subseteq Active /\ Active \subseteq HoldIds
  BY SweepFacts DEF Active
<1>2. MarksOK(marks)
  BY <1>1 DEF MarksOK, Active, Statuses
<1>3. {g \in HoldIds : Marked(marks)[g] = "active"} = (Active \ Swept) \cup {h}
  BY <1>1 DEF Marked, Active
<1>4. Cardinality((Active \ Swept) \cup {h}) = Cardinality(Active \ Swept) + 1
  <2>1. Active \ Swept \in SUBSET HoldIds
    BY <1>1
  <2> QED BY <1>1, <2>1, ActiveFinite, FS_AddElement
<1>5. /\ WithHold(SweptWallet) \in Wallets
      /\ Available(WithHold(SweptWallet)) = Available(SweptWallet) - 1
      /\ WithHold(SweptWallet).reserved = SweptWallet.reserved + 1
  BY SweepFacts, WithHoldFacts
<1>6. balance \in Int
  BY DEF CreditInv, CreditTypeOK
<1>7. /\ delta \in Int
      /\ balance + delta >= 0
      /\ Available(WithHold(SweptWallet)) <= balance + delta
  BY <1>5, <1>6, SweepFacts
<1>8. WithHold(SweptWallet).reserved
        = Cardinality({g \in HoldIds : Marked(marks)[g] = "active"})
  BY <1>3, <1>4, <1>5, SweepFacts
<1> HIDE DEF marks, delta
<1>9. Sound(Tx(WithHold(SweptWallet), marks, keys, delta))
  BY <1>2, <1>5, <1>7, <1>8, SoundParts
<1> QED BY <1>9 DEF marks, delta

\* A grant adds its amount to the available credits and touches no hold.
LEMMA GrantedFacts ==
    ASSUME NEW w \in Wallets, NEW s \in Nat, NEW a \in Nat
    PROVE  /\ Granted(w, s, a) \in Wallets
           /\ Available(Granted(w, s, a)) = Available(w) + a
           /\ Granted(w, s, a).reserved = w.reserved
<1> DEFINE u == [w EXCEPT !.open = TRUE]
           v == [u EXCEPT !.enforced = TRUE]
           x == [v EXCEPT !.allocated = @ + a]
           y == [x EXCEPT !.end = s + 1]
<1>1. u \in Wallets
  BY DEF Wallets
<1>2. v \in Wallets
  <2> HIDE DEF u
  <2> QED BY <1>1 DEF Wallets
<1>3. x \in Wallets
  <2> HIDE DEF v
  <2> QED BY <1>2 DEF Wallets
<1>4. y \in Wallets
  <2> HIDE DEF x
  <2> QED BY <1>3 DEF Wallets
<1>5. Granted(w, s, a) = [y EXCEPT !.tier = a]
  BY DEF Granted, Wallets
<1>6. Granted(w, s, a) \in Wallets
  <2> HIDE DEF y
  <2> QED BY <1>4, <1>5 DEF Wallets
<1>7. /\ Granted(w, s, a).allocated = w.allocated + a
      /\ Granted(w, s, a).consumed = w.consumed
      /\ Granted(w, s, a).reserved = w.reserved
  BY DEF Granted, Wallets
<1>8. w.allocated \in Int /\ w.consumed \in Int /\ w.reserved \in Nat
  BY DEF Wallets
<1> QED BY <1>6, <1>7, <1>8 DEF Available

\* Any wallet derived from the swept one, with its holds, that is no more
\* generous than the ledger after the entries, makes a sound transaction.
LEMMA WithSweepSound ==
    ASSUME CreditInv, NEW w \in Wallets, w.reserved = SweptWallet.reserved,
           NEW keys, NEW delta \in Int, balance + delta >= 0,
           Available(w) <= balance + delta
    PROVE  Sound(Tx(w, SweepMarks, keys, delta))
  BY SweepFacts, SweepActive, SoundParts

\* allocate is sound, with and without a rollover of the period, and whether
\* or not the expiry of the period was recorded before.
LEMMA AllocateSound ==
    ASSUME CreditInv, NEW s \in Nat, NEW a \in Allowances, Allocate(s, a)
    PROVE  \E tx : Sound(tx) /\ Commit(tx) /\ tx.marks = SweepMarks
<1> DEFINE rest == Available(SweptWallet)
           base == IF RollsOver(s) THEN Emptied(SweptWallet) ELSE SweptWallet
           key == <<"expire", wallet.end>>
           expires == RollsOver(s) /\ rest > 0 /\ key \notin ledger
           keys == SweepKeys \cup {<<"alloc", s>>} \cup (IF expires THEN {key} ELSE {})
           delta == Cardinality(Swept) + a - (IF expires THEN rest ELSE 0)
           tx == Tx(Granted(base, s, a), SweepMarks, keys, delta)
<1>1. a \in Nat /\ balance \in Int /\ balance >= 0
  BY AllowancesAssumption DEF CreditInv, CreditTypeOK, WalletWithinLedger, NeverOverspent
<1>2. /\ Cardinality(Swept) \in Nat
      /\ SweptWallet \in Wallets
      /\ rest \in Int
      /\ rest <= balance + Cardinality(Swept)
  BY SweepFacts
<1>3. /\ Emptied(SweptWallet) \in Wallets
      /\ Available(Emptied(SweptWallet)) = 0 - SweptWallet.reserved
      /\ Emptied(SweptWallet).reserved = SweptWallet.reserved
      /\ SweptWallet.reserved \in Nat
  BY <1>2, EmptiedFacts
<1>4. /\ base \in Wallets
      /\ base.reserved = SweptWallet.reserved
      /\ Available(base) = IF RollsOver(s) THEN 0 - SweptWallet.reserved ELSE rest
  BY <1>2, <1>3
<1> HIDE DEF base
<1>5. /\ Granted(base, s, a) \in Wallets
      /\ Available(Granted(base, s, a)) = Available(base) + a
      /\ Granted(base, s, a).reserved = SweptWallet.reserved
  BY <1>1, <1>4, GrantedFacts
<1>6. /\ delta \in Int
      /\ balance + delta >= 0
      /\ Available(Granted(base, s, a)) <= balance + delta
  <2> HIDE DEF rest
  <2>1. expires => RollsOver(s) /\ rest > 0
    OBVIOUS
  <2> HIDE DEF expires
  <2>2. CASE expires
    BY <1>1, <1>2, <1>3, <1>4, <1>5, <2>1, <2>2
  <2>3. CASE ~expires
    BY <1>1, <1>2, <1>3, <1>4, <1>5, <2>3
  <2> QED BY <2>2, <2>3
<1> HIDE DEF delta, keys
<1>7. Sound(tx)
  BY <1>5, <1>6, WithSweepSound
<1>8. tx.marks = SweepMarks
  BY DEF Tx
<1>9. Commit(tx)
  BY DEF Allocate, base, keys, delta
<1> QED BY <1>7, <1>8, <1>9

\* deactivate is sound, whether or not it gets to its second transaction.
LEMMA DeactivateSound ==
    ASSUME CreditInv, NEW dies \in BOOLEAN, Deactivate(dies)
    PROVE  \E tx : Sound(tx) /\ Commit(tx) /\ tx.marks = SweepMarks
<1> DEFINE rest == Available(SweptWallet)
           key == <<"expire", wallet.end>>
           records == rest > 0 /\ key \notin ledger
           keys == SweepKeys \cup (IF records THEN {key} ELSE {})
           delta == Cardinality(Swept) - (IF records THEN rest ELSE 0)
           w == IF dies THEN ExpiredWallet ELSE [ExpiredWallet EXCEPT !.enforced = FALSE]
           tx == Tx(w, SweepMarks, keys, delta)
<1>1. balance \in Int /\ balance >= 0
  BY DEF CreditInv, CreditTypeOK, WalletWithinLedger, NeverOverspent
<1>2. /\ Cardinality(Swept) \in Nat
      /\ SweptWallet \in Wallets
      /\ rest \in Int
      /\ rest <= balance + Cardinality(Swept)
  BY SweepFacts
<1>3. /\ Emptied(SweptWallet) \in Wallets
      /\ Available(Emptied(SweptWallet)) = 0 - SweptWallet.reserved
      /\ Emptied(SweptWallet).reserved = SweptWallet.reserved
      /\ SweptWallet.reserved \in Nat
  BY <1>2, EmptiedFacts
<1>4. /\ ExpiredWallet \in Wallets
      /\ ExpiredWallet.reserved = SweptWallet.reserved
      /\ Available(ExpiredWallet) = IF rest > 0 THEN 0 - SweptWallet.reserved ELSE rest
  BY <1>2, <1>3 DEF ExpiredWallet
<1>5. /\ w \in Wallets
      /\ w.reserved = SweptWallet.reserved
      /\ Available(w) = Available(ExpiredWallet)
  BY <1>4 DEF Wallets, Available
<1> HIDE DEF w
<1>6. /\ delta \in Int
      /\ balance + delta >= 0
      /\ Available(w) <= balance + delta
  <2> HIDE DEF rest
  <2>1. records => rest > 0
    OBVIOUS
  <2> HIDE DEF records
  <2>2. CASE records
    BY <1>1, <1>2, <1>3, <1>4, <1>5, <2>1, <2>2
  <2>3. CASE ~records
    BY <1>1, <1>2, <1>3, <1>4, <1>5, <2>3
  <2> QED BY <2>2, <2>3
<1> HIDE DEF delta, keys
<1>7. Sound(tx)
  BY <1>5, <1>6, WithSweepSound
<1>8. tx.marks = SweepMarks
  BY DEF Tx
<1>9. Commit(tx)
  BY DEF Deactivate, ExpireTx, w, keys, delta
<1> QED BY <1>7, <1>8, <1>9

\* apply_plan_upgrade grants the difference to the wallet and to the ledger.
LEMMA UpgradeSound ==
    ASSUME CreditInv, NEW s \in Nat, NEW a \in Allowances, Upgrade(s, a)
    PROVE  \E tx : Sound(tx) /\ Commit(tx) /\ DOMAIN tx.marks = {}
<1> DEFINE w == [wallet EXCEPT !.allocated = a]
           delta == a - wallet.allocated
           keys == {<<"adjust", a, s>>}
           tx == Tx(w, <<>>, keys, delta)
<1>1. /\ a \in Nat /\ balance \in Int /\ balance >= 0
      /\ Available(wallet) <= balance /\ wallet \in Wallets
      /\ wallet.reserved = Cardinality(Active)
  BY AllowancesAssumption
  DEF CreditInv, CreditTypeOK, WalletWithinLedger, NeverOverspent, ReservedIsActive, Active
<1>2. /\ w \in Wallets
      /\ w.reserved = wallet.reserved
      /\ w.allocated = a /\ w.consumed = wallet.consumed
      /\ wallet.allocated \in Int /\ wallet.consumed \in Int /\ wallet.reserved \in Nat
  BY <1>1 DEF Wallets
<1> HIDE DEF w
<1>3. /\ delta \in Int
      /\ balance + delta >= 0
      /\ Available(w) <= balance + delta
  BY <1>1, <1>2 DEF Available, Upgrade
<1>4. DOMAIN <<>> = {}
  OBVIOUS
<1>5. MarksOK(<<>>)
  BY <1>4 DEF MarksOK
<1>6. {h \in HoldIds : Marked(<<>>)[h] = "active"} = Active
  BY <1>4 DEF Marked, Active
<1>7. tx.marks = <<>>
  BY DEF Tx
<1> HIDE DEF delta, keys
<1>8. Sound(tx)
  BY <1>1, <1>2, <1>3, <1>5, <1>6, SoundParts
<1>9. Commit(tx)
  BY DEF Upgrade, w, keys, delta
<1> QED BY <1>4, <1>7, <1>8, <1>9

-----------------------------------------------------------------------------
(* Every step preserves the invariant and leaves settled holds alone.      *)

SettledKept == \A h \in HoldIds : Final(h) => status'[h] = status[h]

RequestTypes ==
    /\ at \in [Requests -> {"idle", "running", "refused", "done", "dead"}]
    /\ held \in [Requests -> HoldIds \cup {Unbilled, Billed}]
    /\ verified \subseteq Requests

\* A step that commits a sound transaction on holds that have a plan.
LEMMA CommitStep ==
    ASSUME CreditInv, NEW tx, Sound(tx), Commit(tx),
           planOf' \in [HoldIds -> Plans \cup {NoPlan}],
           \A h \in HoldIds : planOf'[h] = NoPlan
                => planOf[h] = NoPlan /\ h \notin DOMAIN tx.marks,
           overdue' \subseteq HoldIds, now' \in Nat, RequestTypes'
    PROVE  CreditInv' /\ SettledKept
<1>1. \A h \in HoldIds : planOf'[h] = NoPlan => status'[h] = "none"
  BY CommitFacts DEF CreditInv, CreditTypeOK
<1> QED BY <1>1, CommitFacts DEF CreditInv, CreditTypeOK, RequestTypes, SettledKept

\* A step that writes no row of the credit tables.
LEMMA QuietStep ==
    ASSUME CreditInv, UNCHANGED rowVars,
           overdue' \subseteq HoldIds, now' \in Nat, RequestTypes'
    PROVE  CreditInv' /\ SettledKept
  BY DEF rowVars, CreditInv, CreditTypeOK, WalletWithinLedger, NeverOverspent, Available,
         ReservedIsActive, RequestTypes, SettledKept

\* Holds in use have a plan.
LEMMA ActiveHasPlan ==
    ASSUME CreditInv, NEW h \in HoldIds, planOf[h] = NoPlan
    PROVE  h \notin Active /\ h \notin Swept /\ status[h] = "none"
  BY SweepFacts DEF CreditInv, CreditTypeOK, Active

\* A step of the webhooks or a sweep: the marks are those of the sweep, or none.
LEMMA SweepStep ==
    ASSUME CreditInv, NEW tx, Sound(tx), Commit(tx),
           DOMAIN tx.marks \subseteq Swept,
           UNCHANGED <<planOf, overdue, now>>, RequestTypes'
    PROVE  CreditInv' /\ SettledKept
<1>1. \A h \in HoldIds : planOf'[h] = NoPlan
        => planOf[h] = NoPlan /\ h \notin DOMAIN tx.marks
  BY ActiveHasPlan
<1>2. /\ planOf' \in [HoldIds -> Plans \cup {NoPlan}]
      /\ overdue' \subseteq HoldIds
      /\ now' \in Nat
  BY DEF CreditInv, CreditTypeOK
<1> QED BY <1>1, <1>2, CommitStep

\* Without a wallet there are no holds and no entries.
LEMMA CreditInitially == Init => CreditInv
<1> SUFFICES ASSUME Init PROVE CreditInv
  OBVIOUS
<1>1. CreditTypeOK
  BY DEF Init, CreditTypeOK, NoWallet, Wallets, Statuses
<1>2. WalletWithinLedger
  BY DEF Init, WalletWithinLedger, NeverOverspent, Available, NoWallet
<1>3. ReservedIsActive
  <2>1. {h \in HoldIds : status[h] = "active"} = {}
    BY DEF Init
  <2> QED BY <2>1, FS_EmptySet DEF Init, ReservedIsActive, NoWallet
<1> QED BY <1>1, <1>2, <1>3 DEF CreditInv

\* Every call of the service, webhook, tick or crash keeps the invariant and
\* the settled holds.
LEMMA CreditInductive == CreditInv /\ [Next]_vars => CreditInv' /\ SettledKept
<1> SUFFICES ASSUME CreditInv, [Next]_vars PROVE CreditInv' /\ SettledKept
  OBVIOUS
<1>0. /\ RequestTypes /\ overdue \subseteq HoldIds /\ now \in Nat
      /\ planOf \in [HoldIds -> Plans \cup {NoPlan}]
  BY DEF CreditInv, CreditTypeOK, RequestTypes
<1>1. ASSUME NEW s \in 0 .. MaxPeriod, NEW a \in Allowances, Allocate(s, a)
      PROVE  CreditInv' /\ SettledKept
  <2>1. PICK tx : Sound(tx) /\ Commit(tx) /\ tx.marks = SweepMarks
    BY <1>1, MaxPeriodAssumption, AllocateSound
  <2>2. UNCHANGED <<planOf, overdue, now>> /\ RequestTypes'
    BY <1>0, <1>1 DEF Allocate, reqVars, RequestTypes
  <2> QED BY <2>1, <2>2, SweepStep DEF SweepMarks
<1>2. ASSUME NEW s \in 0 .. MaxPeriod, NEW a \in Allowances, Upgrade(s, a)
      PROVE  CreditInv' /\ SettledKept
  <2>1. PICK tx : Sound(tx) /\ Commit(tx) /\ DOMAIN tx.marks = {}
    BY <1>2, MaxPeriodAssumption, UpgradeSound
  <2>2. UNCHANGED <<planOf, overdue, now>> /\ RequestTypes'
    BY <1>0, <1>2 DEF Upgrade, reqVars, RequestTypes
  <2> QED BY <2>1, <2>2, SweepStep
<1>3. ASSUME NEW a \in Allowances, AttachSubscription(a)
      PROVE  CreditInv' /\ SettledKept
  <2> DEFINE u == [wallet EXCEPT !.open = TRUE]
             v == [u EXCEPT !.end = now]
  <2>1. u \in Wallets
    BY DEF CreditInv, CreditTypeOK, Wallets
  <2>2. v \in Wallets
    <3> HIDE DEF u
    <3> QED BY <1>0, <2>1 DEF Wallets
  <2>3. wallet' = [v EXCEPT !.tier = a]
    BY <1>3 DEF AttachSubscription
  <2>4. wallet' \in Wallets
    <3> HIDE DEF v
    <3> QED BY <2>2, <2>3, AllowancesAssumption DEF Wallets
  <2>5. /\ wallet'.allocated = wallet.allocated
        /\ wallet'.consumed = wallet.consumed
        /\ wallet'.reserved = wallet.reserved
    BY <1>3 DEF AttachSubscription, CreditInv, CreditTypeOK, Wallets
  <2>6. UNCHANGED <<status, planOf, ledger, balance, overdue, now, reqVars>>
    BY <1>3 DEF AttachSubscription
  <2>7. WalletWithinLedger' /\ ReservedIsActive'
    BY <2>5, <2>6 DEF CreditInv, WalletWithinLedger, NeverOverspent, Available, ReservedIsActive
  <2>8. CreditTypeOK'
    BY <2>4, <2>6 DEF CreditInv, CreditTypeOK, reqVars
  <2>9. SettledKept
    BY <2>6 DEF SettledKept
  <2> QED BY <2>7, <2>8, <2>9 DEF CreditInv
<1>4. ASSUME NEW dies \in BOOLEAN, Deactivate(dies)
      PROVE  CreditInv' /\ SettledKept
  <2>1. PICK tx : Sound(tx) /\ Commit(tx) /\ tx.marks = SweepMarks
    BY <1>4, DeactivateSound
  <2>2. UNCHANGED <<planOf, overdue, now>> /\ RequestTypes'
    BY <1>0, <1>4 DEF Deactivate, reqVars, RequestTypes
  <2> QED BY <2>1, <2>2, SweepStep DEF SweepMarks
<1>5. ASSUME NEW h \in HoldIds, Overrun(h)
      PROVE  CreditInv' /\ SettledKept
  BY <1>0, <1>5, QuietStep DEF Overrun, reqVars, RequestTypes
<1>6. CASE Tick
  BY <1>0, <1>6, QuietStep DEF Tick, reqVars, RequestTypes
<1>7. ASSUME NEW r \in Requests, RunUnbilled(r) \/ RunBilled(r) \/ ReuseHold(r) \/ Die(r)
      PROVE  CreditInv' /\ SettledKept
  <2>1. UNCHANGED rowVars /\ overdue' = overdue /\ now' = now
    BY <1>7 DEF RunUnbilled, RunBilled, ReuseHold, Die, Starts
  <2>2. RequestTypes'
    BY <1>0, <1>7 DEF RunUnbilled, RunBilled, ReuseHold, Die, Starts, RequestTypes, ActiveHoldsOf
  <2> QED BY <1>0, <2>1, <2>2, QuietStep
<1>8. ASSUME NEW r \in Requests, PlaceHold(r)
      PROVE  CreditInv' /\ SettledKept
  <2> DEFINE marks(h) == [x \in Swept \cup {h} |-> IF x = h THEN "active" ELSE "expired"]
             tx(h) == Tx(WithHold(SweptWallet), marks(h),
                         SweepKeys \cup {<<"reserve", h>>}, Cardinality(Swept) + (-1))
  <2>1. PICK h \in HoldIds :
          /\ planOf[h] = NoPlan
          /\ Commit(tx(h))
          /\ planOf' = [planOf EXCEPT ![h] = PlanOf[r]]
          /\ Starts(r, h)
    BY <1>8 DEF PlaceHold, PlaceHoldUnchecked, PlaceTx, Tx
  <2>2. status[h] = "none"
    BY <2>1, ActiveHasPlan
  <2>3. Sound(tx(h))
    BY <1>8, <2>2, PlaceSound DEF PlaceHold
  <2>4. tx(h).marks = marks(h) /\ DOMAIN marks(h) = Swept \cup {h}
    BY DEF Tx
  <2>5. PlanOf[r] \in Plans /\ PlanOf[r] # NoPlan
    BY PlansAssumption
  <2>6. /\ planOf' \in [HoldIds -> Plans \cup {NoPlan}]
        /\ \A g \in HoldIds : planOf'[g] = NoPlan => planOf[g] = NoPlan /\ g # h
    BY <1>0, <2>1, <2>5
  <2>7. \A g \in HoldIds : planOf'[g] = NoPlan => planOf[g] = NoPlan /\ g \notin DOMAIN tx(h).marks
    BY <2>4, <2>6, ActiveHasPlan
  <2>8. overdue' \subseteq HoldIds /\ now' \in Nat /\ RequestTypes'
    BY <1>0, <2>1 DEF Starts, RequestTypes
  <2> HIDE DEF tx
  <2> QED BY <2>1, <2>3, <2>6, <2>7, <2>8, CommitStep
<1>9. ASSUME NEW r \in Requests, Refuse(r)
      PROVE  CreditInv' /\ SettledKept
  <2>1. Commit(SweepTx) /\ UNCHANGED <<planOf, overdue, now>>
    BY <1>9 DEF Refuse
  <2>2. RequestTypes'
    BY <1>0, <1>9 DEF Refuse, RequestTypes
  <2>3. DOMAIN SweepTx.marks \subseteq Swept
    BY DEF SweepTx, Tx, SweepMarks
  <2> QED BY <2>1, <2>2, <2>3, SweepSound, SweepStep
<1>10. ASSUME NEW r \in Requests, Settle(r)
       PROVE  CreditInv' /\ SettledKept
  <2>1. UNCHANGED <<planOf, overdue, now>> /\ RequestTypes'
    BY <1>0, <1>10 DEF Settle, RequestTypes
  <2>2. CASE ~Settles(r)
    <3>1. UNCHANGED rowVars
      BY <1>10, <2>2 DEF Settle, rowVars
    <3> QED BY <1>0, <2>1, <3>1, QuietStep
  <2>3. CASE Settles(r)
    <3>1. held[r] \in Active
      BY <2>3 DEF Settles, Active
    <3>2. PICK billable \in BOOLEAN : Commit(SettleTx(wallet, held[r], billable))
      BY <1>10, <2>3 DEF Settle
    <3>3. Sound(SettleTx(wallet, held[r], billable))
      BY <3>1, SettleSound
    <3>4. DOMAIN SettleTx(wallet, held[r], billable).marks = {held[r]}
      BY DEF SettleTx, ChargeTx, ReleaseTx, Tx
    <3>5. \A h \in HoldIds : planOf'[h] = NoPlan
            => planOf[h] = NoPlan /\ h \notin DOMAIN SettleTx(wallet, held[r], billable).marks
      BY <2>1, <3>1, <3>4, ActiveHasPlan
    <3> QED BY <1>0, <2>1, <3>2, <3>3, <3>5, CommitStep
  <2> QED BY <2>2, <2>3
<1>11. CASE UNCHANGED vars
  BY <1>0, <1>11, QuietStep DEF vars, reqVars, RequestTypes
<1> QED
  BY <1>1, <1>2, <1>3, <1>4, <1>5, <1>6, <1>7, <1>8, <1>9, <1>10, <1>11
  DEF Next, WebhookNext, TimeNext, RequestNext

-----------------------------------------------------------------------------
(***************************************************************************)
(* Charges are earned.  ChargeIsEarned alone is not inductive: the plan    *)
(* that Settle charges is the hold's, the run it charges for is the        *)
(* request's, and the two are the same plan.                               *)
(***************************************************************************)
HoldsArePlans ==
    \A r \in Requests : held[r] \in HoldIds => planOf[held[r]] = PlanOf[r]

EarnedInv == HoldsArePlans /\ ChargeIsEarned

NoNewCharge == \A p \in Plans : <<"consume", p>> \in ledger' => <<"consume", p>> \in ledger

\* A step that records no consumption and forgets no verified run.
LEMMA NoChargeStep ==
    ASSUME ChargeIsEarned, NoNewCharge, verified \subseteq verified'
    PROVE  ChargeIsEarned'
  BY DEF ChargeIsEarned, NoNewCharge

\* The sweep's keys are keys of releases.
LEMMA SweepKeysFacts == \A p \in Plans : <<"consume", p>> \notin SweepKeys
  BY DEF SweepKeys

\* Every step of the service, the webhooks and time keeps charges earned.
LEMMA EarnedInductive == CreditInv /\ EarnedInv /\ [Next]_vars => EarnedInv'
<1> SUFFICES ASSUME CreditInv, EarnedInv, [Next]_vars PROVE EarnedInv'
  OBVIOUS
<1>0. HoldsArePlans /\ ChargeIsEarned /\ CreditTypeOK
  BY DEF EarnedInv, CreditInv
<1>a. ASSUME UNCHANGED <<planOf, held>> PROVE HoldsArePlans'
  BY <1>0, <1>a DEF HoldsArePlans
<1>1. ASSUME NEW s \in 0 .. MaxPeriod, NEW a \in Allowances, Allocate(s, a)
      PROVE  EarnedInv'
  <2>1. NoNewCharge
    BY <1>1, SweepKeysFacts DEF Allocate, Commit, Tx, NoNewCharge
  <2> QED BY <1>0, <1>1, <1>a, <2>1, NoChargeStep DEF Allocate, reqVars, EarnedInv
<1>2. ASSUME NEW s \in 0 .. MaxPeriod, NEW a \in Allowances, Upgrade(s, a)
      PROVE  EarnedInv'
  <2>1. NoNewCharge
    BY <1>2 DEF Upgrade, Commit, Tx, NoNewCharge
  <2> QED BY <1>0, <1>2, <1>a, <2>1, NoChargeStep DEF Upgrade, reqVars, EarnedInv
<1>3. ASSUME NEW a \in Allowances, AttachSubscription(a) PROVE EarnedInv'
  BY <1>0, <1>3, <1>a, NoChargeStep DEF AttachSubscription, reqVars, EarnedInv, NoNewCharge
<1>4. ASSUME NEW dies \in BOOLEAN, Deactivate(dies) PROVE EarnedInv'
  <2>1. NoNewCharge
    BY <1>4, SweepKeysFacts DEF Deactivate, ExpireTx, Commit, Tx, NoNewCharge
  <2> QED BY <1>0, <1>4, <1>a, <2>1, NoChargeStep DEF Deactivate, reqVars, EarnedInv
<1>5. ASSUME UNCHANGED <<rowVars, reqVars>> PROVE EarnedInv'
  BY <1>0, <1>5, <1>a, NoChargeStep DEF rowVars, reqVars, EarnedInv, NoNewCharge
<1>6. ASSUME NEW r \in Requests, Die(r) PROVE EarnedInv'
  BY <1>0, <1>6, <1>a, NoChargeStep DEF Die, rowVars, EarnedInv, NoNewCharge
<1>7. ASSUME NEW r \in Requests, RunUnbilled(r) \/ RunBilled(r) PROVE EarnedInv'
  <2>1. held' = [held EXCEPT ![r] = Unbilled] \/ held' = [held EXCEPT ![r] = Billed]
    BY <1>7 DEF RunUnbilled, RunBilled, Starts
  <2>2. UNCHANGED <<planOf, ledger, verified>>
    BY <1>7 DEF RunUnbilled, RunBilled, Starts, rowVars
  <2>3. HoldsArePlans'
    BY <1>0, <2>1, <2>2, HoldIdsAssumption DEF HoldsArePlans, CreditTypeOK
  <2> QED BY <1>0, <2>2, <2>3, NoChargeStep DEF EarnedInv, NoNewCharge
<1>8. ASSUME NEW r \in Requests, ReuseHold(r) PROVE EarnedInv'
  <2>1. PICK h \in ActiveHoldsOf(PlanOf[r]) : held' = [held EXCEPT ![r] = h]
    BY <1>8 DEF ReuseHold, Starts
  <2>2. UNCHANGED <<planOf, ledger, verified>>
    BY <1>8 DEF ReuseHold, Starts, rowVars
  <2>3. HoldsArePlans'
    BY <1>0, <2>1, <2>2 DEF HoldsArePlans, CreditTypeOK, ActiveHoldsOf
  <2> QED BY <1>0, <2>2, <2>3, NoChargeStep DEF EarnedInv, NoNewCharge
<1>9. ASSUME NEW r \in Requests, PlaceHold(r) PROVE EarnedInv'
  <2>1. PICK h \in HoldIds :
          /\ planOf[h] = NoPlan
          /\ ledger' = ledger \cup (SweepKeys \cup {<<"reserve", h>>})
          /\ planOf' = [planOf EXCEPT ![h] = PlanOf[r]]
          /\ held' = [held EXCEPT ![r] = h]
          /\ UNCHANGED verified
    BY <1>9 DEF PlaceHold, PlaceHoldUnchecked, PlaceTx, Tx, Commit, Starts
  <2>2. NoNewCharge
    BY <2>1, SweepKeysFacts DEF NoNewCharge
  <2>3. \A q \in Requests : PlanOf[q] # NoPlan
    BY PlansAssumption
  <2>4. HoldsArePlans'
    BY <1>0, <2>1, <2>3 DEF HoldsArePlans, CreditTypeOK
  <2> QED BY <1>0, <2>1, <2>2, <2>4, NoChargeStep DEF EarnedInv
<1>10. ASSUME NEW r \in Requests, Refuse(r) PROVE EarnedInv'
  <2>1. NoNewCharge
    BY <1>10, SweepKeysFacts DEF Refuse, SweepTx, Commit, Tx, NoNewCharge
  <2> QED BY <1>0, <1>10, <1>a, <2>1, NoChargeStep DEF Refuse, EarnedInv
<1>11. ASSUME NEW r \in Requests, Settle(r) PROVE EarnedInv'
  <2>1. UNCHANGED <<planOf, held>>
    BY <1>11 DEF Settle
  <2>2. PICK billable \in BOOLEAN :
          /\ verified' = IF billable THEN verified \cup {r} ELSE verified
          /\ IF Settles(r)
             THEN Commit(SettleTx(wallet, held[r], billable))
             ELSE UNCHANGED <<wallet, status, ledger, balance>>
    BY <1>11 DEF Settle
  <2>3. verified \subseteq verified'
    BY <2>2
  <2>4. CASE Settles(r) /\ billable
    <3>1. planOf[held[r]] = PlanOf[r] /\ r \in verified'
      BY <1>0, <2>2, <2>4 DEF HoldsArePlans, Settles
    <3>2. \/ ledger' = ledger \cup {<<"consume", PlanOf[r]>>}
          \/ ledger' = ledger \cup {<<"release", held[r]>>}
      BY <2>2, <2>4, <3>1 DEF Commit, SettleTx, ChargeTx, ReleaseTx, Tx
    <3>3. \A p \in Plans : <<"consume", p>> \in ledger'
            => <<"consume", p>> \in ledger \/ p = PlanOf[r]
      BY <3>2
    <3>4. ChargeIsEarned'
      BY <1>0, <2>3, <3>1, <3>3 DEF ChargeIsEarned
    <3> QED BY <1>a, <2>1, <3>4 DEF EarnedInv
  <2>5. CASE ~(Settles(r) /\ billable)
    <3>1. ledger' = ledger \/ ledger' = ledger \cup {<<"release", held[r]>>}
      BY <2>2, <2>5 DEF Commit, SettleTx, ReleaseTx, Tx
    <3>2. NoNewCharge
      BY <3>1 DEF NoNewCharge
    <3> QED BY <1>0, <1>a, <2>1, <2>3, <3>2, NoChargeStep DEF EarnedInv
  <2> QED BY <2>4, <2>5
<1>12. ASSUME Tick \/ \E h \in HoldIds : Overrun(h) PROVE EarnedInv'
  BY <1>5, <1>12 DEF Tick, Overrun
<1>13. CASE UNCHANGED vars
  BY <1>5, <1>13 DEF vars
<1> QED
  BY <1>1, <1>2, <1>3, <1>4, <1>6, <1>7, <1>8, <1>9, <1>10, <1>11, <1>12, <1>13
  DEF Next, WebhookNext, TimeNext, RequestNext

\* In one process a plan is charged only if one of its executions ended
\* completed and verified, for any number of requests, holds and periods.
THEOREM ChargesAreEarned == Spec => []ChargeIsEarned
<1>1. Init => EarnedInv
  <2>1. ASSUME Init PROVE HoldsArePlans
    BY <2>1, HoldIdsAssumption DEF Init, HoldsArePlans
  <2>2. ASSUME Init PROVE ChargeIsEarned
    BY <2>2 DEF Init, ChargeIsEarned
  <2> QED BY <2>1, <2>2 DEF EarnedInv
<1>2. EarnedInv => ChargeIsEarned
  BY DEF EarnedInv
<1> QED
  BY <1>1, <1>2, CreditInitially, CreditInductive, EarnedInductive, PTL DEF Spec

-----------------------------------------------------------------------------
\* The rows and request states have their types in every reachable state of
\* the credit service.
THEOREM CreditTypesCorrect == Spec => []CreditTypeOK
<1>1. CreditInv => CreditTypeOK
  BY DEF CreditInv
<1> QED BY <1>1, CreditInitially, CreditInductive, PTL DEF Spec

\* In one process reserve_for_execution, finalize_hold, the sweep and the
\* webhooks never let the wallet offer more credits than the ledger accounts
\* for, and nothing is overspent, for any number of requests and periods.
THEOREM WalletBacked == Spec => []WalletWithinLedger
<1>1. CreditInv => WalletWithinLedger
  BY DEF CreditInv
<1> QED BY <1>1, CreditInitially, CreditInductive, PTL DEF Spec

\* In one process the reserved counter is always the number of active holds.
THEOREM ReservedCounterHonest == Spec => []ReservedIsActive
<1>1. CreditInv => ReservedIsActive
  BY DEF CreditInv
<1> QED BY <1>1, CreditInitially, CreditInductive, PTL DEF Spec

\* In one process a hold that was consumed, released or expired stays so.
THEOREM SettlementFinal == Spec => SettledIsFinal
<1>1. CreditInv /\ [Next]_vars
      => [\A h \in HoldIds : status[h] \in {"consumed", "released", "expired"}
                            => status'[h] = status[h]]_vars
  BY CreditInductive DEF SettledKept, Final
<1> QED BY <1>1, CreditInitially, CreditInductive, PTL DEF Spec, SettledIsFinal
=============================================================================
