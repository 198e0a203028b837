------------------------ MODULE DurableRecoveryProofs ------------------------
(***************************************************************************)
(* Proofs about the orchestrators of DurableRecovery, for any number of    *)
(* instances and of steps, any stop conditions, any outcomes and faults.   *)
(***************************************************************************)
EXTENDS DurableRecovery, FiniteSetTheorems, TLAPS

-----------------------------------------------------------------------------
(* Type correctness.  The loop index stays within the plan while a step is *)
(* worked on, which makes every access to a row or a snapshot well defined.*)

InRange == \A i \in Instances : pc[i] \in {"run", "save"} => cur[i] \in Listed

\* The rows list_by_plan returns are rows of the plan.
LEMMA LoadedRange == N \in Nat /\ Loaded \in Nat /\ 1 <= Loaded /\ Loaded <= N
  BY NAssumption, PageLimitAssumption DEF Loaded

\* The initial state is well typed.
LEMMA TypeInitially == Init => TypeOK
<1> SUFFICES ASSUME Init PROVE TypeOK
  OBVIOUS
<1> USE LoadedRange DEF Init, Instances, Steps
<1>1. lease \in LeaseType /\ rows \in [Steps -> Row] /\ committed \in [Steps -> Row]
  BY DEF LeaseInit, LeaseType, Lives, Row, States, AdapterStates
<1>2. writer \in [Steps -> Instances \cup {NoOwner}] /\ pc \in [Instances -> PCs]
  BY DEF PCs
<1>3. snap \in [Instances -> [Steps -> View]] /\ out \in [Instances -> Outcome]
  BY DEF View, States, NoView, Outcome, AdapterStates, NoOutcome
<1>4. tally \in [Instances -> Tally] /\ result \in [Instances -> Result]
  BY DEF Tally, ZeroTally, Result, Statuses, Verifications
<1>5. /\ verdict \in [Instances -> SUBSET Steps] /\ cur \in [Instances -> 1 .. Loaded + 1]
      /\ tok \in [Instances -> Nat] /\ lateCalls \in [Instances -> Nat]
  OBVIOUS
<1>6. mode \in [Instances -> {"execute", "resume"}]
  OBVIOUS
<1>7. expired = {} /\ blind = {} /\ clobbered = {} /\ applied = {} /\ lost = {}
  OBVIOUS
<1> USE DEF TypeOK
<1> HIDE DEF Init
<1> QED
  BY <1>1, <1>2, <1>3, <1>4, <1>5, <1>6, <1>7

\* The number of steps in a given state is a natural number.
LEMMA CountIsNat ==
  ASSUME NEW P \in SUBSET Steps PROVE Cardinality(P) \in Nat
<1>1. IsFiniteSet(Steps)
  BY FS_Interval, LoadedRange DEF Steps
<1> QED
  BY <1>1, FS_Subset, FS_CardinalityType

\* A listed step is a step.
LEMMA ListedInPlan == Listed \subseteq Steps
  BY LoadedRange DEF Listed, Steps

\* Dropped locals are well typed.
LEMMA LocalsTyped ==
  ASSUME TypeOK, NEW i \in Instances, DropLocals(i)
  PROVE  /\ snap' \in [Instances -> [Steps -> View]]
         /\ cur' \in [Instances -> 1 .. Loaded + 1]
         /\ tally' \in [Instances -> Tally]
         /\ out' \in [Instances -> Outcome]
<1>1. NoView \in View /\ ZeroTally \in Tally /\ NoOutcome \in Outcome
  BY DEF NoView, View, States, ZeroTally, Tally, NoOutcome, Outcome, AdapterStates
<1>2. 1 \in 1 .. Loaded + 1
  BY LoadedRange
<1> QED
  BY <1>1, <1>2 DEF TypeOK, DropLocals

\* What an instance has in hand is a step.
LEMMA InHandInPlan ==
  ASSUME InRange, NEW i \in Instances
  PROVE  InHand(i) \subseteq Steps
  BY ListedInPlan DEF InRange, InHand

\* Undoing a transaction keeps the rows well typed.
LEMMA UndoTyped ==
  ASSUME TypeOK, InRange, NEW i \in Instances, UndoWrites(i)
  PROVE  /\ rows' \in [Steps -> Row]
         /\ writer' \in [Steps -> Instances \cup {NoOwner}]
         /\ lost' \subseteq Steps
<1>1. rows' \in [Steps -> Row]
  BY DEF UndoWrites, TypeOK
<1>2. writer' \in [Steps -> Instances \cup {NoOwner}]
  BY DEF UndoWrites, EndTransaction, TypeOK
<1>3. lost' \subseteq Steps
  BY InHandInPlan DEF UndoWrites, Uncommitted, TypeOK
<1> QED
  BY <1>1, <1>2, <1>3

\* Returning to the caller keeps the state well typed.
LEMMA ReturnTyped ==
  ASSUME TypeOK, InRange, NEW i \in Instances, NEW st \in Statuses, NEW ve \in Verifications,
         Return(i, st, ve), UNCHANGED <<lease, db, mode, verdict, tok, known>>
  PROVE  TypeOK'
<1>1. snap' \in [Instances -> [Steps -> View]]
  BY LocalsTyped DEF Return
<1>2. cur' \in [Instances -> 1 .. Loaded + 1]
  BY LocalsTyped DEF Return
<1>3. tally' \in [Instances -> Tally] /\ out' \in [Instances -> Outcome]
  BY LocalsTyped DEF Return
<1>4. result' \in [Instances -> Result] /\ pc' \in [Instances -> PCs]
  BY DEF TypeOK, Return, Result, PCs
<1>5. lost' \subseteq Steps
  BY InHandInPlan DEF Return, TypeOK
<1> QED
  BY <1>1, <1>2, <1>3, <1>4, <1>5 DEF TypeOK, db, known

\* Every action keeps the state well typed.
LEMMA TypeInductive == TypeOK /\ InRange /\ [Next]_vars => TypeOK'
<1> SUFFICES ASSUME TypeOK, InRange, [Next]_vars PROVE TypeOK'
  OBVIOUS
<1> USE LoadedRange DEF Instances
<1>1. CASE CreateDurablePlan
  <2>1. rows' \in [Steps -> Row]
    BY <1>1, ZenonT(60) DEF CreateDurablePlan, TypeOK, Row, States
  <2> QED
    BY <1>1, <2>1 DEF CreateDurablePlan, TypeOK, control, history, known
<1>2. ASSUME NEW i \in Instances, AcquireLease(i) PROVE TypeOK'
  BY <1>2 DEF AcquireLease, TryAcquire, TypeOK, LeaseType, Lives, db, history, known, PCs
<1>3. ASSUME NEW i \in Instances, AlreadyRunning(i) \/ StoreRaises(i) PROVE TypeOK'
  <2>1. CASE AlreadyRunning(i)
    BY <2>1 DEF AlreadyRunning, TypeOK, db, history, known, PCs, Result, Statuses, Verifications
  <2>2. CASE StoreRaises(i)
    <3>1. result' \in [Instances -> Result] /\ pc' \in [Instances -> PCs]
      BY <2>2 DEF StoreRaises, Raised, TypeOK, PCs, Result, Statuses, Verifications
    <3> QED
      BY <2>2, <3>1 DEF StoreRaises, TypeOK, db, history, known
  <2> QED
    BY <1>3, <2>1, <2>2
<1>4. ASSUME NEW i \in Instances, NoSteps(i) PROVE TypeOK'
  BY <1>4, ReturnTyped DEF NoSteps, Statuses, Verifications
<1>5. ASSUME NEW i \in Instances, ListByPlan(i) PROVE TypeOK'
  <2>1. snap' \in [Instances -> [Steps -> View]]
    BY <1>5 DEF ListByPlan, TypeOK, ViewOf, Row, View
  <2>2. Cardinality({s \in Listed : committed[s].state = "SUCCEEDED"}) \in Nat
    BY CountIsNat, ListedInPlan
  <2>3. verdict' \in [Instances -> SUBSET Steps]
    BY <1>5, ListedInPlan, ZenonT(60) DEF ListByPlan, TypeOK
  <2>4. tally' \in [Instances -> Tally]
    <3>1. CASE UNCHANGED tally
      BY <3>1 DEF TypeOK
    <3>2. CASE tally' = [tally EXCEPT ![i].completed =
                           Cardinality({s \in Listed : committed[s].state = "SUCCEEDED"})]
      BY <2>2, <3>2 DEF TypeOK, Tally
    <3> QED
      BY <1>5, <3>1, <3>2 DEF ListByPlan
  <2> QED
    BY <1>5, <2>1, <2>3, <2>4 DEF ListByPlan, TypeOK, db, PCs
<1>6. ASSUME NEW i \in Instances, PassOver(i) PROVE TypeOK'
  <2>1. tally[i] \in Tally /\ cur[i] + 1 \in 1 .. Loaded + 1
    BY <1>6 DEF PassOver, AtStep, LoopDone, TypeOK
  <2>2. tally' \in [Instances -> Tally]
    <3> DEFINE n == IF cur[i] \in verdict[i] THEN tally[i].completed + 1 ELSE tally[i].completed
    <3>1. n \in Nat
      BY <2>1 DEF Tally
    <3>2. tally' = [tally EXCEPT ![i].completed = n]
      BY <1>6 DEF PassOver
    <3> HIDE DEF n
    <3> QED
      BY <3>1, <3>2 DEF TypeOK, Tally
  <2>3. cur' \in [Instances -> 1 .. Loaded + 1]
    BY <1>6, <2>1 DEF PassOver, TypeOK
  <2> QED
    BY <1>6, <2>2, <2>3 DEF PassOver, TypeOK, db, history, known
<1>7. ASSUME NEW i \in Instances, LoseLease(i) PROVE TypeOK'
  BY <1>7, ReturnTyped DEF LoseLease, Statuses, Verifications
<1>8. ASSUME NEW i \in Instances, CountDone(i) PROVE TypeOK'
  <2>1. tally[i] \in Tally /\ cur[i] + 1 \in 1 .. Loaded + 1
    BY <1>8 DEF CountDone, Heartbeat, AtStep, LoopDone, TypeOK
  <2>2. tally' \in [Instances -> Tally]
    <3> DEFINE n == tally[i].completed + 1
               u == IF snap[i][cur[i]].verified THEN tally[i].unverified
                    ELSE tally[i].unverified + 1
    <3>1. n \in Nat /\ u \in Nat
      BY <2>1 DEF Tally
    <3>2. tally' = [tally EXCEPT ![i].completed = n, ![i].unverified = u]
      BY <1>8 DEF CountDone
    <3> HIDE DEF n, u
    <3> QED
      BY <3>1, <3>2, ZenonT(60) DEF TypeOK, Tally
  <2>3. cur' \in [Instances -> 1 .. Loaded + 1]
    BY <1>8, <2>1 DEF CountDone, TypeOK
  <2>4. lease' \in LeaseType /\ tok' \in [Instances -> Nat]
    BY <1>8 DEF CountDone, Heartbeat, Renew, TypeOK, LeaseType, Lives
  <2> QED
    BY <1>8, <2>2, <2>3, <2>4 DEF CountDone, TypeOK, db, history, known
<1>9. ASSUME NEW i \in Instances, BeginStep(i) PROVE TypeOK'
  BY <1>9 DEF BeginStep, Heartbeat, Renew, TypeOK, LeaseType, Lives, db, history, known, PCs
<1>10. ASSUME NEW i \in Instances, Refuse(i) PROVE TypeOK'
  <2>1. Refusals \subseteq Outcome
    BY OutcomeStatesAssumption DEF Refusals, Outcome
  <2>2. out' \in [Instances -> Outcome]
    BY <1>10, <2>1 DEF Refuse, TypeOK
  <2> QED
    BY <1>10, <2>2 DEF Refuse, TypeOK, db, history, known, PCs
<1>11. ASSUME NEW i \in Instances, Compensate(i) PROVE TypeOK'
  <2>1. ExecutionOutcomes \subseteq Outcome
    BY OutcomeStatesAssumption DEF ExecutionOutcomes, Outcome
  <2>2. out' \in [Instances -> Outcome]
    BY <1>11, <2>1 DEF Compensate, TypeOK
  <2>3. lateCalls' \in [Instances -> Nat]
    BY <1>11 DEF Compensate, TypeOK
  <2>4. applied' \subseteq Steps
    BY <1>11, ListedInPlan DEF Compensate, TypeOK, InRange
  <2> QED
    BY <1>11, <2>2, <2>3, <2>4 DEF Compensate, TypeOK, db, PCs
<1>12. ASSUME NEW i \in Instances, SaveStep(i) PROVE TypeOK'
  <2>1. cur[i] \in Steps /\ cur[i] + 1 \in 1 .. Loaded + 1
    BY <1>12 DEF SaveStep, InRange, Listed, Steps, TypeOK
  <2>2. /\ SavedRow(i) \in Row
        /\ CountOutcome(tally[i], i) \in Tally
        /\ NoOutcome \in Outcome
    <3>1. out[i] \in Outcome /\ snap[i][cur[i]] \in View /\ tally[i] \in Tally /\ tok[i] \in Nat
      BY <2>1 DEF TypeOK
    <3>2. Stops(i) \in BOOLEAN
      BY DEF Stops
    <3>3. SavedRow(i) \in Row
      BY <3>1 DEF SavedRow, Row, View, Outcome, States
    <3>4. CountOutcome(tally[i], i) \in Tally
      BY <3>1, <3>2 DEF CountOutcome, Tally
    <3> QED
      BY <3>3, <3>4 DEF NoOutcome, Outcome, AdapterStates
  <2>3. rows' \in [Steps -> Row] /\ tally' \in [Instances -> Tally]
    BY <1>12, <2>1, <2>2 DEF SaveStep, TypeOK
  <2>6. writer' \in [Steps -> Instances \cup {NoOwner}]
    BY <1>12, <2>1 DEF SaveStep, TypeOK
  <2>4. cur' \in [Instances -> 1 .. Loaded + 1] /\ out' \in [Instances -> Outcome]
    BY <1>12, <2>1, <2>2 DEF SaveStep, TypeOK
  <2>5. clobbered' \subseteq Steps
    BY <1>12, <2>1 DEF SaveStep, TypeOK
  <2> QED
    BY <1>12, <2>3, <2>4, <2>5, <2>6 DEF SaveStep, TypeOK, PCs
<1>13. ASSUME NEW i \in Instances, SaveRejected(i) PROVE TypeOK'
  BY <1>13, ReturnTyped DEF SaveRejected, Statuses, Verifications
<1>14. ASSUME NEW i \in Instances, SaveError(i) PROVE TypeOK'
  <2>1. out' \in [Instances -> Outcome]
    BY <1>14 DEF SaveError, TypeOK, Outcome, AdapterStates
  <2> QED
    BY <1>14, <2>1, InHandInPlan DEF SaveError, TypeOK, db, known
<1>15. ASSUME NEW i \in Instances, Finish(i) PROVE TypeOK'
  BY <1>15, ReturnTyped DEF Finish, Statuses, Verifications
<1>16. ASSUME NEW i \in Instances, Raise(i) PROVE TypeOK'
  BY <1>16, ReturnTyped DEF Raise, Statuses, Verifications
<1>17. ASSUME NEW i \in Instances, ReleaseLease(i) PROVE TypeOK'
  BY <1>17 DEF ReleaseLease, Release, TypeOK, LeaseType, Lives, db, history, known, PCs
<1>18. ASSUME NEW i \in Instances, Crash(i) PROVE TypeOK'
  <2>1. result' \in [Instances -> Result] /\ pc' \in [Instances -> PCs]
    BY <1>18 DEF Crash, TypeOK, Result, Statuses, Verifications, PCs
  <2> QED
    BY <1>18, <2>1, LocalsTyped, UndoTyped DEF Crash, TypeOK, known
<1>21. ASSUME NEW i \in Instances, Commit(i) PROVE TypeOK'
  <2>1. committed' \in [Steps -> Row]
    BY <1>21 DEF Commit, TypeOK
  <2>2. writer' \in [Steps -> Instances \cup {NoOwner}]
    BY <1>21 DEF Commit, EndTransaction, TypeOK
  <2> QED
    BY <1>21, <2>1, <2>2 DEF Commit, TypeOK, history, known, PCs
<1>22. ASSUME NEW i \in Instances, Rollback(i) PROVE TypeOK'
  <2>1. result' \in [Instances -> Result] /\ pc' \in [Instances -> PCs]
    BY <1>22 DEF Rollback, Raised, TypeOK, Result, Statuses, Verifications, PCs
  <2> QED
    BY <1>22, <2>1, UndoTyped DEF Rollback, TypeOK, known
<1>19. CASE LeaseLapses
  BY <1>19 DEF LeaseLapses, Lapse, TypeOK, LeaseType, Lives, db, control
<1>20. CASE UNCHANGED vars
  BY <1>20 DEF vars, db, control, history, known, TypeOK
<1> QED
  BY <1>1, <1>2, <1>3, <1>4, <1>5, <1>6, <1>7, <1>8, <1>9, <1>10, <1>11, <1>12, <1>13,
     <1>14, <1>15, <1>16, <1>17, <1>18, <1>19, <1>20, <1>21, <1>22 DEF Next, Step

\* The loop index is within the plan whenever a step is run or saved.
LEMMA RangeInductive == TypeOK /\ InRange /\ [Next]_vars => InRange'
<1> SUFFICES ASSUME TypeOK, InRange, [Next]_vars PROVE InRange'
  OBVIOUS
<1> USE DEF Instances, InRange, TypeOK
<1>1. CASE CreateDurablePlan \/ LeaseLapses \/ UNCHANGED vars
  BY <1>1 DEF CreateDurablePlan, LeaseLapses, vars, control
<1>2. ASSUME NEW i \in Instances,
             \/ AcquireLease(i) \/ AlreadyRunning(i) \/ ReleaseLease(i) \/ StoreRaises(i)
             \/ Commit(i) \/ Rollback(i)
      PROVE  InRange'
  BY <1>2 DEF AcquireLease, AlreadyRunning, ReleaseLease, StoreRaises, Commit, Rollback
<1>3. ASSUME NEW i \in Instances,
             NoSteps(i) \/ LoseLease(i) \/ SaveRejected(i) \/ Finish(i) \/ Raise(i)
      PROVE  InRange'
  BY <1>3 DEF NoSteps, LoseLease, SaveRejected, Finish, Raise, Return, DropLocals
<1>4. ASSUME NEW i \in Instances, ListByPlan(i) \/ PassOver(i) \/ CountDone(i) \/ SaveStep(i)
      PROVE  InRange'
  BY <1>4 DEF ListByPlan, PassOver, AtStep, CountDone, Heartbeat, SaveStep
<1>5. ASSUME NEW i \in Instances, BeginStep(i) PROVE InRange'
  BY <1>5, LoadedRange DEF BeginStep, Heartbeat, AtStep, LoopDone, Listed
<1>6. ASSUME NEW i \in Instances, Refuse(i) \/ Compensate(i) \/ SaveError(i) PROVE InRange'
  BY <1>6 DEF Refuse, Compensate, SaveError
<1>7. ASSUME NEW i \in Instances, Crash(i) PROVE InRange'
  BY <1>7 DEF Crash, DropLocals
<1> QED
  BY <1>1, <1>2, <1>3, <1>4, <1>5, <1>6, <1>7 DEF Next, Step

\* Both facts hold in every reachable state.
LEMMA TypeInvariant == Spec => [](TypeOK /\ InRange)
<1>1. Init => TypeOK /\ InRange
  BY TypeInitially DEF Init, InRange, Instances
<1>2. TypeOK /\ InRange /\ [Next]_vars => (TypeOK /\ InRange)'
  BY TypeInductive, RangeInductive
<1> QED
  BY <1>1, <1>2, PTL DEF Spec

\* Every reachable state is well typed.
THEOREM TypeCorrect == Spec => []TypeOK
  BY TypeInvariant, PTL
-----------------------------------------------------------------------------
(***************************************************************************)
(* Tenures.  A token names one tenure of one instance; an instance that is *)
(* still working and whose tenure has not lapsed is the lease's owner.     *)
(***************************************************************************)
TokensIssued ==
    /\ \A i \in Instances : tok[i] <= lease.token
    /\ \A t \in expired : t <= lease.token /\ t > 0
    /\ \A s \in Steps : /\ rows[s].fence <= lease.token
                        /\ committed[s].fence <= rows[s].fence
    /\ lease.owner # NoOwner => lease.token > 0

NoTokenBefore == \A i \in Instances : pc[i] = "idle" => tok[i] = 0

OwnerHasToken == \A i \in Instances : lease.owner = i => tok[i] = lease.token

LiveNotExpired == lease.owner # NoOwner /\ lease.life = "live" => lease.token \notin expired

WorkerOwns ==
    \A i \in Instances :
        pc[i] \in Working /\ tok[i] \notin expired => lease.owner = i /\ lease.life = "live"

LateOnce ==
    \A i \in Instances :
        /\ lateCalls[i] <= 1
        /\ tok[i] \notin expired \/ pc[i] = "run" => lateCalls[i] = 0

TenureInv ==
    /\ TokensIssued
    /\ NoTokenBefore
    /\ OwnerHasToken
    /\ LiveNotExpired
    /\ WorkerOwns
    /\ LateOnce

\* A step of one instance that touches neither the lease nor a token, moves
\* between working states and writes rows under its own token keeps TenureInv.
LEMMA LocalStepKeepsTenure ==
  ASSUME TypeOK, TenureInv, NEW i \in Instances,
         NEW p \in Working \ {"run"},
         pc[i] \in Working, pc' = [pc EXCEPT ![i] = p],
         \A s \in Steps : \/ rows'[s].fence = rows[s].fence
                          \/ rows'[s].fence = tok[i] /\ rows[s].fence <= tok[i],
         UNCHANGED <<committed, lease, tok, expired, lateCalls>>
  PROVE  TenureInv'
<1> USE DEF TypeOK, LeaseType, Instances, Working
<1>1. TokensIssued'
  <2>1. /\ tok[i] <= lease.token /\ tok[i] \in Nat /\ lease.token \in Nat
        /\ \A s \in Steps : /\ rows[s].fence \in Nat /\ committed[s].fence \in Nat
                            /\ rows[s].fence <= lease.token
                            /\ committed[s].fence <= rows[s].fence
    BY DEF TenureInv, TokensIssued, Row
  <2>2. ASSUME NEW s \in Steps
        PROVE  rows'[s].fence <= lease.token /\ committed[s].fence <= rows'[s].fence
    <3>1. CASE rows'[s].fence = rows[s].fence
      BY <2>1, <3>1
    <3>2. CASE rows'[s].fence = tok[i] /\ rows[s].fence <= tok[i]
      BY <2>1, <3>2
    <3> QED
      BY <3>1, <3>2
  <2> QED
    BY <2>2 DEF TenureInv, TokensIssued
<1>2. NoTokenBefore' /\ OwnerHasToken' /\ LiveNotExpired'
  BY DEF TenureInv, NoTokenBefore, OwnerHasToken, LiveNotExpired
<1>3. WorkerOwns'
  BY DEF TenureInv, WorkerOwns
<1>4. LateOnce'
  BY DEF TenureInv, LateOnce
<1> QED
  BY <1>1, <1>2, <1>3, <1>4 DEF TenureInv

\* The heartbeat succeeds only for an instance whose tenure has not lapsed.
LEMMA HeartbeatUnexpired ==
  ASSUME TypeOK, TenureInv, NEW i \in Instances, Heartbeat(i)
  PROVE  /\ tok[i] \notin expired
         /\ UNCHANGED <<lease, tok>>
<1>1. tok[i] = lease.token /\ lease.token \notin expired
  BY OwnersAssumption DEF Heartbeat, CanRenew, TenureInv, OwnerHasToken, LiveNotExpired, Instances
<1>2. lease' = lease
  BY DEF Heartbeat, CanRenew, Renew, TypeOK, LeaseType
<1>3. tok' = tok
  BY <1>1 DEF Heartbeat, TypeOK
<1> QED
  BY <1>1, <1>2, <1>3

\* Every action keeps the tenure invariant.
LEMMA TenureInductive == TypeOK /\ InRange /\ TenureInv /\ [Next]_vars => TenureInv'
<1> SUFFICES ASSUME TypeOK, InRange, TenureInv, [Next]_vars PROVE TenureInv'
  OBVIOUS
<1> USE OwnersAssumption DEF Instances, db, history, known
<1>1. CASE CreateDurablePlan
  <2>1. \A s \in Steps : /\ rows'[s].fence = rows[s].fence
                         /\ committed'[s].fence = rows[s].fence /\ rows[s].fence \in Nat
    BY <1>1 DEF CreateDurablePlan, TypeOK, Row
  <2> QED
    BY <1>1, <2>1 DEF CreateDurablePlan, control, TenureInv, TokensIssued, NoTokenBefore,
       OwnerHasToken, LiveNotExpired, WorkerOwns, LateOnce
<1>2. ASSUME NEW i \in Instances, AcquireLease(i) PROVE TenureInv'
  <2> USE DEF TypeOK, LeaseType
  <2>1. /\ lease' = [owner |-> i, token |-> lease.token + 1, life |-> "live"]
        /\ tok' = [tok EXCEPT ![i] = lease.token + 1]
        /\ pc' = [pc EXCEPT ![i] = "list"]
        /\ lease.life = "lapsed" /\ pc[i] = "idle"
        /\ UNCHANGED <<rows, committed, expired, lateCalls>>
    BY <1>2 DEF AcquireLease, TryAcquire, CanAcquire
  <2>2. TokensIssued'
    BY <2>1 DEF TenureInv, TokensIssued, Row
  <2>3. NoTokenBefore' /\ OwnerHasToken'
    BY <2>1 DEF TenureInv, NoTokenBefore, OwnerHasToken
  <2>4. LiveNotExpired'
    BY <2>1 DEF TenureInv, TokensIssued, LiveNotExpired
  <2>5. WorkerOwns'
    BY <2>1 DEF TenureInv, WorkerOwns, Working
  <2>6. LateOnce'
    <3>1. lateCalls[i] = 0
      BY <2>1 DEF TenureInv, NoTokenBefore, TokensIssued, LateOnce
    <3> QED
      BY <2>1, <3>1 DEF TenureInv, LateOnce
  <2> QED
    BY <2>2, <2>3, <2>4, <2>5, <2>6 DEF TenureInv
<1>3. ASSUME NEW i \in Instances, AlreadyRunning(i) \/ StoreRaises(i) PROVE TenureInv'
  BY <1>3 DEF AlreadyRunning, StoreRaises, TypeOK, TenureInv, TokensIssued, NoTokenBefore,
     OwnerHasToken, LiveNotExpired, WorkerOwns, LateOnce, Working
<1>16. ASSUME NEW i \in Instances, Commit(i) \/ Rollback(i) \/ Crash(i) PROVE TenureInv'
  <2>1. /\ \E p \in {"done", "crashed"} : pc' = [pc EXCEPT ![i] = p]
        /\ pc[i] # "idle" /\ UNCHANGED <<lease, tok, expired, lateCalls>>
    BY <1>16 DEF Commit, Rollback, Crash
  <2>2. \A s \in Steps : /\ rows'[s] \in {rows[s], committed[s]}
                         /\ committed'[s] \in {committed[s], rows'[s]}
    BY <1>16 DEF Commit, Rollback, Crash, UndoWrites, TypeOK
  <2>3. TokensIssued'
    <3>1. \A s \in Steps : /\ rows[s].fence \in Nat /\ committed[s].fence \in Nat
                           /\ rows[s].fence <= lease.token /\ lease.token \in Nat
                           /\ committed[s].fence <= rows[s].fence
      BY DEF TenureInv, TokensIssued, TypeOK, LeaseType, Row
    <3>2. \A s \in Steps : rows'[s].fence <= lease.token /\ committed'[s].fence <= rows'[s].fence
      <4> SUFFICES ASSUME NEW s \in Steps
                   PROVE  rows'[s].fence <= lease.token /\ committed'[s].fence <= rows'[s].fence
        OBVIOUS
      <4>1. rows'[s] = rows[s] \/ rows'[s] = committed[s]
        BY <2>2
      <4>2. committed'[s] = committed[s] \/ committed'[s] = rows'[s]
        BY <2>2
      <4> QED
        BY <3>1, <4>1, <4>2
    <3> QED
      BY <2>1, <3>2 DEF TenureInv, TokensIssued
  <2>4. NoTokenBefore' /\ OwnerHasToken' /\ LiveNotExpired' /\ WorkerOwns' /\ LateOnce'
    BY <2>1 DEF TypeOK, TenureInv, NoTokenBefore, OwnerHasToken, LiveNotExpired, WorkerOwns,
       LateOnce, Working
  <2> QED
    BY <2>3, <2>4 DEF TenureInv
<1>4. ASSUME NEW i \in Instances,
             NoSteps(i) \/ LoseLease(i) \/ SaveRejected(i) \/ Finish(i) \/ Raise(i)
      PROVE  TenureInv'
  <2>1. pc[i] \in Working /\ pc' = [pc EXCEPT ![i] = "release"] /\ "release" \in Working \ {"run"}
    BY <1>4 DEF NoSteps, LoseLease, SaveRejected, Finish, Raise, Return, AtStep, Working
  <2>2. UNCHANGED <<lease, rows, committed, tok, expired, lateCalls>>
    BY <1>4 DEF NoSteps, LoseLease, SaveRejected, Finish, Raise
  <2> QED
    BY <2>1, <2>2, LocalStepKeepsTenure
<1>5. ASSUME NEW i \in Instances, ListByPlan(i) PROVE TenureInv'
  <2>1. "boundary" \in Working \ {"run"} /\ pc[i] \in Working
    BY <1>5 DEF ListByPlan, Working
  <2> QED
    BY <1>5, <2>1, LocalStepKeepsTenure DEF ListByPlan
<1>6. ASSUME NEW i \in Instances, PassOver(i) PROVE TenureInv'
  <2>1. "boundary" \in Working \ {"run"} /\ pc[i] = "boundary" /\ pc' = [pc EXCEPT ![i] = "boundary"]
    BY <1>6 DEF PassOver, AtStep, Working, TypeOK
  <2> QED
    BY <1>6, <2>1, LocalStepKeepsTenure DEF PassOver
<1>7. ASSUME NEW i \in Instances, CountDone(i) PROVE TenureInv'
  <2>1. "boundary" \in Working \ {"run"} /\ pc[i] = "boundary" /\ pc' = [pc EXCEPT ![i] = "boundary"]
    BY <1>7 DEF CountDone, Heartbeat, AtStep, Working, TypeOK
  <2>2. UNCHANGED <<lease, tok, rows, committed, expired, lateCalls>>
    BY <1>7, HeartbeatUnexpired DEF CountDone
  <2> QED
    BY <2>1, <2>2, LocalStepKeepsTenure
<1>8. ASSUME NEW i \in Instances, BeginStep(i) PROVE TenureInv'
  <2>1. tok[i] \notin expired /\ UNCHANGED <<lease, tok, rows, committed, expired, lateCalls>>
    BY <1>8, HeartbeatUnexpired DEF BeginStep
  <2>2. pc[i] = "boundary" /\ pc' = [pc EXCEPT ![i] = "run"]
    BY <1>8 DEF BeginStep, Heartbeat, AtStep
  <2> QED
    BY <2>1, <2>2 DEF TypeOK, TenureInv, TokensIssued, NoTokenBefore,
       OwnerHasToken, LiveNotExpired, WorkerOwns, LateOnce, Working
<1>9. ASSUME NEW i \in Instances, Refuse(i) PROVE TenureInv'
  <2>1. "save" \in Working \ {"run"} /\ pc[i] \in Working
    BY <1>9 DEF Refuse, Working
  <2> QED
    BY <1>9, <2>1, LocalStepKeepsTenure DEF Refuse
<1>10. ASSUME NEW i \in Instances, Compensate(i) PROVE TenureInv'
  <2>1. UNCHANGED <<lease, rows, committed, tok, expired>> /\ pc' = [pc EXCEPT ![i] = "save"] /\ pc[i] = "run"
    BY <1>10 DEF Compensate
  <2>2. LateOnce'
    BY <1>10 DEF Compensate, TenureInv, LateOnce, TypeOK
  <2> QED
    BY <2>1, <2>2 DEF TypeOK, TenureInv, TokensIssued, NoTokenBefore,
       OwnerHasToken, LiveNotExpired, WorkerOwns, Working
<1>11. ASSUME NEW i \in Instances, SaveStep(i) PROVE TenureInv'
  <2>1. "boundary" \in Working \ {"run"} /\ pc[i] \in Working
    BY <1>11 DEF SaveStep, Working
  <2>2. \A s \in Steps : \/ rows'[s].fence = rows[s].fence
                         \/ rows'[s].fence = tok[i] /\ rows[s].fence <= tok[i]
    BY <1>11 DEF SaveStep, SavedRow, FenceAdmits, TypeOK
  <2> QED
    BY <1>11, <2>1, <2>2, LocalStepKeepsTenure DEF SaveStep
<1>12. ASSUME NEW i \in Instances, SaveError(i) PROVE TenureInv'
  <2>1. "save" \in Working \ {"run"} /\ pc[i] = "save" /\ pc' = [pc EXCEPT ![i] = "save"]
    BY <1>12 DEF SaveError, Working, TypeOK
  <2> QED
    BY <1>12, <2>1, LocalStepKeepsTenure DEF SaveError
<1>13. ASSUME NEW i \in Instances, ReleaseLease(i) PROVE TenureInv'
  <2>1. pc' = [pc EXCEPT ![i] = "commit"] /\ UNCHANGED <<rows, committed, tok, expired, lateCalls>>
    BY <1>13 DEF ReleaseLease
  <2>2. \/ lease.owner = i /\ lease' = [lease EXCEPT !.owner = NoOwner, !.life = "lapsed"]
        \/ lease.owner # i /\ lease' = lease
    BY <1>13 DEF ReleaseLease, Release
  <2> USE DEF TypeOK, LeaseType
  <2>3. TokensIssued' /\ LiveNotExpired'
    BY <2>1, <2>2 DEF TenureInv, TokensIssued, LiveNotExpired
  <2>4. NoTokenBefore'
    BY <2>1 DEF TenureInv, NoTokenBefore
  <2>5. OwnerHasToken'
    <3>1. CASE lease' = lease
      BY <2>1, <3>1 DEF TenureInv, OwnerHasToken
    <3>2. CASE lease'.owner = NoOwner
      BY <3>2 DEF OwnerHasToken
    <3> QED
      BY <2>2, <3>1, <3>2
  <2>6. WorkerOwns'
    BY <2>1, <2>2 DEF TenureInv, WorkerOwns, Working
  <2>7. LateOnce'
    BY <2>1 DEF TenureInv, LateOnce
  <2> QED
    BY <2>3, <2>4, <2>5, <2>6, <2>7 DEF TenureInv
<1>14. CASE LeaseLapses
  <2> USE DEF TypeOK, LeaseType
  <2>1. /\ lease' = [lease EXCEPT !.life = "lapsed"] /\ lease.owner # NoOwner /\ lease.life = "live"
        /\ expired' = expired \cup {lease.token}
        /\ UNCHANGED <<rows, committed, pc, tok, lateCalls>>
    BY <1>14 DEF LeaseLapses, Lapse, control
  <2>2. lease.token > 0
    BY <2>1 DEF TenureInv, TokensIssued
  <2>3. TokensIssued' /\ NoTokenBefore' /\ OwnerHasToken' /\ LiveNotExpired'
    BY <2>1, <2>2 DEF TenureInv, TokensIssued, NoTokenBefore, OwnerHasToken, LiveNotExpired
  <2>4. WorkerOwns' /\ LateOnce'
    BY <2>1 DEF TenureInv, OwnerHasToken, WorkerOwns, LateOnce
  <2> QED
    BY <2>3, <2>4 DEF TenureInv
<1>15. CASE UNCHANGED vars
  BY <1>15 DEF vars, control, TenureInv, TokensIssued, NoTokenBefore,
     OwnerHasToken, LiveNotExpired, WorkerOwns, LateOnce
<1> QED
  BY <1>1, <1>2, <1>3, <1>4, <1>5, <1>6, <1>7, <1>8, <1>9, <1>10, <1>11, <1>12, <1>13,
     <1>14, <1>15, <1>16 DEF Next, Step

\* The tenure invariant holds in every reachable state.
LEMMA TenureInvariant == Spec => [](TypeOK /\ InRange /\ TenureInv)
<1>1. Init => TypeOK /\ InRange /\ TenureInv
  <2> SUFFICES ASSUME Init PROVE TypeOK /\ InRange /\ TenureInv
    OBVIOUS
  <2>1. TypeOK /\ InRange
    BY TypeInitially DEF Init, InRange, Instances
  <2>2. TenureInv
    BY OwnersAssumption DEF Init, LeaseInit, TenureInv, TokensIssued, NoTokenBefore,
       OwnerHasToken, LiveNotExpired, WorkerOwns, LateOnce, Working, Instances
  <2> QED
    BY <2>1, <2>2
<1>2. TypeOK /\ InRange /\ TenureInv /\ [Next]_vars => (TypeOK /\ InRange /\ TenureInv)'
  BY TypeInductive, RangeInductive, TenureInductive
<1> QED
  BY <1>1, <1>2, PTL DEF Spec

\* Two executes or resumes overlap only when one of their leases lapsed.
THEOREM SingleExecutor == Spec => []TenureExclusive
<1>1. TypeOK /\ InRange /\ TenureInv => TenureExclusive
  BY DEF TenureInv, WorkerOwns, TenureExclusive
<1> QED
  BY <1>1, TenureInvariant, PTL

\* After its lease lapsed an instance starts at most one more compensation.
THEOREM StaleWindowIsOneStep == Spec => []StaleWorkBounded
<1>1. TypeOK /\ InRange /\ TenureInv => StaleWorkBounded
  BY DEF TenureInv, LateOnce, StaleWorkBounded
<1> QED
  BY <1>1, TenureInvariant, PTL

\* The fence of a durable row never goes back, and a row is only ever written
\* under a token the lease store has issued.
THEOREM FenceMonotone == Spec => FenceNeverRegresses
<1>1. TypeOK /\ InRange /\ TenureInv /\ [Next]_vars => [FenceStep]_vars
  <2> SUFFICES ASSUME TypeOK, InRange, TenureInv, [Next]_vars PROVE FenceStep
    OBVIOUS
  <2>1. \A s \in Steps : committed[s].fence \in Nat /\ rows[s].fence \in Nat
    BY DEF TypeOK, Row
  <2>2. CASE CreateDurablePlan
    <3>1. \A s \in Steps : committed'[s].fence = rows[s].fence
      BY <2>2 DEF CreateDurablePlan, TypeOK, Row
    <3> QED
      BY <2>1, <3>1 DEF FenceStep, TenureInv, TokensIssued
  <2>3. ASSUME NEW i \in Instances, Commit(i) PROVE FenceStep
    <3>1. \A s \in Steps : committed'[s] \in {committed[s], rows[s]}
      BY <2>3 DEF Commit
    <3> QED
      BY <2>1, <3>1 DEF FenceStep, TenureInv, TokensIssued
  <2>4. CASE UNCHANGED committed
    BY <2>1, <2>4 DEF FenceStep
  <2> QED
    BY <2>2, <2>3, <2>4 DEF Next, Step, AcquireLease, AlreadyRunning, StoreRaises, Crash, NoSteps,
       ListByPlan, PassOver, LoseLease, CountDone, BeginStep, Refuse, Compensate, SaveStep,
       SaveRejected, SaveError, Finish, Raise, ReleaseLease, Rollback, LeaseLapses, vars, db
<1> QED
  BY <1>1, TenureInvariant, PTL DEF Spec, FenceNeverRegresses

-----------------------------------------------------------------------------
(***************************************************************************)
(* Transactions.  A row that no open transaction has written is the        *)
(* committed one.  The snapshot of an instance whose list is not outdated  *)
(* shows every row ahead of it as it was last written, and a row committed *)
(* as succeeded is written again only by an instance with an outdated      *)
(* list: these are the facts the claims rest on.                           *)
(***************************************************************************)
Loop == {"boundary", "run", "save"}
Open == Loop \cup {"release", "commit"}

WritersOpen == \A s \in Steps : writer[s] # NoOwner => pc[writer[s]] \in Open

FreeIsCommitted == \A s \in Steps : writer[s] = NoOwner => rows[s] = committed[s]

PlanIsWhole ==
    /\ \/ \A s \in Steps : rows[s].state # "ABSENT" /\ committed[s].state # "ABSENT"
       \/ \A s \in Steps : /\ rows[s].state = "ABSENT" /\ committed[s].state = "ABSENT"
                           /\ writer[s] = NoOwner
    /\ \A i \in Instances : pc[i] \in Loop => PlanCreated

DoneIsKept ==
    \A s \in Steps : writer[s] # NoOwner /\ committed[s].state = "SUCCEEDED" => s \in clobbered

OthersClobber ==
    \A i \in Instances : pc[i] \in Loop /\ ~Outdated(i) =>
        \A s \in Steps : writer[s] \in {i, NoOwner} \/ s \in clobbered

SnapshotCurrent ==
    \A i \in Instances : pc[i] \in Loop /\ ~Outdated(i) =>
        \A s \in Steps : s >= cur[i] => snap[i][s] = ViewOf(rows[s]) \/ s \in clobbered

RunsOnlyUndone ==
    \A i \in Instances : pc[i] \in {"run", "save"} => snap[i][cur[i]].state # "SUCCEEDED"

TxInv ==
    /\ WritersOpen
    /\ FreeIsCommitted
    /\ PlanIsWhole
    /\ DoneIsKept
    /\ OthersClobber
    /\ SnapshotCurrent
    /\ RunsOnlyUndone

BaseInv == TypeOK /\ InRange /\ TenureInv

\* The locals of every instance but i are what they were.
OnlyMoves(i) ==
    /\ mode' = mode
    /\ \A j \in Instances \ {i} :
         /\ pc'[j] = pc[j] /\ snap'[j] = snap[j] /\ verdict'[j] = verdict[j]
         /\ cur'[j] = cur[j] /\ tok'[j] = tok[j] /\ tally'[j] = tally[j]
         /\ result'[j] = result[j] /\ out'[j] = out[j]

\* Every action is the step of one instance or of none.
LEMMA OneMoves ==
  ASSUME TypeOK, NEW i \in Instances,
         AcquireLease(i) \/ AlreadyRunning(i) \/ Step(i) \/ StoreRaises(i) \/ Crash(i)
  PROVE  OnlyMoves(i)
<1> USE DEF TypeOK, Instances, OnlyMoves
<1>1. CASE AcquireLease(i) \/ AlreadyRunning(i) \/ StoreRaises(i) \/ ReleaseLease(i)
  BY <1>1 DEF AcquireLease, AlreadyRunning, StoreRaises, ReleaseLease
<1>2. CASE NoSteps(i) \/ LoseLease(i) \/ SaveRejected(i) \/ Finish(i) \/ Raise(i)
  BY <1>2 DEF NoSteps, LoseLease, SaveRejected, Finish, Raise, Return, DropLocals
<1>3. CASE Crash(i)
  BY <1>3 DEF Crash, DropLocals
<1>4. CASE ListByPlan(i) \/ PassOver(i)
  BY <1>4 DEF ListByPlan, PassOver
<1>5. CASE CountDone(i) \/ BeginStep(i)
  BY <1>5 DEF CountDone, BeginStep, Heartbeat
<1>6. CASE Refuse(i) \/ Compensate(i) \/ SaveError(i)
  BY <1>6 DEF Refuse, Compensate, SaveError
<1>7. CASE SaveStep(i)
  BY <1>7 DEF SaveStep
<1>8. CASE Commit(i) \/ Rollback(i)
  BY <1>8 DEF Commit, Rollback
<1> QED
  BY <1>1, <1>2, <1>3, <1>4, <1>5, <1>6, <1>7, <1>8 DEF Step

\* A move of i outside its loop, or out of it, that writes nothing.
LEMMA LeavingKeepsTx ==
  ASSUME BaseInv, TxInv, NEW i \in Instances, OnlyMoves(i),
         NEW p \in PCs \ Loop, pc' = [pc EXCEPT ![i] = p],
         p \in Open \/ pc[i] \notin Open,
         UNCHANGED <<rows, committed, writer, expired, blind, clobbered>>
  PROVE  TxInv'
<1> USE DEF BaseInv, TypeOK, Loop, Open, OnlyMoves
<1>1. WritersOpen'
  BY DEF TxInv, WritersOpen
<1>2. FreeIsCommitted' /\ DoneIsKept'
  BY DEF TxInv, FreeIsCommitted, DoneIsKept
<1>3. PlanIsWhole'
  BY DEF TxInv, PlanIsWhole, PlanCreated
<1>4. OthersClobber'
  BY DEF TxInv, OthersClobber, Outdated
<1>5. SnapshotCurrent'
  BY DEF TxInv, SnapshotCurrent, Outdated, ViewOf
<1>6. RunsOnlyUndone'
  BY DEF TxInv, RunsOnlyUndone
<1> QED
  BY <1>1, <1>2, <1>3, <1>4, <1>5, <1>6 DEF TxInv

\* A step inside the loop that writes no row.
LEMMA LoopStepKeepsTx ==
  ASSUME BaseInv, TxInv, NEW i \in Instances, OnlyMoves(i), pc[i] \in Loop,
         NEW p \in Loop, pc' = [pc EXCEPT ![i] = p],
         cur'[i] >= cur[i], cur' \in [Instances -> 1 .. Loaded + 1],
         p \in {"run", "save"} => snap[i][cur'[i]].state # "SUCCEEDED",
         UNCHANGED <<rows, committed, writer, snap, tok, expired, blind, clobbered>>
  PROVE  TxInv'
<1> USE DEF BaseInv, TypeOK, Loop, Open
<1>1. WritersOpen'
  BY DEF TxInv, WritersOpen, OnlyMoves
<1>2. FreeIsCommitted' /\ DoneIsKept'
  BY DEF TxInv, FreeIsCommitted, DoneIsKept
<1>3. PlanIsWhole'
  BY DEF TxInv, PlanIsWhole, PlanCreated
<1>4. OthersClobber'
  BY DEF TxInv, OthersClobber, Outdated
<1>5. SnapshotCurrent'
  <2> SUFFICES ASSUME NEW j \in Instances, pc'[j] \in Loop, ~Outdated(j),
                      NEW s \in Steps, s >= cur'[j]
               PROVE  snap[j][s] = ViewOf(rows[s]) \/ s \in clobbered
    BY DEF SnapshotCurrent, ViewOf, Outdated
  <2>1. pc[j] \in Loop
    BY DEF Loop
  <2>2. s >= cur[j]
    <3>1. s \in 1 .. N /\ cur[j] \in 1 .. Loaded + 1 /\ cur'[j] \in 1 .. Loaded + 1
      BY DEF Steps
    <3>2. cur'[j] >= cur[j]
      <4>1. CASE j = i
        BY <4>1
      <4>2. CASE j # i
        BY <3>1, <4>2, LoadedRange DEF OnlyMoves
      <4> QED
        BY <4>1, <4>2
    <3> QED
      BY <3>1, <3>2, LoadedRange
  <2> QED
    BY <2>1, <2>2 DEF TxInv, SnapshotCurrent
<1>6. RunsOnlyUndone'
  BY DEF TxInv, RunsOnlyUndone, OnlyMoves
<1> QED
  BY <1>1, <1>2, <1>3, <1>4, <1>5, <1>6 DEF TxInv

\* An instance with a current list never replaces a row that says succeeded.
LEMMA SaveReplaces ==
  ASSUME BaseInv, TxInv, NEW i \in Instances, SaveStep(i)
  PROVE  rows[cur[i]].state # "SUCCEEDED" \/ cur[i] \in clobbered'
<1> USE DEF BaseInv
<1>1. pc[i] = "save" /\ clobbered \subseteq clobbered' /\ (Outdated(i) => cur[i] \in clobbered')
  BY DEF SaveStep
<1>2. cur[i] \in Steps /\ cur[i] >= cur[i]
  BY <1>1, LoadedRange, ListedInPlan DEF InRange, TypeOK
<1>3. CASE ~Outdated(i)
  <2>1. snap[i][cur[i]] = ViewOf(rows[cur[i]]) \/ cur[i] \in clobbered
    BY <1>1, <1>2, <1>3 DEF TxInv, SnapshotCurrent, Loop
  <2>2. snap[i][cur[i]].state # "SUCCEEDED"
    BY <1>1 DEF TxInv, RunsOnlyUndone
  <2> QED
    BY <1>1, <2>1, <2>2 DEF ViewOf
<1> QED
  BY <1>1, <1>3

\* Writing a row: the lists of the other working instances are outdated
\* already, or the writer's is and the step is marked.
LEMMA SaveKeepsTx ==
  ASSUME BaseInv, TxInv, NEW i \in Instances, SaveStep(i)
  PROVE  TxInv'
<1> USE DEF BaseInv, Instances
<1>1. /\ pc[i] = "save" /\ pc' = [pc EXCEPT ![i] = "boundary"]
      /\ writer[cur[i]] \in {i, NoOwner}
      /\ rows' = [rows EXCEPT ![cur[i]] = SavedRow(i)]
      /\ writer' = [writer EXCEPT ![cur[i]] = i]
      /\ cur' = [cur EXCEPT ![i] = @ + 1]
      /\ UNCHANGED <<committed, snap, tok, expired, blind>>
      /\ clobbered \subseteq clobbered'
      /\ Outdated(i) => cur[i] \in clobbered'
  BY DEF SaveStep, Unlocked
<1>2. cur[i] \in Steps /\ cur[i] \in Nat /\ cur'[i] = cur[i] + 1
  BY <1>1, LoadedRange, ListedInPlan DEF InRange, TypeOK
<1>3. WritersOpen' /\ FreeIsCommitted'
  BY <1>1, <1>2, OwnersAssumption DEF TxInv, WritersOpen, FreeIsCommitted, TypeOK, Loop, Open
<1>4. PlanIsWhole'
  <2>1. SavedRow(i).state # "ABSENT"
    BY DEF SavedRow, TypeOK, Outcome, AdapterStates
  <2>2. /\ PlanCreated
        /\ \A s \in Steps : rows[s].state # "ABSENT" /\ committed[s].state # "ABSENT"
    BY <1>1, <1>2 DEF TxInv, PlanIsWhole, PlanCreated, Loop
  <2> QED
    BY <1>1, <2>1, <2>2 DEF PlanIsWhole, PlanCreated, TypeOK
<1>5. DoneIsKept'
  <2> SUFFICES ASSUME NEW s \in Steps, writer'[s] # NoOwner, committed[s].state = "SUCCEEDED"
               PROVE  s \in clobbered'
    BY <1>1 DEF DoneIsKept
  <2>1. CASE writer[s] # NoOwner
    BY <1>1, <2>1 DEF TxInv, DoneIsKept
  <2>2. CASE writer[s] = NoOwner
    <3>1. s = cur[i] /\ rows[s] = committed[s]
      BY <1>1, <2>2 DEF TxInv, FreeIsCommitted, TypeOK
    <3> QED
      BY <3>1, SaveReplaces
  <2> QED
    BY <2>1, <2>2
<1>6. ASSUME NEW j \in Instances, pc'[j] \in Loop, ~Outdated(j), j # i
      PROVE  cur[i] \in clobbered'
  <2>1. pc[j] \in Loop
    BY <1>1, <1>6 DEF TypeOK
  <2>2. tok[i] \in expired
    BY <1>1, <1>6, <2>1 DEF TenureInv, WorkerOwns, Working, Loop, Outdated
  <2> QED
    BY <1>1, <2>2 DEF Outdated
<1>7. OthersClobber'
  <2> SUFFICES ASSUME NEW j \in Instances, pc'[j] \in Loop, ~Outdated(j), NEW s \in Steps,
                      writer'[s] \notin {j, NoOwner}
               PROVE  s \in clobbered'
    BY <1>1 DEF OthersClobber, Outdated
  <2>1. pc[j] \in Loop
    BY <1>1 DEF TypeOK, Loop
  <2>2. CASE s # cur[i]
    BY <1>1, <2>1, <2>2 DEF TxInv, OthersClobber, TypeOK
  <2>3. CASE s = cur[i]
    BY <1>1, <1>2, <1>6, <2>3 DEF TypeOK
  <2> QED
    BY <2>2, <2>3
<1>8. SnapshotCurrent'
  <2> SUFFICES ASSUME NEW j \in Instances, pc'[j] \in Loop, ~Outdated(j),
                      NEW s \in Steps, s >= cur'[j]
               PROVE  snap[j][s] = ViewOf(rows'[s]) \/ s \in clobbered'
    BY <1>1 DEF SnapshotCurrent, ViewOf, Outdated
  <2>1. pc[j] \in Loop /\ s >= cur[j]
    BY <1>1, <1>2 DEF TypeOK, Loop, Steps
  <2>2. CASE s # cur[i]
    BY <1>1, <1>2, <2>1, <2>2 DEF TxInv, SnapshotCurrent, ViewOf, TypeOK
  <2>3. CASE s = cur[i]
    <3>1. i # j
      BY <1>2, <2>3 DEF Steps
    <3> QED
      BY <1>6, <2>3, <3>1
  <2> QED
    BY <2>2, <2>3
<1>9. RunsOnlyUndone'
  BY <1>1 DEF TxInv, RunsOnlyUndone, TypeOK
<1> QED
  BY <1>3, <1>4, <1>5, <1>7, <1>8, <1>9 DEF TxInv

\* The end of a transaction, by commit or by undoing what it wrote.
LEMMA EndKeepsTx ==
  ASSUME BaseInv, TxInv, NEW i \in Instances, Commit(i) \/ Rollback(i) \/ Crash(i)
  PROVE  TxInv'
<1> USE DEF BaseInv, TypeOK, Loop, Open
<1>1. /\ \E p \in {"done", "crashed"} : pc' = [pc EXCEPT ![i] = p]
      /\ UNCHANGED <<tok, expired, blind, clobbered>>
      /\ \A s \in Steps : writer'[s] = IF writer[s] = i THEN NoOwner ELSE writer[s]
  BY DEF Commit, Rollback, Crash, UndoWrites, EndTransaction, known, history
<1>2. /\ \A s \in Steps : writer[s] # i => rows'[s] = rows[s] /\ committed'[s] = committed[s]
      /\ \A s \in Steps : writer[s] = i => rows'[s] = committed'[s]
      /\ \A s \in Steps : rows'[s] \in {rows[s], committed[s]}
      /\ \A s \in Steps : committed'[s] \in {rows[s], committed[s]}
  BY DEF Commit, Rollback, Crash, UndoWrites
<1>3. OnlyMoves(i)
  BY OneMoves DEF Step
<1>4. i # NoOwner
  BY OwnersAssumption DEF Instances
<1>5. WritersOpen' /\ FreeIsCommitted'
  BY <1>1, <1>2, <1>4 DEF TxInv, WritersOpen, FreeIsCommitted
<1>6. PlanIsWhole'
  <2>1. CASE \A s \in Steps : rows[s].state # "ABSENT" /\ committed[s].state # "ABSENT"
    <3>1. \A s \in Steps : rows'[s].state # "ABSENT" /\ committed'[s].state # "ABSENT"
      BY <1>2, <2>1
    <3> QED
      BY <3>1 DEF PlanIsWhole, PlanCreated
  <2>2. CASE \A s \in Steps : /\ rows[s].state = "ABSENT" /\ committed[s].state = "ABSENT"
                              /\ writer[s] = NoOwner
    <3>1. \A s \in Steps : /\ rows'[s].state = "ABSENT" /\ committed'[s].state = "ABSENT"
                           /\ writer'[s] = NoOwner
      BY <1>1, <1>2, <1>4, <2>2
    <3>2. ~PlanCreated
      <4>1. 1 \in Steps
        BY LoadedRange DEF Steps
      <4> QED
        BY <2>2, <4>1 DEF PlanCreated
    <3>3. \A j \in Instances : pc'[j] \notin Loop
      BY <1>1, <3>2 DEF TxInv, PlanIsWhole
    <3> QED
      BY <3>1, <3>3 DEF PlanIsWhole
  <2> QED
    BY <2>1, <2>2 DEF TxInv, PlanIsWhole
<1>7. DoneIsKept'
  BY <1>1, <1>2 DEF TxInv, DoneIsKept
<1>8. OthersClobber'
  BY <1>1 DEF TxInv, OthersClobber, Outdated
<1>9. SnapshotCurrent'
  <2> SUFFICES ASSUME NEW j \in Instances, pc'[j] \in Loop, ~Outdated(j),
                      NEW s \in Steps, s >= cur'[j]
               PROVE  snap'[j][s] = ViewOf(rows'[s]) \/ s \in clobbered
    BY <1>1 DEF SnapshotCurrent, ViewOf, Outdated
  <2>1. j # i /\ pc[j] \in Loop /\ snap'[j] = snap[j] /\ cur'[j] = cur[j]
    BY <1>1, <1>3 DEF OnlyMoves
  <2>2. snap[j][s] = ViewOf(rows[s]) \/ s \in clobbered
    BY <2>1 DEF TxInv, SnapshotCurrent
  <2>3. writer[s] = i => s \in clobbered
    BY <1>4, <2>1 DEF TxInv, OthersClobber
  <2> QED
    BY <1>2, <2>1, <2>2, <2>3 DEF ViewOf
<1>10. RunsOnlyUndone'
  BY <1>1, <1>3 DEF TxInv, RunsOnlyUndone, OnlyMoves
<1> QED
  BY <1>5, <1>6, <1>7, <1>8, <1>9, <1>10 DEF TxInv

\* Every action keeps the transaction invariant.
LEMMA TxInductive == BaseInv /\ TxInv /\ [Next]_vars => TxInv'
<1> SUFFICES ASSUME BaseInv, TxInv, [Next]_vars PROVE TxInv'
  OBVIOUS
<1>0. TypeOK /\ TypeOK'
  BY TypeInductive DEF BaseInv
<1> USE DEF db, history, known, Instances
<1>1. CASE CreateDurablePlan
  <2>1. /\ UNCHANGED <<pc, snap, cur, tok, writer, expired, blind, clobbered>>
        /\ \A s \in Steps : rows'[s].state = "PENDING" /\ committed'[s] = rows'[s]
        /\ \A s \in Steps : rows[s].state = "ABSENT" /\ writer[s] = NoOwner
        /\ \A i \in Instances : pc[i] \notin Loop
    BY <1>0, <1>1 DEF CreateDurablePlan, control, TypeOK, Row, TxInv, PlanIsWhole, PlanCreated
  <2>2. WritersOpen' /\ FreeIsCommitted' /\ DoneIsKept' /\ PlanIsWhole'
    BY <2>1 DEF WritersOpen, FreeIsCommitted, DoneIsKept, PlanIsWhole, PlanCreated
  <2>3. OthersClobber' /\ SnapshotCurrent' /\ RunsOnlyUndone'
    BY <2>1 DEF OthersClobber, SnapshotCurrent, RunsOnlyUndone, Loop
  <2> QED
    BY <2>2, <2>3 DEF TxInv
<1>2. ASSUME NEW i \in Instances,
             AcquireLease(i) \/ AlreadyRunning(i) \/ StoreRaises(i) \/ ReleaseLease(i)
      PROVE  TxInv'
  <2>1. /\ pc[i] \in {"idle", "release"}
        /\ \E p \in {"list", "done", "commit"} :
             /\ pc' = [pc EXCEPT ![i] = p]
             /\ p = "commit" \/ pc[i] = "idle"
        /\ UNCHANGED <<rows, committed, writer, expired, blind, clobbered>>
    BY <1>2 DEF AcquireLease, AlreadyRunning, StoreRaises, ReleaseLease
  <2>2. PICK p \in {"list", "done", "commit"} : /\ pc' = [pc EXCEPT ![i] = p]
                                                /\ p = "commit" \/ pc[i] = "idle"
    BY <2>1
  <2>3. p \in PCs \ Loop /\ (p \in Open \/ pc[i] \notin Open)
    BY <2>2 DEF PCs, Loop, Open
  <2>4. OnlyMoves(i)
    BY <1>0, <1>2, OneMoves DEF Step
  <2> QED
    BY <2>1, <2>2, <2>3, <2>4, LeavingKeepsTx
<1>3. ASSUME NEW i \in Instances,
             NoSteps(i) \/ LoseLease(i) \/ SaveRejected(i) \/ Finish(i) \/ Raise(i)
      PROVE  TxInv'
  <2>1. /\ pc' = [pc EXCEPT ![i] = "release"]
        /\ UNCHANGED <<rows, committed, writer, expired, blind, clobbered>>
    BY <1>3 DEF NoSteps, LoseLease, SaveRejected, Finish, Raise, Return
  <2>2. "release" \in PCs \ Loop /\ "release" \in Open
    BY DEF PCs, Loop, Open
  <2>3. OnlyMoves(i)
    BY <1>0, <1>3, OneMoves DEF Step
  <2> QED
    BY <2>1, <2>2, <2>3, LeavingKeepsTx
<1>4. ASSUME NEW i \in Instances, ListByPlan(i) PROVE TxInv'
  <2>1. /\ pc[i] = "list" /\ pc' = [pc EXCEPT ![i] = "boundary"] /\ PlanCreated
        /\ snap' = [snap EXCEPT ![i] = [s \in Steps |-> ViewOf(committed[s])]]
        /\ UNCHANGED <<rows, committed, writer, cur, tok, expired, clobbered>>
        /\ \A j \in Instances \ {i} : (j \in blind') = (j \in blind)
        /\ i \in blind' \/ \A s \in Steps : writer[s] = NoOwner
    BY <1>4 DEF ListByPlan
  <2> USE <1>0 DEF TypeOK, Loop, Open
  <2>2. WritersOpen' /\ FreeIsCommitted' /\ DoneIsKept'
    BY <2>1 DEF TxInv, WritersOpen, FreeIsCommitted, DoneIsKept
  <2>3. PlanIsWhole'
    BY <2>1 DEF TxInv, PlanIsWhole, PlanCreated
  <2>4. OthersClobber'
    BY <2>1 DEF TxInv, OthersClobber, Outdated
  <2>5. SnapshotCurrent'
    <3> SUFFICES ASSUME NEW j \in Instances, pc'[j] \in Loop, ~Outdated(j)',
                        NEW s \in Steps, s >= cur[j]
                 PROVE  snap'[j][s] = ViewOf(rows[s]) \/ s \in clobbered
      BY <2>1 DEF SnapshotCurrent, ViewOf
    <3>1. CASE j = i
      <4>1. rows[s] = committed[s]
        BY <2>1, <3>1 DEF TxInv, FreeIsCommitted, Outdated
      <4> QED
        BY <2>1, <3>1, <4>1
    <3>2. CASE j # i
      BY <2>1, <3>2 DEF TxInv, SnapshotCurrent, Outdated
    <3> QED
      BY <3>1, <3>2
  <2>6. RunsOnlyUndone'
    BY <2>1 DEF TxInv, RunsOnlyUndone
  <2> QED
    BY <2>2, <2>3, <2>4, <2>5, <2>6 DEF TxInv
<1>5. ASSUME NEW i \in Instances,
             \/ PassOver(i) \/ CountDone(i) \/ BeginStep(i)
             \/ Refuse(i) \/ Compensate(i) \/ SaveError(i)
      PROVE  TxInv'
  <2>1. /\ pc[i] \in Loop
        /\ \E p \in Loop : /\ pc' = [pc EXCEPT ![i] = p]
                           /\ p \in {"run", "save"} => snap[i][cur'[i]].state # "SUCCEEDED"
    <3>1. CASE PassOver(i) \/ CountDone(i)
      BY <1>0, <3>1 DEF PassOver, CountDone, Heartbeat, AtStep, Loop, TypeOK
    <3>2. CASE BeginStep(i)
      BY <3>2 DEF BeginStep, Heartbeat, AtStep, Loop
    <3>3. CASE Refuse(i) \/ Compensate(i) \/ SaveError(i)
      BY <1>0, <3>3 DEF Refuse, Compensate, SaveError, TxInv, RunsOnlyUndone, Loop, TypeOK
    <3> QED
      BY <1>5, <3>1, <3>2, <3>3
  <2>2. UNCHANGED <<rows, committed, writer, snap, expired, blind, clobbered>>
    BY <1>5 DEF PassOver, CountDone, BeginStep, Refuse, Compensate, SaveError
  <2>3. UNCHANGED tok
    BY <1>5, HeartbeatUnexpired DEF PassOver, CountDone, BeginStep, Refuse, Compensate, SaveError,
       BaseInv
  <2>4. cur'[i] >= cur[i] /\ cur' \in [Instances -> 1 .. Loaded + 1]
    <3>1. cur'[i] = cur[i] \/ cur'[i] = cur[i] + 1
      BY <1>0, <1>5 DEF PassOver, CountDone, BeginStep, Refuse, Compensate, SaveError, TypeOK
    <3> QED
      BY <1>0, <3>1, LoadedRange DEF TypeOK
  <2>5. PICK p \in Loop : /\ pc' = [pc EXCEPT ![i] = p]
                          /\ p \in {"run", "save"} => snap[i][cur'[i]].state # "SUCCEEDED"
    BY <2>1
  <2>6. OnlyMoves(i)
    BY <1>0, <1>5, OneMoves DEF Step
  <2> QED
    BY <2>1, <2>2, <2>3, <2>4, <2>5, <2>6, LoopStepKeepsTx
<1>6. ASSUME NEW i \in Instances, SaveStep(i) PROVE TxInv'
  BY <1>6, SaveKeepsTx
<1>7. ASSUME NEW i \in Instances, Commit(i) \/ Rollback(i) \/ Crash(i) PROVE TxInv'
  BY <1>7, EndKeepsTx
<1>8. CASE LeaseLapses \/ UNCHANGED vars
  <2>1. /\ expired \subseteq expired'
        /\ UNCHANGED <<rows, committed, writer, pc, snap, cur, tok, blind, clobbered>>
    BY <1>8 DEF LeaseLapses, control, vars
  <2>2. \A i \in Instances : Outdated(i) => Outdated(i)'
    BY <2>1 DEF Outdated
  <2>3. WritersOpen' /\ FreeIsCommitted' /\ DoneIsKept' /\ PlanIsWhole' /\ RunsOnlyUndone'
    BY <2>1 DEF TxInv, WritersOpen, FreeIsCommitted, DoneIsKept, PlanIsWhole, PlanCreated,
       RunsOnlyUndone
  <2>4. OthersClobber'
    BY <2>1, <2>2 DEF TxInv, OthersClobber
  <2>5. SnapshotCurrent'
    BY <2>1, <2>2 DEF TxInv, SnapshotCurrent, ViewOf
  <2> QED
    BY <2>3, <2>4, <2>5 DEF TxInv
<1> QED
  BY <1>1, <1>2, <1>3, <1>4, <1>5, <1>6, <1>7, <1>8 DEF Next, Step

\* The transaction invariant holds in every reachable state.
LEMMA TxInvariant == Spec => [](BaseInv /\ TxInv)
<1>1. Init => TxInv
  <2> SUFFICES ASSUME Init PROVE TxInv
    OBVIOUS
  <2> USE DEF Init, Instances, Loop, Open
  <2>1. WritersOpen /\ FreeIsCommitted /\ DoneIsKept /\ RunsOnlyUndone
    BY DEF WritersOpen, FreeIsCommitted, DoneIsKept, RunsOnlyUndone
  <2>2. PlanIsWhole
    BY DEF PlanIsWhole
  <2>3. OthersClobber /\ SnapshotCurrent
    BY DEF OthersClobber, SnapshotCurrent
  <2> QED
    BY <2>1, <2>2, <2>3 DEF TxInv
<1>2. BaseInv /\ TxInv /\ [Next]_vars => TxInv'
  BY TxInductive
<1>3. Spec => []BaseInv
  BY TenureInvariant DEF BaseInv
<1> QED
  BY <1>1, <1>2, <1>3, PTL DEF Spec

-----------------------------------------------------------------------------
(***************************************************************************)
(* Verified claims.  What an instance sees as succeeded it goes on seeing  *)
(* so, through its own saves and commit and those of the others, unless an *)
(* instance with an outdated list wrote the row.  The counters of an       *)
(* execute call, and then its result, are backed by what it sees.          *)
(***************************************************************************)
Backed(s, i) ==
    \/ Seen(i, s).state = "SUCCEEDED" /\ Seen(i, s).verified
    \/ s \in clobbered

SnapshotKept(i) ==
    \A s \in Steps : snap[i][s].state = "SUCCEEDED"
                       => snap[i][s] = ViewOf(Seen(i, s)) \/ s \in clobbered

CountsBacked(i) ==
    /\ tally[i].completed <= cur[i] - 1
    /\ tally[i].completed = cur[i] - 1 /\ tally[i].unverified = 0 =>
         \A s \in Steps : s < cur[i] => Backed(s, i)

ClaimOf(i) ==
    /\ pc[i] \in Loop => SnapshotKept(i)
    /\ pc[i] \in Loop /\ mode[i] = "execute" => CountsBacked(i)
    /\ pc[i] \notin Loop => cur[i] = 1 /\ tally[i] = ZeroTally
    /\ pc[i] \in Loop \cup {"idle", "list"} => result[i].verification = "NONE"
    /\ result[i].verification = "EXECUTED_AND_VERIFIED" => \A s \in Listed : Backed(s, i)

ClaimInv == TxInv /\ \A i \in Instances : ClaimOf(i)

\* Only these actions touch the rows or the marks of outdated writes.
LEMMA RowsWritten ==
  ASSUME [Next]_vars
  PROVE  \/ CreateDurablePlan
         \/ \E j \in Instances : SaveStep(j) \/ Commit(j) \/ Rollback(j) \/ Crash(j)
         \/ UNCHANGED <<rows, committed, writer, clobbered>>
<1> DEFINE Still == UNCHANGED <<rows, committed, writer, clobbered>>
<1> USE DEF db, history, known
<1>1. LeaseLapses \/ UNCHANGED vars => Still
  BY DEF LeaseLapses, vars
<1>2. ASSUME NEW i \in Instances, AcquireLease(i) \/ AlreadyRunning(i) \/ StoreRaises(i) \/ Step(i)
      PROVE  SaveStep(i) \/ Commit(i) \/ Rollback(i) \/ Still
  <2>1. AcquireLease(i) \/ AlreadyRunning(i) \/ StoreRaises(i) \/ ReleaseLease(i) => Still
    BY DEF AcquireLease, AlreadyRunning, StoreRaises, ReleaseLease
  <2>2. NoSteps(i) \/ LoseLease(i) \/ SaveRejected(i) \/ Finish(i) \/ Raise(i) => Still
    BY DEF NoSteps, LoseLease, SaveRejected, Finish, Raise
  <2>3. ListByPlan(i) \/ PassOver(i) \/ CountDone(i) \/ BeginStep(i) => Still
    BY DEF ListByPlan, PassOver, CountDone, BeginStep
  <2>4. Refuse(i) \/ Compensate(i) \/ SaveError(i) => Still
    BY DEF Refuse, Compensate, SaveError
  <2> HIDE DEF Still
  <2> QED
    BY <1>2, <2>1, <2>2, <2>3, <2>4 DEF Step
<1> HIDE DEF Still
<1>3. \/ CreateDurablePlan \/ Still
      \/ \E j \in Instances : SaveStep(j) \/ Commit(j) \/ Rollback(j) \/ Crash(j)
  BY <1>1, <1>2 DEF Next
<1> QED
  BY <1>3 DEF Still

\* The mark of an outdated write stays.
LEMMA MarksStay == [Next]_vars => clobbered \subseteq clobbered'
<1> SUFFICES ASSUME [Next]_vars PROVE clobbered \subseteq clobbered'
  OBVIOUS
<1>1. CreateDurablePlan => clobbered' = clobbered
  BY DEF CreateDurablePlan, history
<1>2. ASSUME NEW j \in Instances, SaveStep(j) \/ Commit(j) \/ Rollback(j) \/ Crash(j)
      PROVE  clobbered \subseteq clobbered'
  BY <1>2 DEF SaveStep, Commit, Rollback, Crash, history, known
<1> QED
  BY <1>1, <1>2, RowsWritten

\* What i sees as succeeded stays as it is, or is marked, unless i itself
\* undoes its transaction.
LEMMA SeenStable ==
  ASSUME BaseInv, TxInv, [Next]_vars, NEW i \in Instances, NEW s \in Steps,
         ~Rollback(i), ~Crash(i), Seen(i, s).state = "SUCCEEDED"
  PROVE  Seen(i, s)' = Seen(i, s) \/ s \in clobbered'
<1> USE DEF BaseInv
<1>0. i # NoOwner
  BY OwnersAssumption DEF Instances
<1>1. CASE CreateDurablePlan
  <2>1. rows[s].state = "ABSENT" /\ writer[s] = NoOwner
    BY <1>1 DEF CreateDurablePlan, TxInv, PlanIsWhole, PlanCreated
  <2> QED
    BY <2>1 DEF Seen
<1>2. ASSUME NEW j \in Instances, SaveStep(j)
      PROVE  Seen(i, s)' = Seen(i, s) \/ s \in clobbered'
  <2>1. /\ rows' = [rows EXCEPT ![cur[j]] = SavedRow(j)] /\ writer' = [writer EXCEPT ![cur[j]] = j]
        /\ committed' = committed /\ writer[cur[j]] \in {j, NoOwner}
    BY <1>2 DEF SaveStep, Unlocked
  <2>2. CASE s # cur[j]
    BY <2>1, <2>2 DEF Seen, TypeOK
  <2>3. CASE s = cur[j] /\ j = i
    <3>1. Seen(i, s) = rows[s]
      BY <2>1, <2>3 DEF Seen
    <3> QED
      BY <1>2, <2>3, <3>1, SaveReplaces
  <2>4. CASE s = cur[j] /\ j # i
    <3>1. writer'[s] = j /\ j # NoOwner
      BY <2>1, <2>4, OwnersAssumption DEF TypeOK, Instances
    <3>2. Seen(i, s)' = committed[s]
      BY <2>1, <2>4, <3>1 DEF Seen
    <3>3. Seen(i, s) = committed[s]
      BY <2>1, <2>4, <3>1 DEF Seen, TxInv, FreeIsCommitted
    <3> QED
      BY <3>2, <3>3
  <2> QED
    BY <2>2, <2>3, <2>4
<1>3. ASSUME NEW j \in Instances, Commit(j)
      PROVE  Seen(i, s)' = Seen(i, s) \/ s \in clobbered'
  <2>1. /\ rows' = rows
        /\ writer'[s] = (IF writer[s] = j THEN NoOwner ELSE writer[s])
        /\ committed'[s] = (IF writer[s] = j THEN rows[s] ELSE committed[s])
    BY <1>3 DEF Commit, EndTransaction
  <2>2. CASE writer[s] # j \/ j = i
    BY <2>1, <2>2 DEF Seen
  <2>3. CASE writer[s] = j /\ j # i
    <3>1. writer[s] # NoOwner /\ committed[s].state = "SUCCEEDED"
      BY <2>3, OwnersAssumption DEF Seen, Instances
    <3> QED
      BY <3>1, MarksStay DEF TxInv, DoneIsKept
  <2> QED
    BY <2>2, <2>3
<1>4. ASSUME NEW j \in Instances, Rollback(j) \/ Crash(j)
      PROVE  Seen(i, s)' = Seen(i, s)
  <2>1. /\ rows'[s] = (IF writer[s] = j THEN committed[s] ELSE rows[s])
        /\ writer'[s] = (IF writer[s] = j THEN NoOwner ELSE writer[s])
        /\ committed' = committed /\ j # i
    BY <1>4 DEF Rollback, Crash, UndoWrites, EndTransaction
  <2>2. writer[s] = j => writer[s] # NoOwner
    BY OwnersAssumption DEF Instances
  <2> QED
    BY <2>1, <2>2 DEF Seen
<1>5. CASE UNCHANGED <<rows, committed, writer>>
  BY <1>5 DEF Seen
<1> QED
  BY <1>1, <1>2, <1>3, <1>4, <1>5, RowsWritten

\* A backed step stays backed.
LEMMA BackedStable ==
  ASSUME BaseInv, TxInv, [Next]_vars, NEW i \in Instances, NEW s \in Steps,
         ~Rollback(i), ~Crash(i), Backed(s, i)
  PROVE  Backed(s, i)'
<1>1. CASE s \in clobbered
  BY <1>1, MarksStay DEF Backed
<1>2. CASE Seen(i, s).state = "SUCCEEDED" /\ Seen(i, s).verified
  <2>1. Seen(i, s)' = Seen(i, s) \/ s \in clobbered'
    BY <1>2, SeenStable
  <2> QED
    BY <1>2, <2>1 DEF Backed
<1> QED
  BY <1>1, <1>2 DEF Backed

\* A snapshot goes on showing succeeded steps as they are seen.
LEMMA SnapshotStable ==
  ASSUME BaseInv, TxInv, [Next]_vars, NEW i \in Instances, ~Rollback(i), ~Crash(i),
         snap'[i] = snap[i], SnapshotKept(i)
  PROVE  SnapshotKept(i)'
<1> SUFFICES ASSUME NEW s \in Steps, snap[i][s].state = "SUCCEEDED"
             PROVE  snap[i][s] = ViewOf(Seen(i, s)') \/ s \in clobbered'
  BY DEF SnapshotKept, ViewOf
<1>1. CASE s \in clobbered
  BY <1>1, MarksStay
<1>2. CASE snap[i][s] = ViewOf(Seen(i, s))
  <2>1. Seen(i, s).state = "SUCCEEDED"
    BY <1>2 DEF ViewOf
  <2>2. Seen(i, s)' = Seen(i, s) \/ s \in clobbered'
    BY <2>1, SeenStable
  <2> QED
    BY <1>2, <2>2 DEF ViewOf
<1> QED
  BY <1>1, <1>2 DEF SnapshotKept

\* An instance that does not move keeps its claims.
LEMMA IdleKeepsClaim ==
  ASSUME BaseInv, TxInv, [Next]_vars, NEW i \in Instances, ClaimOf(i),
         mode' = mode, pc'[i] = pc[i], snap'[i] = snap[i], cur'[i] = cur[i],
         tally'[i] = tally[i], result'[i] = result[i]
  PROVE  ClaimOf(i)'
<1>1. ~Rollback(i) /\ ~Crash(i)
  BY DEF Rollback, Crash, BaseInv, TypeOK
<1>2. \A s \in Steps : Backed(s, i) => Backed(s, i)'
  BY <1>1, BackedStable
<1>3. SnapshotKept(i) => SnapshotKept(i)'
  BY <1>1, SnapshotStable
<1>4. CountsBacked(i) => CountsBacked(i)'
  BY <1>2 DEF CountsBacked
<1> QED
  BY <1>2, <1>3, <1>4, ListedInPlan DEF ClaimOf

\* A step that ends i's loop, or happens outside it, keeps i's claims when the
\* claim it makes, if any, is backed.
LEMMA LeavingKeepsClaim ==
  ASSUME BaseInv, TxInv, [Next]_vars, NEW i \in Instances, ~Rollback(i), ~Crash(i),
         pc'[i] \in {"release", "commit", "done"}, cur'[i] = 1, tally'[i] = ZeroTally,
         result'[i].verification = "EXECUTED_AND_VERIFIED" => \A s \in Listed : Backed(s, i)
  PROVE  ClaimOf(i)'
<1>1. \A s \in Listed : Backed(s, i) => Backed(s, i)'
  BY BackedStable, ListedInPlan
<1>2. pc'[i] \notin Loop \cup {"idle", "list"}
  BY DEF Loop
<1> QED
  BY <1>1, <1>2 DEF ClaimOf, ZeroTally

\* A step inside the loop keeps i's claims when its counters are backed.
LEMMA LoopStepKeepsClaim ==
  ASSUME BaseInv, TxInv, [Next]_vars, NEW i \in Instances, ~Rollback(i), ~Crash(i), ClaimOf(i),
         pc[i] \in Loop, pc'[i] \in Loop, snap'[i] = snap[i], result'[i] = result[i],
         mode' = mode, mode[i] = "execute" => CountsBacked(i)'
  PROVE  ClaimOf(i)'
<1>1. SnapshotKept(i)'
  BY SnapshotStable DEF ClaimOf
<1>2. result'[i].verification = "NONE"
  BY DEF ClaimOf
<1> QED
  BY <1>1, <1>2 DEF ClaimOf

\* Counting a step of an earlier run, from the snapshot.
LEMMA CountDoneKeepsClaim ==
  ASSUME BaseInv, TxInv, [Next]_vars, NEW i \in Instances, ClaimOf(i), CountDone(i)
  PROVE  ClaimOf(i)'
<1> USE DEF BaseInv
<1>1. /\ pc[i] = "boundary" /\ pc'[i] = pc[i] /\ UNCHANGED <<mode, snap, result, clobbered>>
      /\ snap[i][cur[i]].state = "SUCCEEDED" /\ UNCHANGED <<rows, committed, writer>>
  BY DEF CountDone, Heartbeat, AtStep, db, history
<1>2. cur[i] \in Steps /\ cur[i] \in Nat /\ cur'[i] = cur[i] + 1
  BY LoadedRange DEF CountDone, Heartbeat, AtStep, LoopDone, TypeOK, Steps
<1>3. /\ tally'[i].completed = tally[i].completed + 1
      /\ tally'[i].unverified = (IF snap[i][cur[i]].verified THEN tally[i].unverified
                                 ELSE tally[i].unverified + 1)
      /\ tally[i].completed \in Nat /\ tally[i].unverified \in Nat
  BY DEF CountDone, TypeOK, Tally
<1>4. ~Rollback(i) /\ ~Crash(i)
  BY <1>1 DEF Rollback, Crash, TypeOK
<1>5. \A s \in Steps : Backed(s, i)' <=> Backed(s, i)
  BY <1>1 DEF Backed, Seen
<1>6. ASSUME mode[i] = "execute" PROVE CountsBacked(i)'
  <2>1. CountsBacked(i) /\ SnapshotKept(i)
    BY <1>1, <1>6 DEF ClaimOf, Loop
  <2>2. ASSUME tally'[i].completed = cur'[i] - 1, tally'[i].unverified = 0,
               NEW s \in Steps, s < cur'[i]
        PROVE  Backed(s, i)
    <3>1. tally[i].completed = cur[i] - 1 /\ tally[i].unverified = 0
      BY <1>2, <1>3, <2>2
    <3>2. snap[i][cur[i]].verified
      BY <1>3, <2>2
    <3>3. snap[i][cur[i]] = ViewOf(Seen(i, cur[i])) \/ cur[i] \in clobbered
      BY <1>1, <1>2, <2>1 DEF SnapshotKept
    <3>4. Backed(cur[i], i)
      BY <1>1, <3>2, <3>3 DEF Backed, ViewOf
    <3>5. CASE s < cur[i]
      BY <2>1, <3>1, <3>5 DEF CountsBacked
    <3> QED
      BY <1>2, <2>2, <3>4, <3>5 DEF Steps
  <2>3. tally'[i].completed <= cur'[i] - 1
    BY <1>2, <1>3, <2>1 DEF CountsBacked
  <2> QED
    BY <1>5, <2>2, <2>3 DEF CountsBacked
<1> QED
  BY <1>1, <1>4, <1>6, LoopStepKeepsClaim DEF Loop

\* Counting the step i has just saved.
LEMMA SaveKeepsClaim ==
  ASSUME BaseInv, TxInv, [Next]_vars, NEW i \in Instances, ClaimOf(i), SaveStep(i)
  PROVE  ClaimOf(i)'
<1> USE DEF BaseInv
<1>1. /\ pc[i] = "save" /\ pc'[i] = "boundary" /\ UNCHANGED <<mode, snap, result>>
      /\ rows' = [rows EXCEPT ![cur[i]] = SavedRow(i)]
      /\ writer' = [writer EXCEPT ![cur[i]] = i]
  BY DEF SaveStep, TypeOK
<1>2. cur[i] \in Steps /\ cur[i] \in Nat /\ cur'[i] = cur[i] + 1
  BY <1>1, LoadedRange, ListedInPlan DEF SaveStep, InRange, TypeOK
<1>3. /\ tally'[i] = CountOutcome(tally[i], i)
      /\ tally[i].completed \in Nat /\ tally[i].unverified \in Nat
  BY DEF SaveStep, TypeOK, Tally
<1>4. ~Rollback(i) /\ ~Crash(i)
  BY <1>1 DEF Rollback, Crash, TypeOK
<1>5. ASSUME mode[i] = "execute" PROVE CountsBacked(i)'
  <2>1. CountsBacked(i)
    BY <1>1, <1>5 DEF ClaimOf, Loop
  <2>2. tally'[i].completed <= cur'[i] - 1
    BY <1>2, <1>3, <2>1 DEF CountsBacked, CountOutcome
  <2>3. ASSUME tally'[i].completed = cur'[i] - 1, tally'[i].unverified = 0,
               NEW s \in Steps, s < cur'[i]
        PROVE  Backed(s, i)'
    <3>1. out[i].state = "SUCCEEDED" /\ tally[i].completed = cur[i] - 1
      BY <1>2, <1>3, <2>1, <2>3 DEF CountOutcome, CountsBacked
    <3>2. out[i].verified = TRUE /\ tally[i].unverified = 0
      <4>1. out[i].verified \in BOOLEAN
        BY DEF TypeOK, Outcome
      <4> QED
        BY <1>3, <2>3, <3>1, <4>1 DEF CountOutcome
    <3>3. CASE s < cur[i]
      <4>1. Backed(s, i)
        BY <2>1, <3>1, <3>2, <3>3 DEF CountsBacked
      <4> QED
        BY <1>4, <4>1, BackedStable
    <3>4. CASE s = cur[i]
      <4>1. rows'[s] = SavedRow(i) /\ writer'[s] = i
        BY <1>1, <1>2, <3>4 DEF TypeOK
      <4> QED
        BY <3>1, <3>2, <4>1 DEF Backed, Seen, SavedRow
    <3> QED
      BY <1>2, <2>3, <3>3, <3>4 DEF Steps
  <2> QED
    BY <2>2, <2>3 DEF CountsBacked
<1> QED
  BY <1>1, <1>4, <1>5, LoopStepKeepsClaim DEF Loop

\* The loop ends: only a full count of verified steps is a verified claim.
LEMMA FinishKeepsClaim ==
  ASSUME BaseInv, TxInv, [Next]_vars, NEW i \in Instances, ClaimOf(i), Finish(i)
  PROVE  ClaimOf(i)'
<1> USE DEF BaseInv
<1>1. /\ pc[i] = "boundary" /\ pc'[i] = "release" /\ cur'[i] = 1 /\ tally'[i] = ZeroTally
      /\ result'[i].verification = "EXECUTED_AND_VERIFIED"
           => /\ mode[i] = "execute" /\ tally[i].completed = Loaded
              /\ tally[i].unverified = 0
  BY DEF Finish, Return, DropLocals, AllSucceeded, TypeOK
<1>2. ~Rollback(i) /\ ~Crash(i)
  BY <1>1 DEF Rollback, Crash, TypeOK
<1>3. ASSUME mode[i] = "execute", tally[i].completed = Loaded, tally[i].unverified = 0
      PROVE  \A s \in Listed : Backed(s, i)
  <2>1. CountsBacked(i)
    BY <1>1, <1>3 DEF ClaimOf, Loop
  <2>2. cur[i] = Loaded + 1
    BY <1>3, <2>1, LoadedRange DEF CountsBacked, TypeOK
  <2>3. \A s \in Steps : s < cur[i] => Backed(s, i)
    BY <1>3, <2>1, <2>2, LoadedRange DEF CountsBacked
  <2> QED
    BY <2>2, <2>3, LoadedRange, ListedInPlan DEF Listed
<1> QED
  BY <1>1, <1>2, <1>3, LeavingKeepsClaim

\* What i lists is what it then sees: it has written nothing yet.
LEMMA ListSees ==
  ASSUME BaseInv, TxInv, NEW i \in Instances, ListByPlan(i), NEW s \in Steps
  PROVE  Seen(i, s)' = committed[s]
<1>1. pc[i] = "list" /\ UNCHANGED <<rows, committed, writer>>
  BY DEF ListByPlan, db
<1>2. writer[s] # i
  BY <1>1, OwnersAssumption DEF TxInv, WritersOpen, Open, Loop, Instances
<1> QED
  BY <1>1, <1>2 DEF Seen, TxInv, FreeIsCommitted

\* Listing the rows: the snapshot shows what i sees.
LEMMA ListKeepsClaim ==
  ASSUME BaseInv, TxInv, [Next]_vars, NEW i \in Instances, ClaimOf(i), ListByPlan(i)
  PROVE  ClaimOf(i)'
<1> USE DEF BaseInv
<1>1. /\ pc[i] = "list" /\ pc'[i] = "boundary"
      /\ snap'[i] = [s \in Steps |-> ViewOf(committed[s])]
      /\ mode[i] = "execute" => tally'[i] = tally[i]
      /\ UNCHANGED <<rows, committed, writer, mode, cur, result>>
  BY DEF ListByPlan, TypeOK, db
<1>2. cur[i] = 1 /\ tally[i] = ZeroTally /\ result[i].verification = "NONE"
  BY <1>1 DEF ClaimOf, Loop
<1>3. \A s \in Steps : Seen(i, s)' = committed[s]
  BY ListSees
<1>4. SnapshotKept(i)'
  BY <1>1, <1>3 DEF SnapshotKept
<1>5. mode[i] = "execute" => CountsBacked(i)'
  BY <1>1, <1>2 DEF CountsBacked, ZeroTally, Steps
<1> QED
  BY <1>1, <1>2, <1>4, <1>5 DEF ClaimOf, Loop

\* Every action keeps the claim invariant.
LEMMA ClaimInductive == BaseInv /\ ClaimInv /\ [Next]_vars => ClaimInv'
<1> SUFFICES ASSUME BaseInv, ClaimInv, [Next]_vars PROVE ClaimInv'
  OBVIOUS
<1>0. TypeOK /\ TxInv /\ TxInv' /\ \A j \in Instances : ClaimOf(j)
  BY TxInductive DEF BaseInv, ClaimInv
<1>1. CASE CreateDurablePlan \/ LeaseLapses \/ UNCHANGED vars
  <2>1. UNCHANGED control
    BY <1>1 DEF CreateDurablePlan, LeaseLapses, vars
  <2> QED
    BY <1>0, <2>1, IdleKeepsClaim DEF ClaimInv, control
<1>2. ASSUME NEW i \in Instances,
             AcquireLease(i) \/ AlreadyRunning(i) \/ Step(i) \/ StoreRaises(i) \/ Crash(i)
      PROVE  ClaimInv'
  <2>1. \A j \in Instances \ {i} : ClaimOf(j)'
    BY <1>0, <1>2, OneMoves, IdleKeepsClaim DEF OnlyMoves
  <2> SUFFICES ClaimOf(i)'
    BY <1>0, <2>1 DEF ClaimInv
  <2> USE <1>0 DEF TypeOK
  <2>2. CASE AcquireLease(i)
    <3>1. /\ pc[i] = "idle" /\ pc'[i] = "list" /\ UNCHANGED <<mode, snap, cur, tally, result>>
      BY <2>2 DEF AcquireLease
    <3> QED
      BY <3>1 DEF ClaimOf, Loop
  <2>3. CASE AlreadyRunning(i) \/ StoreRaises(i) \/ ReleaseLease(i) \/ Commit(i)
    <3>1. /\ pc[i] \in {"idle", "release", "commit"} /\ pc'[i] \in {"release", "commit", "done"}
          /\ UNCHANGED <<cur, tally>>
          /\ pc'[i] = "commit" => pc[i] = "release"
          /\ result'[i].verification \in {result[i].verification, "NONE"}
      BY <2>3 DEF AlreadyRunning, StoreRaises, Raised, ReleaseLease, Commit, Result
    <3>2. ~Rollback(i) /\ ~Crash(i)
      BY <2>3 DEF AlreadyRunning, StoreRaises, ReleaseLease, Commit, Rollback, Crash, Raised
    <3>3. cur[i] = 1 /\ tally[i] = ZeroTally
      BY <3>1 DEF ClaimOf, Loop
    <3> QED
      BY <3>1, <3>2, <3>3, LeavingKeepsClaim DEF ClaimOf
  <2>4. CASE NoSteps(i) \/ LoseLease(i) \/ SaveRejected(i) \/ Raise(i)
    <3>1. /\ pc'[i] = "release" /\ cur'[i] = 1 /\ tally'[i] = ZeroTally
          /\ result'[i].verification # "EXECUTED_AND_VERIFIED"
      BY <2>4 DEF NoSteps, LoseLease, SaveRejected, Raise, Return, DropLocals
    <3>2. ~Rollback(i) /\ ~Crash(i)
      BY <3>1 DEF Rollback, Crash
    <3> QED
      BY <3>1, <3>2, LeavingKeepsClaim
  <2>5. CASE Rollback(i) \/ Crash(i)
    <3>1. /\ pc'[i] \in {"done", "crashed"} /\ result'[i].verification = "NONE"
          /\ \/ cur'[i] = 1 /\ tally'[i] = ZeroTally
             \/ pc[i] = "commit" /\ UNCHANGED <<cur, tally>>
      BY <2>5 DEF Rollback, Raised, Crash, DropLocals
    <3> QED
      BY <3>1 DEF ClaimOf, Loop
  <2>6. CASE PassOver(i)
    <3>1. /\ pc[i] = "boundary" /\ pc'[i] = pc[i] /\ mode[i] # "execute"
          /\ UNCHANGED <<snap, result, mode>>
      BY <2>6 DEF PassOver, AtStep, ResumeSkips
    <3>2. ~Rollback(i) /\ ~Crash(i)
      BY <3>1 DEF Rollback, Crash
    <3> QED
      BY <3>1, <3>2, LoopStepKeepsClaim DEF Loop
  <2>7. CASE BeginStep(i) \/ Refuse(i) \/ Compensate(i) \/ SaveError(i)
    <3>1. /\ pc[i] \in Loop /\ pc'[i] \in {"run", "save"}
          /\ UNCHANGED <<snap, result, mode, cur, tally, rows, committed, writer, clobbered>>
      BY <2>7 DEF BeginStep, Heartbeat, AtStep, Refuse, Compensate, SaveError, Loop, db, history, known
    <3>2. ~Rollback(i) /\ ~Crash(i) /\ pc'[i] \in Loop
      BY <3>1 DEF Rollback, Crash, Loop
    <3>3. \A s \in Steps : Backed(s, i)' <=> Backed(s, i)
      BY <3>1 DEF Backed, Seen
    <3>4. mode[i] = "execute" => CountsBacked(i)'
      BY <3>1, <3>3 DEF ClaimOf, CountsBacked
    <3> QED
      BY <3>1, <3>2, <3>4, LoopStepKeepsClaim
  <2> QED
    BY <1>2, <2>2, <2>3, <2>4, <2>5, <2>6, <2>7, CountDoneKeepsClaim, SaveKeepsClaim,
       FinishKeepsClaim, ListKeepsClaim DEF Step
<1> QED
  BY <1>1, <1>2 DEF Next

\* The claim invariant holds in every reachable state.
LEMMA ClaimInvariant == Spec => [](BaseInv /\ ClaimInv)
<1>1. Init => \A i \in Instances : ClaimOf(i)
  <2> SUFFICES ASSUME Init, NEW i \in Instances PROVE ClaimOf(i)
    OBVIOUS
  <2>1. pc[i] = "idle" /\ cur[i] = 1 /\ tally[i] = ZeroTally /\ result[i].verification = "NONE"
    BY DEF Init
  <2> QED
    BY <2>1 DEF ClaimOf, Loop
<1>2. BaseInv /\ ClaimInv /\ [Next]_vars => ClaimInv'
  BY ClaimInductive
<1> QED
  BY <1>1, <1>2, TxInvariant, PTL DEF Spec, ClaimInv

\* An EXECUTED_AND_VERIFIED result is backed by the durable rows for good.
THEOREM VerifiedClaimsStand == Spec => []VerifiedClaimStands
<1>1. BaseInv /\ ClaimInv => VerifiedClaimStands
  BY DEF ClaimInv, ClaimOf, VerifiedClaimStands, Backed
<1> QED
  BY <1>1, ClaimInvariant, PTL

-----------------------------------------------------------------------------
(***************************************************************************)
(* Completed claims.  execute counts a step when its loop passes it; a     *)
(* resume counts the steps already done when it lists them, and the others *)
(* when its loop passes them.  Either way the counter never exceeds the    *)
(* number of listed steps that are accounted for and were counted, so a    *)
(* counter that reaches Loaded accounts for all of them.                   *)
(***************************************************************************)
Accounted(s, i) ==
    Seen(i, s).state = "SUCCEEDED" \/ s \in verdict[i] \/ s \in clobbered

Counted(i) ==
    {s \in Listed : /\ Accounted(s, i)
                    /\ \/ s < cur[i]
                       \/ mode[i] = "resume" /\ snap[i][s].state = "SUCCEEDED"}

VerdictOpen(i) ==
    \A s \in verdict[i] : s \in Listed /\ snap[i][s].state = "UNKNOWN_EXTERNAL_OUTCOME"

CompletedOf(i) ==
    /\ pc[i] \in {"idle", "list"} => verdict[i] = {}
    /\ pc[i] \in Loop \cup {"idle", "list"} => result[i].status = "none"
    /\ pc[i] \in Loop => VerdictOpen(i) /\ tally[i].completed <= Cardinality(Counted(i))
    /\ result[i].status = "completed" => \A s \in Listed : Accounted(s, i)

CompletedInv == \A i \in Instances : CompletedOf(i)

\* What counting needs of sets of listed steps: a larger set counts more, and
\* only the set of all of them counts Loaded.
LEMMA CountingListed ==
  ASSUME NEW S \in SUBSET Listed, NEW T \in SUBSET Listed, S \subseteq T
  PROVE  /\ Cardinality(S) \in Nat /\ Cardinality(T) \in Nat
         /\ Cardinality(S) <= Cardinality(T)
         /\ \A c \in T : c \notin S => Cardinality(S) + 1 <= Cardinality(T)
         /\ Cardinality(S) <= Loaded
         /\ Cardinality(S) = Loaded => S = Listed
<1>1. IsFiniteSet(Listed) /\ Cardinality(Listed) = Loaded
  BY FS_Interval, LoadedRange DEF Listed
<1>2. IsFiniteSet(S) /\ IsFiniteSet(T)
  BY <1>1, FS_Subset
<1>3. Cardinality(S) \in Nat /\ Cardinality(T) \in Nat /\ Cardinality(S) <= Cardinality(T)
  BY <1>2, FS_Subset, FS_CardinalityType
<1>4. ASSUME NEW c \in T, c \notin S PROVE Cardinality(S) + 1 <= Cardinality(T)
  <2>1. Cardinality(S \cup {c}) = Cardinality(S) + 1
    BY <1>2, <1>4, FS_AddElement
  <2>2. S \cup {c} \in SUBSET T
    BY <1>4
  <2>3. Cardinality(S \cup {c}) <= Cardinality(T)
    BY <1>2, <2>2, FS_Subset
  <2> QED
    BY <2>1, <2>3
<1>5. Cardinality(S) <= Loaded /\ (Cardinality(S) = Loaded => S = Listed)
  BY <1>1, FS_Subset
<1> QED
  BY <1>3, <1>4, <1>5

\* A step once accounted for stays so while the verdicts are what they were and
\* i does not undo its transaction, and once counted it stays counted.
LEMMA CountedGrows ==
  ASSUME BaseInv, ClaimInv, [Next]_vars, NEW i \in Instances, ~Rollback(i), ~Crash(i),
         verdict'[i] = verdict[i]
  PROVE  /\ \A s \in Listed : Accounted(s, i) => Accounted(s, i)'
         /\ cur'[i] >= cur[i] /\ cur'[i] \in 1 .. Loaded + 1 /\ snap'[i] = snap[i] /\ mode' = mode
              => Counted(i) \subseteq Counted(i)'
<1>1. ASSUME NEW s \in Listed, Accounted(s, i) PROVE Accounted(s, i)'
  <2>1. s \in Steps
    BY ListedInPlan
  <2>2. Seen(i, s).state = "SUCCEEDED" => Seen(i, s)' = Seen(i, s) \/ s \in clobbered'
    BY <2>1, SeenStable DEF ClaimInv
  <2> QED
    BY <1>1, <2>2, MarksStay DEF Accounted
<1>2. ASSUME cur'[i] >= cur[i], cur'[i] \in 1 .. Loaded + 1, snap'[i] = snap[i], mode' = mode,
             NEW s \in Counted(i)
      PROVE  s \in Counted(i)'
  <2>1. s \in Listed /\ Accounted(s, i)'
    BY <1>1, <1>2 DEF Counted
  <2>2. s < cur[i] => s < cur'[i]
    BY <1>2, <2>1, LoadedRange DEF BaseInv, TypeOK, Listed
  <2>3. s < cur'[i] \/ (mode'[i] = "resume" /\ snap'[i][s].state = "SUCCEEDED")
    BY <1>2, <2>2 DEF Counted
  <2> QED
    BY <2>1, <2>3 DEF Counted
<1> QED
  BY <1>1, <1>2

\* A step that keeps i where it is or moves it within its loop, counting at most
\* one step that was not counted before, keeps i's part of the invariant.
LEMMA CountingKeepsCompleted ==
  ASSUME BaseInv, ClaimInv, [Next]_vars, NEW i \in Instances, CompletedOf(i),
         ~Rollback(i), ~Crash(i), mode' = mode, verdict'[i] = verdict[i], result'[i] = result[i],
         pc'[i] = pc[i] \/ (pc[i] \in Loop /\ pc'[i] \in Loop),
         pc'[i] \in Loop => /\ snap'[i] = snap[i]
                            /\ cur'[i] >= cur[i]
                            /\ \/ tally'[i].completed = tally[i].completed
                               \/ /\ tally'[i].completed = tally[i].completed + 1
                                  /\ \E c \in Counted(i)' : c \notin Counted(i)
  PROVE  CompletedOf(i)'
<1>0. TypeOK /\ TypeOK'
  BY TypeInductive DEF BaseInv
<1>1. \A s \in Listed : Accounted(s, i) => Accounted(s, i)'
  BY CountedGrows
<1>2. ASSUME pc'[i] \in Loop
      PROVE  VerdictOpen(i)' /\ tally'[i].completed <= Cardinality(Counted(i)')
  <2>1. pc[i] \in Loop /\ VerdictOpen(i) /\ tally[i].completed <= Cardinality(Counted(i))
    BY <1>2 DEF CompletedOf
  <2>2. VerdictOpen(i)'
    BY <1>2, <2>1 DEF VerdictOpen
  <2>3. Counted(i) \subseteq Counted(i)'
    BY <1>0, <1>2, CountedGrows DEF TypeOK
  <2>4. Counted(i) \in SUBSET Listed /\ Counted(i)' \in SUBSET Listed
    BY DEF Counted
  <2>5. tally[i].completed \in Nat
    BY <1>0 DEF TypeOK, Tally
  <2> HIDE DEF Counted
  <2>6. /\ Cardinality(Counted(i)) \in Nat /\ Cardinality(Counted(i)') \in Nat
        /\ Cardinality(Counted(i)) <= Cardinality(Counted(i)')
        /\ \A c \in Counted(i)' : c \notin Counted(i) =>
             Cardinality(Counted(i)) + 1 <= Cardinality(Counted(i)')
    BY <2>3, <2>4, CountingListed
  <2>7. tally'[i].completed <= Cardinality(Counted(i)')
    BY <1>2, <2>1, <2>5, <2>6
  <2> QED
    BY <2>2, <2>7
<1>3. pc'[i] \in {"idle", "list"} => verdict'[i] = {}
  BY DEF CompletedOf, Loop
<1>4. pc'[i] \in Loop \cup {"idle", "list"} => result'[i].status = "none"
  BY DEF CompletedOf
<1>5. result'[i].status = "completed" => \A s \in Listed : Accounted(s, i)'
  BY <1>1 DEF CompletedOf
<1> QED
  BY <1>2, <1>3, <1>4, <1>5 DEF CompletedOf

\* A step that ends i's call keeps i's part of the invariant when a completed
\* result accounts for every listed step.
LEMMA LeavingKeepsCompleted ==
  ASSUME BaseInv, ClaimInv, [Next]_vars, NEW i \in Instances,
         pc'[i] \in {"release", "commit", "done"}, ~Rollback(i), ~Crash(i),
         verdict'[i] = verdict[i],
         result'[i].status = "completed" => \A s \in Listed : Accounted(s, i)
  PROVE  CompletedOf(i)'
<1>1. \A s \in Listed : Accounted(s, i) => Accounted(s, i)'
  BY CountedGrows
<1>2. pc'[i] \notin Loop \cup {"idle", "list"}
  BY DEF Loop
<1> QED
  BY <1>1, <1>2 DEF CompletedOf

\* An instance that does not move keeps its part of the invariant.
LEMMA IdleKeepsCompleted ==
  ASSUME BaseInv, ClaimInv, [Next]_vars, NEW j \in Instances, CompletedOf(j),
         mode' = mode, pc'[j] = pc[j], snap'[j] = snap[j], verdict'[j] = verdict[j],
         cur'[j] = cur[j], tally'[j] = tally[j], result'[j] = result[j]
  PROVE  CompletedOf(j)'
<1>1. cur'[j] >= cur[j]
  BY LoadedRange DEF BaseInv, TypeOK
<1>2. ~Rollback(j) /\ ~Crash(j)
  BY DEF Rollback, Crash, BaseInv, TypeOK
<1> QED
  BY <1>1, <1>2, CountingKeepsCompleted

\* The loop of i passes a step that it counts, or does not count.
LEMMA PassingKeepsCompleted ==
  ASSUME BaseInv, ClaimInv, [Next]_vars, NEW i \in Instances, CompletedOf(i),
         PassOver(i) \/ CountDone(i)
  PROVE  CompletedOf(i)'
<1>0. TypeOK /\ TypeOK'
  BY TypeInductive DEF BaseInv
<1> USE DEF Instances
<1>1. /\ AtStep(i) /\ pc'[i] = pc[i] /\ pc[i] \in Loop /\ cur'[i] = cur[i] + 1
      /\ UNCHANGED <<rows, committed, writer, mode, snap, verdict, result, clobbered>>
  BY <1>0 DEF PassOver, CountDone, Heartbeat, AtStep, Loop, TypeOK, db, history
<1>2. ~Rollback(i) /\ ~Crash(i)
  BY <1>0, <1>1 DEF AtStep, Rollback, Crash, TypeOK
<1>3. cur[i] \in Listed /\ cur'[i] >= cur[i]
  BY <1>0, <1>1, LoadedRange DEF AtStep, LoopDone, Listed, TypeOK
<1>4. PICK c \in Listed : c = cur[i]
  BY <1>3
<1>5. ASSUME Accounted(c, i)',
             mode[i] = "execute" \/ snap[i][cur[i]].state # "SUCCEEDED"
      PROVE  \E d \in Counted(i)' : d \notin Counted(i)
  <2>1. c \in Counted(i)'
    BY <1>1, <1>4, <1>5, LoadedRange DEF Counted, Listed
  <2>2. c \notin Counted(i)
    BY <1>4, <1>5, LoadedRange DEF Counted, Listed
  <2> QED
    BY <2>1, <2>2
<1>6. CASE PassOver(i)
  <2>1. CASE cur[i] \in verdict[i]
    <3>1. snap[i][cur[i]].state # "SUCCEEDED"
      BY <1>1, <2>1 DEF CompletedOf, VerdictOpen
    <3>2. Accounted(c, i)'
      BY <1>1, <1>4, <2>1 DEF Accounted
    <3>3. tally'[i].completed = tally[i].completed + 1
      BY <1>0, <1>6, <2>1 DEF PassOver, TypeOK, Tally
    <3> QED
      BY <1>1, <1>2, <1>3, <1>5, <3>1, <3>2, <3>3, CountingKeepsCompleted
  <2>2. CASE cur[i] \notin verdict[i]
    <3>1. tally'[i].completed = tally[i].completed
      BY <1>0, <1>6, <2>2 DEF PassOver, TypeOK, Tally
    <3> QED
      BY <1>1, <1>2, <1>3, <3>1, CountingKeepsCompleted
  <2> QED
    BY <2>1, <2>2
<1>7. CASE CountDone(i)
  <2>1. mode[i] = "execute" /\ snap[i][cur[i]].state = "SUCCEEDED"
    BY <1>0, <1>7 DEF CountDone, Heartbeat, ResumeSkips, TypeOK
  <2>2. cur[i] \in Steps
    BY <1>3, ListedInPlan
  <2>3. snap[i][cur[i]] = ViewOf(Seen(i, cur[i])) \/ cur[i] \in clobbered
    BY <1>1, <2>1, <2>2 DEF ClaimInv, ClaimOf, SnapshotKept
  <2>4. Accounted(c, i)
    BY <1>4, <2>1, <2>3 DEF Accounted, ViewOf
  <2>5. Accounted(c, i)'
    BY <1>1, <1>2, <2>4, CountedGrows
  <2>6. tally'[i].completed = tally[i].completed + 1
    BY <1>0, <1>7 DEF CountDone, TypeOK, Tally
  <2> QED
    BY <1>1, <1>2, <1>3, <1>5, <2>1, <2>5, <2>6, CountingKeepsCompleted
<1> QED
  BY <1>6, <1>7

\* Saving a step counts it only if it succeeded, and it was not counted before.
LEMMA SavingKeepsCompleted ==
  ASSUME BaseInv, ClaimInv, [Next]_vars, NEW i \in Instances, CompletedOf(i), SaveStep(i)
  PROVE  CompletedOf(i)'
<1>0. TypeOK /\ TypeOK' /\ cur[i] \in Listed
  BY TypeInductive DEF BaseInv, InRange, SaveStep
<1> USE DEF Instances
<1>1. /\ pc[i] = "save" /\ pc'[i] = "boundary" /\ cur'[i] = cur[i] + 1
      /\ rows' = [rows EXCEPT ![cur[i]] = SavedRow(i)]
      /\ writer' = [writer EXCEPT ![cur[i]] = i]
      /\ tally'[i] = CountOutcome(tally[i], i)
      /\ UNCHANGED <<mode, snap, verdict, result>>
  BY <1>0 DEF SaveStep, TypeOK
<1>6. ~Rollback(i) /\ ~Crash(i)
  BY <1>0, <1>1 DEF Rollback, Crash, TypeOK
<1>2. pc[i] \in Loop /\ pc'[i] \in Loop /\ cur'[i] >= cur[i]
  BY <1>0, <1>1, LoadedRange DEF Loop, TypeOK
<1>3. PICK c \in Listed : c = cur[i]
  BY <1>0
<1>4. CASE out[i].state # "SUCCEEDED"
  <2>1. tally'[i].completed = tally[i].completed
    BY <1>1, <1>4 DEF CountOutcome
  <2> QED
    BY <1>1, <1>2, <1>6, <2>1, CountingKeepsCompleted
<1>5. CASE out[i].state = "SUCCEEDED"
  <2>1. tally'[i].completed = tally[i].completed + 1
    BY <1>1, <1>5 DEF CountOutcome
  <2>2. rows'[c].state = "SUCCEEDED" /\ writer'[c] = i
    BY <1>0, <1>1, <1>3, <1>5, ListedInPlan DEF SavedRow, TypeOK
  <2>3. c \in Counted(i)'
    BY <1>1, <1>3, <2>2, LoadedRange DEF Counted, Accounted, Seen, Listed
  <2>4. snap[i][c].state # "SUCCEEDED"
    BY <1>1, <1>3 DEF ClaimInv, TxInv, RunsOnlyUndone
  <2>5. c \notin Counted(i)
    BY <1>3, <2>4, LoadedRange DEF Counted, Listed
  <2> QED
    BY <1>1, <1>2, <1>6, <2>1, <2>3, <2>5, CountingKeepsCompleted
<1> QED
  BY <1>4, <1>5

\* Listing the rows: a resume counts exactly those that say SUCCEEDED.
LEMMA ListingKeepsCompleted ==
  ASSUME BaseInv, ClaimInv, [Next]_vars, NEW i \in Instances, CompletedOf(i), ListByPlan(i)
  PROVE  CompletedOf(i)'
<1>0. TypeOK /\ TypeOK'
  BY TypeInductive DEF BaseInv
<1> USE DEF Instances
<1>1. /\ pc[i] = "list" /\ pc'[i] = "boundary" /\ UNCHANGED <<mode, cur, result>>
      /\ \A s \in Steps : snap'[i][s].state = committed[s].state
      /\ \A s \in Steps : Seen(i, s)' = committed[s]
  BY <1>0, ListSees DEF ListByPlan, TypeOK, ViewOf, ClaimInv
<1>2. verdict[i] = {} /\ result[i].status = "none" /\ tally[i] = ZeroTally
  BY <1>1 DEF CompletedOf, ClaimInv, ClaimOf, Loop
<1>3. Counted(i)' \in SUBSET Listed
  BY DEF Counted
<1>4. CASE mode[i] = "execute"
  <2>1. verdict'[i] = {} /\ tally'[i].completed = 0
    BY <1>2, <1>4 DEF ListByPlan, ZeroTally
  <2>2. VerdictOpen(i)'
    BY <2>1 DEF VerdictOpen
  <2>3. Cardinality(Counted(i)') \in Nat
    BY <1>3, CountingListed
  <2> QED
    BY <1>1, <1>2, <2>1, <2>2, <2>3 DEF CompletedOf
<1>5. CASE mode[i] = "resume"
  <2> DEFINE D == {s \in Listed : committed[s].state = "SUCCEEDED"}
  <2>1. /\ verdict'[i] \subseteq {s \in Listed : committed[s].state = "UNKNOWN_EXTERNAL_OUTCOME"}
        /\ tally'[i].completed = Cardinality(D)
    BY <1>0, <1>5 DEF ListByPlan, TypeOK, Tally
  <2>2. VerdictOpen(i)'
    BY <1>1, <2>1, ListedInPlan DEF VerdictOpen
  <2>3. D \in SUBSET Listed /\ D \subseteq Counted(i)'
    BY <1>1, <1>5, ListedInPlan DEF Counted, Accounted
  <2> HIDE DEF D
  <2>4. Cardinality(D) <= Cardinality(Counted(i)')
    BY <1>3, <2>3, CountingListed
  <2> QED
    BY <1>1, <1>2, <2>1, <2>2, <2>4 DEF CompletedOf, Loop
<1> QED
  BY <1>0, <1>4, <1>5 DEF TypeOK

\* A loop that counted Loaded steps accounts for all the listed ones.
LEMMA FinishingKeepsCompleted ==
  ASSUME BaseInv, ClaimInv, [Next]_vars, NEW i \in Instances, CompletedOf(i), Finish(i)
  PROVE  CompletedOf(i)'
<1>1. /\ pc[i] = "boundary" /\ pc'[i] = "release" /\ UNCHANGED verdict
      /\ result'[i].status = "completed" => tally[i].completed = Loaded
  BY DEF Finish, Return, AllSucceeded, BaseInv, TypeOK, Instances
<1>3. ~Rollback(i) /\ ~Crash(i)
  BY <1>1 DEF Rollback, Crash, BaseInv, TypeOK
<1>2. ASSUME tally[i].completed = Loaded PROVE \A s \in Listed : Accounted(s, i)
  <2>1. Loaded <= Cardinality(Counted(i))
    BY <1>1, <1>2 DEF CompletedOf, Loop
  <2>2. Counted(i) \in SUBSET Listed
    BY DEF Counted
  <2>3. Counted(i) = Listed
    BY <2>1, <2>2, CountingListed, LoadedRange
  <2> QED
    BY <2>3 DEF Counted
<1> QED
  BY <1>1, <1>2, <1>3, LeavingKeepsCompleted

\* Every action keeps the completed claims accounted for.
LEMMA CompletedInductive ==
  BaseInv /\ ClaimInv /\ CompletedInv /\ [Next]_vars => CompletedInv'
<1> SUFFICES ASSUME BaseInv, ClaimInv, CompletedInv, [Next]_vars PROVE CompletedInv'
  OBVIOUS
<1>0. TypeOK /\ \A j \in Instances : CompletedOf(j)
  BY DEF BaseInv, CompletedInv
<1>1. CASE CreateDurablePlan \/ LeaseLapses \/ UNCHANGED vars
  <2>1. UNCHANGED control
    BY <1>1 DEF CreateDurablePlan, LeaseLapses, vars
  <2> QED
    BY <1>0, <2>1, IdleKeepsCompleted DEF CompletedInv, control
<1>2. ASSUME NEW i \in Instances,
             AcquireLease(i) \/ AlreadyRunning(i) \/ Step(i) \/ StoreRaises(i) \/ Crash(i)
      PROVE  CompletedInv'
  <2>1. \A j \in Instances \ {i} : CompletedOf(j)'
    BY <1>0, <1>2, OneMoves, IdleKeepsCompleted DEF OnlyMoves
  <2> SUFFICES CompletedOf(i)'
    BY <2>1 DEF CompletedInv
  <2>2. CASE AcquireLease(i)
    <3>1. /\ pc[i] = "idle" /\ pc'[i] = "list" /\ UNCHANGED <<verdict, result>>
      BY <1>0, <2>2 DEF AcquireLease, TypeOK, Instances
    <3> QED
      BY <1>0, <3>1 DEF CompletedOf, Loop
  <2>3. CASE AlreadyRunning(i) \/ StoreRaises(i) \/ ReleaseLease(i) \/ Commit(i)
    <3>1. /\ pc'[i] \in {"commit", "done"} /\ verdict' = verdict
          /\ result'[i].status = "completed" => result[i].status = "completed"
      BY <1>0, <2>3 DEF AlreadyRunning, StoreRaises, Raised, ReleaseLease, Commit, TypeOK, Result, Instances
    <3>2. ~Rollback(i) /\ ~Crash(i)
      BY <1>0, <2>3 DEF AlreadyRunning, StoreRaises, ReleaseLease, Commit, Rollback, Crash, Raised, TypeOK
    <3> QED
      BY <1>0, <3>1, <3>2, LeavingKeepsCompleted DEF CompletedOf
  <2>4. CASE Rollback(i) \/ Crash(i)
    <3>1. pc'[i] \in {"done", "crashed"} /\ result'[i].status # "completed"
      BY <1>0, <2>4 DEF Rollback, Raised, Crash, TypeOK, Instances
    <3> QED
      BY <3>1 DEF CompletedOf, Loop
  <2>5. CASE NoSteps(i) \/ LoseLease(i) \/ SaveRejected(i) \/ Raise(i)
    <3>1. /\ pc'[i] = "release" /\ UNCHANGED verdict
          /\ result'[i].status # "completed"
      BY <1>0, <2>5 DEF NoSteps, LoseLease, SaveRejected, Raise, Return, TypeOK, Instances
    <3>2. ~Rollback(i) /\ ~Crash(i)
      BY <1>0, <3>1 DEF Rollback, Crash, TypeOK
    <3> QED
      BY <3>1, <3>2, LeavingKeepsCompleted
  <2>6. CASE BeginStep(i) \/ Refuse(i) \/ Compensate(i) \/ SaveError(i)
    <3>1. /\ pc[i] \in Loop /\ pc'[i] \in Loop
          /\ UNCHANGED <<mode, snap, verdict, cur, tally, result>>
      BY <1>0, <2>6 DEF BeginStep, Heartbeat, AtStep, Refuse, Compensate, SaveError, Loop, TypeOK, Instances
    <3>2. ~Rollback(i) /\ ~Crash(i)
      BY <1>0, <3>1 DEF Rollback, Crash, TypeOK, Loop
    <3>3. cur'[i] >= cur[i]
      BY <1>0, <3>1, LoadedRange DEF TypeOK, Instances
    <3> QED
      BY <1>0, <3>1, <3>2, <3>3, CountingKeepsCompleted
  <2> QED
    BY <1>0, <1>2, <2>2, <2>3, <2>4, <2>5, <2>6, ListingKeepsCompleted, PassingKeepsCompleted,
       SavingKeepsCompleted, FinishingKeepsCompleted DEF Step
<1> QED
  BY <1>1, <1>2 DEF Next

\* A completed result, of execute or of resume, accounts for every listed step.
THEOREM CompletedClaimsStand == Spec => []CompletedClaimStands
<1>1. Init => CompletedInv
  <2> SUFFICES ASSUME Init, NEW i \in Instances PROVE CompletedOf(i)
    BY DEF CompletedInv
  <2>1. pc[i] = "idle" /\ verdict[i] = {} /\ result[i].status = "none"
    BY DEF Init, Instances
  <2> QED
    BY <2>1 DEF CompletedOf, Loop
<1>2. CompletedInv => CompletedClaimStands
  BY DEF CompletedInv, CompletedOf, CompletedClaimStands, Accounted
<1> QED
  BY <1>1, <1>2, ClaimInvariant, CompletedInductive, PTL DEF Spec
-----------------------------------------------------------------------------
(***************************************************************************)
(* Repeats.  A reported success is in a row, or in the hands of the        *)
(* instance about to save it, or it was lost, or the row was written from  *)
(* an outdated list.                                                       *)
(***************************************************************************)
Kept(s) ==
    \/ s \in lost \cup clobbered
    \/ rows[s].state = "SUCCEEDED"
    \/ \E j \in Instances : s \in InHand(j)

ReportsKept == \A s \in applied : Kept(s)

\* What the others have in hand stays there.
LEMMA HandsStay ==
  ASSUME NEW i \in Instances, OnlyMoves(i), NEW j \in Instances, j # i
  PROVE  InHand(j)' = InHand(j)
  BY DEF OnlyMoves, InHand

\* A step of i that writes no row keeps every report that i had not in hand, or
\* that it records as lost.
LEMMA MoveKeepsReports ==
  ASSUME NEW i \in Instances, OnlyMoves(i), rows' = rows, clobbered' = clobbered,
         lost \subseteq lost', InHand(i) \subseteq lost' \cup InHand(i)',
         ReportsKept, \A s \in applied' : s \in applied \/ s \in InHand(i)'
  PROVE  ReportsKept'
<1> SUFFICES ASSUME NEW s \in applied' PROVE Kept(s)'
  BY DEF ReportsKept
<1>1. CASE s \in InHand(i)'
  BY <1>1 DEF Kept
<1>2. CASE s \in applied /\ s \notin InHand(i)'
  <2>1. Kept(s)
    BY <1>2 DEF ReportsKept
  <2>2. CASE \E j \in Instances : s \in InHand(j)
    <3>1. PICK j \in Instances : s \in InHand(j)
      BY <2>2
    <3>2. CASE j = i
      BY <1>2, <3>1, <3>2 DEF Kept
    <3>3. CASE j # i
      BY <3>1, <3>3, HandsStay DEF Kept
    <3> QED
      BY <3>2, <3>3
  <2> QED
    BY <2>1, <2>2 DEF Kept
<1> QED
  BY <1>1, <1>2

\* Saving a step records what was in hand; a row it replaces was not done, or
\* is marked.
LEMMA SaveKeepsReports ==
  ASSUME BaseInv, TxInv, NEW i \in Instances, SaveStep(i), ReportsKept, [Next]_vars
  PROVE  ReportsKept'
<1> USE DEF BaseInv
<1>1. /\ pc[i] = "save" /\ rows' = [rows EXCEPT ![cur[i]] = SavedRow(i)]
      /\ applied' = applied /\ lost' = lost
  BY DEF SaveStep
<1>2. cur[i] \in Steps /\ OnlyMoves(i)
  BY <1>1, ListedInPlan, OneMoves DEF InRange, Step
<1> SUFFICES ASSUME NEW s \in applied PROVE Kept(s)'
  BY <1>1 DEF ReportsKept
<1>3. Kept(s) /\ s \in Steps
  BY DEF ReportsKept, TypeOK
<1>4. CASE s \in lost \cup clobbered
  BY <1>1, <1>4, MarksStay DEF Kept
<1>5. CASE rows[s].state = "SUCCEEDED"
  <2>1. CASE s = cur[i]
    BY <1>5, <2>1, SaveReplaces DEF Kept
  <2>2. CASE s # cur[i]
    BY <1>1, <1>3, <1>5, <2>2 DEF Kept, TypeOK
  <2> QED
    BY <2>1, <2>2
<1>6. ASSUME NEW j \in Instances, s \in InHand(j) PROVE Kept(s)'
  <2>1. CASE j = i
    <3>1. s = cur[i] /\ out[i].state = "SUCCEEDED"
      BY <1>6, <2>1 DEF InHand
    <3>2. rows'[s].state = "SUCCEEDED"
      BY <1>1, <1>2, <3>1 DEF SavedRow, TypeOK
    <3> QED
      BY <3>2 DEF Kept
  <2>2. CASE j # i
    BY <1>2, <1>6, <2>2, HandsStay DEF Kept
  <2> QED
    BY <2>1, <2>2
<1> QED
  BY <1>3, <1>4, <1>5, <1>6 DEF Kept

\* A transaction that is undone loses what only it recorded, and says so.
LEMMA UndoKeepsReports ==
  ASSUME BaseInv, NEW i \in Instances, Rollback(i) \/ Crash(i), ReportsKept
  PROVE  ReportsKept'
<1> USE DEF BaseInv
<1>1. /\ \A s \in Steps : writer[s] # i => rows'[s] = rows[s]
      /\ lost' = lost \cup InHand(i) \cup Uncommitted(i)
      /\ applied' = applied /\ clobbered' = clobbered
  BY DEF Rollback, Crash, UndoWrites, known
<1>2. OnlyMoves(i)
  BY OneMoves DEF Step
<1> SUFFICES ASSUME NEW s \in applied PROVE Kept(s)'
  BY <1>1 DEF ReportsKept
<1>3. Kept(s) /\ s \in Steps
  BY DEF ReportsKept, TypeOK
<1>4. CASE s \in lost \cup clobbered
  BY <1>1, <1>4 DEF Kept
<1>5. CASE rows[s].state = "SUCCEEDED"
  BY <1>1, <1>3, <1>5 DEF Kept, Uncommitted
<1>6. ASSUME NEW j \in Instances, s \in InHand(j) PROVE Kept(s)'
  <2>1. CASE j = i
    BY <1>1, <1>6, <2>1 DEF Kept
  <2>2. CASE j # i
    BY <1>2, <1>6, <2>2, HandsStay DEF Kept
  <2> QED
    BY <2>1, <2>2
<1> QED
  BY <1>3, <1>4, <1>5, <1>6 DEF Kept

\* Every action keeps the reports, or records their loss.
LEMMA ReportsInductive == BaseInv /\ TxInv /\ ReportsKept /\ [Next]_vars => ReportsKept'
<1> SUFFICES ASSUME BaseInv, TxInv, ReportsKept, [Next]_vars PROVE ReportsKept'
  OBVIOUS
<1>0. TypeOK
  BY DEF BaseInv
<1> USE DEF db, history, known
<1>1. CASE CreateDurablePlan
  <2>1. /\ UNCHANGED <<pc, out, cur, applied, lost, clobbered>>
        /\ \A s \in Steps : rows[s].state = "ABSENT"
    BY <1>1 DEF CreateDurablePlan, control, TxInv, PlanIsWhole, PlanCreated
  <2>2. \A j \in Instances : InHand(j)' = InHand(j)
    BY <2>1 DEF InHand
  <2> QED
    BY <1>0, <2>1, <2>2 DEF ReportsKept, Kept, TypeOK
<1>2. CASE LeaseLapses \/ UNCHANGED vars
  <2>1. UNCHANGED <<pc, out, cur, rows, applied, lost, clobbered>>
    BY <1>2 DEF LeaseLapses, control, vars
  <2>2. \A j \in Instances : InHand(j)' = InHand(j)
    BY <2>1 DEF InHand
  <2> QED
    BY <2>1, <2>2 DEF ReportsKept, Kept
<1>3. ASSUME NEW i \in Instances,
             AcquireLease(i) \/ AlreadyRunning(i) \/ Step(i) \/ StoreRaises(i) \/ Crash(i)
      PROVE  ReportsKept'
  <2>0. OnlyMoves(i)
    BY <1>0, <1>3, OneMoves
  <2>1. CASE AcquireLease(i) \/ AlreadyRunning(i) \/ StoreRaises(i) \/ ReleaseLease(i) \/ Commit(i)
    <3>1. pc[i] # "save" /\ UNCHANGED <<rows, applied, lost, clobbered>>
      BY <2>1 DEF AcquireLease, AlreadyRunning, StoreRaises, ReleaseLease, Commit
    <3> QED
      BY <2>0, <3>1, MoveKeepsReports DEF InHand
  <2>2. CASE NoSteps(i) \/ LoseLease(i) \/ SaveRejected(i) \/ Finish(i) \/ Raise(i)
    <3>1. UNCHANGED <<rows, applied, clobbered>> /\ lost' = lost \cup InHand(i)
      BY <2>2 DEF NoSteps, LoseLease, SaveRejected, Finish, Raise, Return
    <3> QED
      BY <2>0, <3>1, MoveKeepsReports
  <2>3. CASE ListByPlan(i) \/ PassOver(i) \/ CountDone(i) \/ BeginStep(i) \/ Refuse(i)
    <3>1. pc[i] # "save" /\ UNCHANGED <<rows, applied, lost, clobbered>>
      BY <2>3 DEF ListByPlan, PassOver, CountDone, BeginStep, Heartbeat, AtStep, Refuse
    <3> QED
      BY <2>0, <3>1, MoveKeepsReports DEF InHand
  <2>4. CASE Compensate(i)
    <3>1. /\ pc[i] = "run" /\ pc'[i] = "save" /\ UNCHANGED <<rows, lost, clobbered, cur>>
          /\ \A s \in applied' : s \in applied \/ (s = cur[i] /\ out'[i].state = "SUCCEEDED")
      BY <1>0, <2>4 DEF Compensate, TypeOK
    <3> QED
      BY <2>0, <3>1, MoveKeepsReports DEF InHand
  <2>5. CASE SaveError(i)
    <3>1. UNCHANGED <<rows, applied, clobbered>> /\ lost' = lost \cup InHand(i)
      BY <2>5 DEF SaveError
    <3> QED
      BY <2>0, <3>1, MoveKeepsReports
  <2> QED
    BY <1>3, <2>1, <2>2, <2>3, <2>4, <2>5, SaveKeepsReports, UndoKeepsReports DEF Step
<1> QED
  BY <1>1, <1>2, <1>3 DEF Next

\* An instance whose list is current begins again only what was not recorded.
LEMMA RepeatsFollow == BaseInv /\ TxInv /\ ReportsKept => RepeatsExplained
<1> SUFFICES ASSUME BaseInv, TxInv, ReportsKept, NEW i \in Instances,
                    pc[i] = "run", cur[i] \in applied,
                    cur[i] \notin lost \cup clobbered, ~Outdated(i)
             PROVE  \E j \in Instances : tok[j] \in expired /\ cur[i] \in InHand(j)
  BY DEF RepeatsExplained
<1>1. cur[i] \in Steps /\ cur[i] >= cur[i]
  BY ListedInPlan, LoadedRange DEF BaseInv, InRange, TypeOK
<1>2. snap[i][cur[i]] = ViewOf(rows[cur[i]]) /\ snap[i][cur[i]].state # "SUCCEEDED"
  BY <1>1 DEF TxInv, SnapshotCurrent, RunsOnlyUndone, Loop
<1>3. PICK j \in Instances : cur[i] \in InHand(j)
  BY <1>2 DEF ReportsKept, Kept, ViewOf
<1>4. pc[j] = "save"
  BY <1>3 DEF InHand
<1>5. tok[j] \in expired
  BY <1>4 DEF BaseInv, TenureInv, WorkerOwns, Working, Outdated
<1> QED
  BY <1>3, <1>5

\* No compensation that was reported is begun again but for a reason the
\* property names.
THEOREM RepeatsAreExplained == Spec => []RepeatsExplained
<1>1. Init => ReportsKept
  BY DEF Init, ReportsKept
<1> QED
  BY <1>1, TxInvariant, ReportsInductive, RepeatsFollow, PTL DEF Spec
=============================================================================
