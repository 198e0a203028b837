------------------------- MODULE RecoveryRouteProofs -------------------------
(***************************************************************************)
(* Proofs about the recovery routes, for any number of requests, processes *)
(* and actions, any page limit, any set of routes, any quota and with or   *)
(* without faults.                                                         *)
(***************************************************************************)
EXTENDS RecoveryRoute, FiniteSetTheorems, TLAPS

(***************************************************************************)
(* The inductive invariant.  A slot is held only between begin_compensation*)
(* and end_compensation.  The rows an execution inserts stay its own until *)
(* it commits; while it may still answer "completed", each of them that    *)
(* the page reached is to be run or has succeeded.  A completed plan has a *)
(* witness: a committed execution whose rows, as far as a page reaches,    *)
(* succeeded and are disturbed by no open transaction.                     *)
(***************************************************************************)
Slots == {r \in Requests : req[r].slot}

SlotInv ==
    /\ IsFiniteSet(Slots)
    /\ active = Cardinality(Slots) + leaked
    /\ active <= Limit
    /\ \A r \in Requests : req[r].slot => req[r].pc \in {"acquire", "run", "leave"}

\* A page of the rows of the executions E reaches action a.
Reaches(E, a) == a * Cardinality(E) <= PageLimit

CommittedExecution(r) == At(r, "committed") /\ Executes(r)

Untouched(q, x) == req[q].tx[x] = None /\ x \notin req[q].todo

OwnRowsHidden ==
    \A r \in Requests, a \in Actions :
        /\ ~CommittedExecution(r) =>
              /\ rows[<<r, a>>] = None
              /\ \A q \in Requests \ {r} : Untouched(q, <<r, a>>)
        /\ ~Executes(r) => Untouched(r, <<r, a>>)

OwnRowsPending ==
    \A r \in Requests :
        /\ req[r].pc = "create" => Executes(r)
        /\ \A a \in Actions : Executes(r) /\ req[r].pc \in {"slot", "acquire"} =>
              req[r].tx[<<r, a>>] = "pending"
        /\ \A a \in Actions : Executes(r) /\ req[r].pc \in {"run", "leave", "commit"} =>
              req[r].tx[<<r, a>>] # None
        /\ \A o \in Requests \ {r}, a \in Actions : req[r].pc \in {"slot", "acquire"} =>
              req[r].tx[<<o, a>>] = None

OwnRowsRun ==
    \A r \in Requests, a \in Actions :
        Executes(r) /\ req[r].outcome = "completed" /\ Reaches(Executions \cup {r}, a) =>
            /\ req[r].pc = "run" =>
                  <<r, a>> \in req[r].todo \/ req[r].tx[<<r, a>>] = "succeeded"
            /\ req[r].pc \in {"leave", "commit"} =>
                  req[r].tx[<<r, a>>] = "succeeded"

SuccessIsReal ==
    \A x \in Steps :
        /\ rows[x] = "succeeded" => applied[x[2]] > 0
        /\ \A q \in Requests : req[q].tx[x] = "succeeded" => applied[x[2]] > 0

Witness(w) ==
    /\ CommittedExecution(w)
    /\ \A a \in Actions : Reaches(Executions, a) =>
          /\ rows[<<w, a>>] = "succeeded"
          /\ \A q \in Requests : /\ req[q].tx[<<w, a>>] \in {None, "succeeded"}
                                 /\ <<w, a>> \notin req[q].todo

CompletionInv == status = "completed" => \E w \in Requests : Witness(w)

RowInv ==
    /\ OwnRowsHidden
    /\ OwnRowsPending
    /\ OwnRowsRun
    /\ SuccessIsReal
    /\ CompletionInv
-----------------------------------------------------------------------------
\* A step of one request leaves the records of the others alone.
LEMMA Stepped ==
    ASSUME TypeOK, NEW r \in Requests, NEW q, Step(r, q)
    PROVE  req'[r] = q /\ \A p \in Requests \ {r} : req'[p] = req[p]
  BY DEF TypeOK, Step

\* What the transaction of a request sees has the type of the committed rows.
LEMMA ViewTyped == ASSUME TypeOK, NEW r \in Requests PROVE View(r) \in [Steps -> RowStates]
  BY DEF TypeOK, RequestType, View

\* Every action keeps the types; the quota counter has a floor at zero.
LEMMA TypeInductive == TypeOK /\ [Next]_vars => TypeOK'
<1> SUFFICES ASSUME TypeOK, [Next]_vars PROVE TypeOK'
  OBVIOUS
<1> USE DEF Running, Ended, RunOutcomes, None
<1>0. ASSUME NEW r \in Requests, NEW q \in RequestType, Step(r, q)
      PROVE  req' \in [Requests -> RequestType]
  BY <1>0 DEF TypeOK, Step
<1>19. \A r \in Requests : req[r] \in RequestType
  BY DEF TypeOK
<1>1. ASSUME NEW r \in Requests, NEW k \in Kinds, NEW p \in Processes, Enter(r, k, p)
      PROVE  TypeOK'
  <2>1. IdleRequest \in RequestType
    BY DEF IdleRequest, RequestType, NoRows, RowStates
  <2>2. Entered(k, p) \in RequestType
    BY <2>1 DEF Entered, RequestType
  <2> QED
    BY <1>0, <1>1, <2>2 DEF Enter, TypeOK
<1>2. ASSUME NEW r \in Requests, CreateDurablePlan(r) PROVE TypeOK'
  <2>1. [x \in Steps |-> IF x[1] = r THEN "pending" ELSE None] \in [Steps -> RowStates]
    BY DEF RowStates
  <2>2. req[r] \in RequestType
    BY DEF TypeOK
  <2>3. [req[r] EXCEPT
            !.tx = [x \in Steps |-> IF x[1] = r THEN "pending" ELSE None],
            !.pc = IF req[r].kind = "execute" THEN "slot" ELSE "acquire"] \in RequestType
    BY <2>1, <2>2 DEF RequestType
  <2> QED
    BY <1>0, <1>2, <2>3 DEF CreateDurablePlan, TypeOK
<1>3. ASSUME NEW r \in Requests, BeginCompensation(r) PROVE TypeOK'
  <2>1. [req[r] EXCEPT !.slot = TRUE, !.pc = "acquire"] \in RequestType
    BY <1>19 DEF RequestType
  <2> QED
    BY <1>0, <1>3, <2>1 DEF BeginCompensation, TypeOK
<1>4. ASSUME NEW r \in Requests, NEW pc \in Ended PROVE Over(r, pc) \in RequestType
  BY DEF TypeOK, Over, IdleRequest, RequestType, NoRows, RowStates
<1>5. ASSUME NEW r \in Requests, QuotaExhausted(r) PROVE TypeOK'
  <2>1. Over(r, "rolled_back") \in RequestType
    BY <1>4
  <2> QED
    BY <1>0, <1>5, <2>1 DEF QuotaExhausted, TypeOK
<1>6. ASSUME NEW r \in Requests, AcquireLease(r) PROVE TypeOK'
  <2>1. ASSUME NEW page \in SUBSET Existing(r)
        PROVE  [req[r] EXCEPT
                  !.pc = "run",
                  !.todo = {x \in page : View(r)[x] \in {"pending", "failed"}},
                  !.outcome = IF page = {} THEN "no_steps" ELSE "completed"] \in RequestType
    <3>1. {x \in page : View(r)[x] \in {"pending", "failed"}} \in SUBSET Steps
      BY <2>1 DEF Existing
    <3> QED
      BY <1>19, <3>1 DEF RequestType
  <2>2. req' \in [Requests -> RequestType]
    BY <1>0, <1>6, <2>1 DEF AcquireLease
  <2> QED
    BY <1>6, <2>2 DEF AcquireLease, TypeOK
<1>7. ASSUME NEW r \in Requests, AlreadyRunning(r) PROVE TypeOK'
  <2>1. [req[r] EXCEPT !.pc = "leave", !.outcome = "already_running"] \in RequestType
    BY <1>19 DEF RequestType
  <2> QED
    BY <1>0, <1>7, <2>1 DEF AlreadyRunning, TypeOK
<1>8. ASSUME NEW r \in Requests, NEW x \in Steps, NEW ok \in BOOLEAN, RunStep(r, x, ok)
      PROVE  TypeOK'
  <2>1. PICK rest \in IF ok THEN {req[r].todo \ {x}} ELSE {req[r].todo \ {x}, {}} :
          Step(r, [req[r] EXCEPT
                      !.todo = rest,
                      !.tx[x] = IF ok THEN "succeeded" ELSE "failed",
                      !.outcome = IF ok THEN @ ELSE "incomplete"])
    BY <1>8 DEF RunStep
  <2>2. rest \subseteq Steps
    BY DEF TypeOK, RequestType
  <2>3. [req[r].tx EXCEPT ![x] = IF ok THEN "succeeded" ELSE "failed"] \in [Steps -> RowStates]
    BY DEF TypeOK, RequestType, RowStates
  <2>4. [req[r] EXCEPT
            !.todo = rest,
            !.tx[x] = IF ok THEN "succeeded" ELSE "failed",
            !.outcome = IF ok THEN @ ELSE "incomplete"] \in RequestType
    BY <1>19, <2>2, <2>3 DEF RequestType
  <2>5. applied' \in [Actions -> 0..2]
    <3>1. x[2] \in Actions
      BY DEF Steps
    <3> QED
      BY <1>8, <3>1 DEF RunStep, TypeOK
  <2> QED
    BY <1>0, <1>8, <2>1, <2>4, <2>5 DEF RunStep, TypeOK
<1>9. ASSUME NEW r \in Requests, ReleaseLease(r) PROVE TypeOK'
  <2>1. [req[r] EXCEPT !.pc = "leave"] \in RequestType
    BY <1>19 DEF RequestType
  <2> QED
    BY <1>0, <1>9, <2>1 DEF ReleaseLease, TypeOK
<1>10. ASSUME NEW r \in Requests, ReleaseCompensation(req[r].slot) PROVE active' \in Nat
  BY <1>10 DEF ReleaseCompensation, TypeOK
<1>11. ASSUME NEW r \in Requests, EndCompensation(r) PROVE TypeOK'
  <2>1. [req[r] EXCEPT !.slot = FALSE, !.pc = "commit"] \in RequestType
    BY <1>19 DEF RequestType
  <2> QED
    BY <1>0, <1>10, <1>11, <2>1 DEF EndCompensation, TypeOK
<1>12. ASSUME NEW r \in Requests, Commit(r) PROVE TypeOK'
  <2>1. [Over(r, "committed") EXCEPT !.outcome = req[r].outcome] \in RequestType
    <3>1. Over(r, "committed") \in RequestType
      BY <1>4
    <3> QED
      BY <3>1 DEF TypeOK, RequestType
  <2>2. status' \in Statuses
    BY <1>12 DEF Commit, NewStatus, Statuses, TypeOK
  <2>3. rows' \in [Steps -> RowStates]
    BY <1>12, ViewTyped DEF Commit
  <2> QED
    BY <1>0, <1>12, <2>1, <2>2, <2>3 DEF Commit, TypeOK
<1>13. ASSUME NEW r \in Requests, Raise(r) \/ EndCompensationFails(r) PROVE TypeOK'
  <2>1. Over(r, "rolled_back") \in RequestType
    BY <1>4
  <2>2. active' \in Nat
    BY <1>10, <1>13 DEF Raise, EndCompensationFails, TypeOK
  <2> QED
    BY <1>0, <1>13, <2>1, <2>2 DEF Raise, EndCompensationFails, TypeOK
<1>14. ASSUME NEW p \in Processes, Crash(p) PROVE TypeOK'
  <2>1. \A r \in Requests : Over(r, "crashed") \in RequestType
    BY <1>4
  <2>2. req' \in [Requests -> RequestType]
    BY <1>14, <2>1 DEF Crash, TypeOK
  <2>3. leaked' \in Nat
    <3>1. {r \in Requests : RunsIn(r, p) /\ req[r].slot} \in SUBSET Requests
      OBVIOUS
    <3>2. Cardinality({r \in Requests : RunsIn(r, p) /\ req[r].slot}) \in Nat
      BY <3>1, RouteAssumption, FS_Subset, FS_CardinalityType
    <3> QED
      BY <1>14, <3>2 DEF Crash, TypeOK
  <2> QED
    BY <1>14, <2>2, <2>3 DEF Crash, TypeOK
<1>15. ASSUME NEW r \in Requests, ResumeAgain(r) PROVE TypeOK'
  <2>1. IdleRequest \in RequestType
    BY DEF IdleRequest, RequestType, NoRows, RowStates
  <2> QED
    BY <1>0, <1>15, <2>1 DEF ResumeAgain, TypeOK
<1>16. CASE SimulatePlan
  BY <1>16 DEF SimulatePlan, TypeOK, Statuses
<1>17. ASSUME NEW p \in Processes, NEW b \in BOOLEAN, SetEmergencyDeny(p, b) PROVE TypeOK'
  BY <1>17 DEF SetEmergencyDeny, TypeOK
<1>18. CASE UNCHANGED vars
  BY <1>18 DEF vars, TypeOK
<1> QED
  BY <1>1, <1>2, <1>3, <1>5, <1>6, <1>7, <1>8, <1>9, <1>11, <1>12, <1>13, <1>14, <1>15,
     <1>16, <1>17, <1>18 DEF Next, RequestStep

-----------------------------------------------------------------------------
(***************************************************************************)
(* The quota slots.                                                        *)
(***************************************************************************)
\* A request that keeps its slot as it is leaves the slots as they are.
LEMMA SlotKept ==
    ASSUME TypeOK, SlotInv, NEW r \in Requests, NEW q, Step(r, q),
           q.slot = req[r].slot,
           q.slot => q.pc \in {"acquire", "run", "leave"},
           UNCHANGED <<active, leaked>>
    PROVE  SlotInv'
<1>1. Slots' = Slots
  BY Stepped DEF Slots
<1> QED
  BY <1>1, Stepped DEF SlotInv

\* A request that gets a slot is one holder more, within the limit.
LEMMA SlotTaken ==
    ASSUME TypeOK, SlotInv, NEW r \in Requests, BeginCompensation(r)
    PROVE  SlotInv'
<1>1. req'[r].slot /\ req'[r].pc = "acquire" /\ \A p \in Requests \ {r} : req'[p] = req[p]
  <2>1. Step(r, [req[r] EXCEPT !.slot = TRUE, !.pc = "acquire"])
    BY DEF BeginCompensation
  <2>2. /\ req'[r] = [req[r] EXCEPT !.slot = TRUE, !.pc = "acquire"]
        /\ \A p \in Requests \ {r} : req'[p] = req[p]
    BY <2>1, Stepped
  <2>3. req[r] \in RequestType
    BY DEF TypeOK
  <2> QED
    BY <2>2, <2>3 DEF RequestType
<1>2. r \notin Slots
  BY DEF BeginCompensation, SlotInv, Slots, At
<1>3. Slots' = Slots \cup {r}
  BY <1>1 DEF Slots
<1>4. IsFiniteSet(Slots') /\ Cardinality(Slots') = Cardinality(Slots) + 1
  BY <1>2, <1>3, FS_AddElement DEF SlotInv
<1>5. Cardinality(Slots) \in Nat
  BY FS_CardinalityType DEF SlotInv
<1> QED
  BY <1>1, <1>4, <1>5, RouteAssumption DEF SlotInv, BeginCompensation, TypeOK

\* A slot that is given back, or lost in a crash, is one holder less.
LEMMA SlotGone ==
    ASSUME TypeOK, SlotInv, NEW r \in Requests, NEW q, Step(r, q),
           req[r].slot, ~q.slot,
           \/ active' = active - 1 /\ leaked' = leaked
           \/ active' = active /\ leaked' = leaked + 1
    PROVE  SlotInv'
<1>1. Slots' = Slots \ {r} /\ r \in Slots
  BY Stepped DEF Slots
<1>2. IsFiniteSet(Slots') /\ Cardinality(Slots') = Cardinality(Slots) - 1
  BY <1>1, FS_RemoveElement DEF SlotInv
<1>3. Cardinality(Slots) \in Nat
  BY FS_CardinalityType DEF SlotInv
<1>4. \A p \in Requests : req'[p].slot => req'[p].pc \in {"acquire", "run", "leave"}
  BY Stepped DEF SlotInv
<1> QED
  BY <1>2, <1>3, <1>4, RouteAssumption DEF SlotInv, TypeOK

\* Somebody holds a slot only while the counter is positive.
LEMMA HolderCounted ==
    ASSUME TypeOK, SlotInv, NEW r \in Requests, req[r].slot
    PROVE  active > 0
<1>1. Slots # {}
  BY DEF Slots
<1>2. Cardinality(Slots) \in Nat /\ Cardinality(Slots) # 0
  BY <1>1, FS_CardinalityType, FS_EmptySet DEF SlotInv
<1> QED
  BY <1>2 DEF SlotInv, TypeOK

\* The release of a request: its own slot goes, or nothing changes.
LEMMA SlotReleased ==
    ASSUME TypeOK, SlotInv, NEW r \in Requests, NEW q, Step(r, q), q.slot = FALSE,
           ReleaseCompensation(req[r].slot), leaked' = leaked
    PROVE  SlotInv'
<1>1. CASE req[r].slot
  <2>1. active' = active - 1
    BY <1>1, HolderCounted DEF ReleaseCompensation
  <2> QED
    BY <1>1, <2>1, SlotGone
<1>2. CASE ~req[r].slot
  <2>1. req[r].slot = FALSE
    BY <1>2 DEF TypeOK, RequestType
  <2>2. active' = active
    BY <1>2 DEF ReleaseCompensation
  <2> QED
    BY <2>1, <2>2, SlotKept
<1> QED
  BY <1>1, <1>2

\* Every action keeps the count of the slots.
LEMMA SlotInductive == TypeOK /\ SlotInv /\ [Next]_vars => SlotInv'
<1> SUFFICES ASSUME TypeOK, SlotInv, [Next]_vars PROVE SlotInv'
  OBVIOUS
<1>0. ASSUME NEW r \in Requests PROVE req[r] \in RequestType
  BY DEF TypeOK
<1>1. ASSUME NEW r \in Requests, NEW q, Step(r, q),
             q.slot = FALSE, req[r].pc \notin {"acquire", "run", "leave"},
             UNCHANGED <<active, leaked>>
      PROVE  SlotInv'
  <2>1. req[r].slot = FALSE
    BY <1>0, <1>1 DEF SlotInv, RequestType
  <2> QED
    BY <1>1, <2>1, SlotKept
<1>2. ASSUME NEW r \in Requests, NEW k \in Kinds, NEW p \in Processes, Enter(r, k, p)
      PROVE  SlotInv'
  BY <1>1, <1>2 DEF Enter, Entered, At, IdleRequest
<1>3. ASSUME NEW r \in Requests, CreateDurablePlan(r) PROVE SlotInv'
  <2>1. req[r].slot = FALSE
    BY <1>0, <1>3 DEF SlotInv, CreateDurablePlan, At, RequestType
  <2> QED
    BY <1>0, <1>1, <1>3, <2>1 DEF CreateDurablePlan, At, RequestType
<1>4. ASSUME NEW r \in Requests, QuotaExhausted(r) PROVE SlotInv'
  BY <1>1, <1>4 DEF QuotaExhausted, At, Over, IdleRequest
<1>5. ASSUME NEW r \in Requests, AcquireLease(r) PROVE SlotInv'
  <2>1. PICK page \in SUBSET Existing(r) :
          Step(r, [req[r] EXCEPT
                     !.pc = "run",
                     !.todo = {x \in page : View(r)[x] \in {"pending", "failed"}},
                     !.outcome = IF page = {} THEN "no_steps" ELSE "completed"])
    BY <1>5 DEF AcquireLease
  <2> QED
    BY <1>0, <1>5, <2>1, SlotKept DEF AcquireLease, RequestType
<1>6. ASSUME NEW r \in Requests, AlreadyRunning(r) PROVE SlotInv'
  BY <1>0, <1>6, SlotKept DEF AlreadyRunning, RequestType
<1>7. ASSUME NEW r \in Requests, NEW x \in Steps, NEW ok \in BOOLEAN, RunStep(r, x, ok)
      PROVE  SlotInv'
  <2>1. PICK rest \in IF ok THEN {req[r].todo \ {x}} ELSE {req[r].todo \ {x}, {}} :
          Step(r, [req[r] EXCEPT
                      !.todo = rest,
                      !.tx[x] = IF ok THEN "succeeded" ELSE "failed",
                      !.outcome = IF ok THEN @ ELSE "incomplete"])
    BY <1>7 DEF RunStep
  <2> QED
    BY <1>0, <1>7, <2>1, SlotKept DEF RunStep, At, RequestType
<1>8. ASSUME NEW r \in Requests, ReleaseLease(r) PROVE SlotInv'
  BY <1>0, <1>8, SlotKept DEF ReleaseLease, RequestType
<1>9. ASSUME NEW r \in Requests, EndCompensation(r) PROVE SlotInv'
  BY <1>0, <1>9, SlotReleased DEF EndCompensation, RequestType
<1>10. ASSUME NEW r \in Requests, Commit(r) PROVE SlotInv'
  BY <1>1, <1>10 DEF Commit, At, Over, IdleRequest
<1>11. ASSUME NEW r \in Requests, Raise(r) \/ EndCompensationFails(r) PROVE SlotInv'
  <2>1. Step(r, Over(r, "rolled_back")) /\ Over(r, "rolled_back").slot = FALSE
    BY <1>11 DEF Raise, EndCompensationFails, Over, IdleRequest
  <2>2. CASE Raise(r)
    BY <2>1, <2>2, SlotReleased DEF Raise
  <2>3. CASE EndCompensationFails(r)
    BY <2>1, <2>3, SlotGone DEF EndCompensationFails
  <2> QED
    BY <1>11, <2>2, <2>3
<1>12. ASSUME NEW p \in Processes, Crash(p) PROVE SlotInv'
  <2> DEFINE V == {r \in Requests : RunsIn(r, p) /\ req[r].slot}
  <2>1. /\ req' = [r \in Requests |-> IF RunsIn(r, p) THEN Over(r, "crashed") ELSE req[r]]
        /\ leaked' = leaked + Cardinality(V) /\ active' = active
    BY <1>12 DEF Crash
  <2>2. \A r \in Requests : Over(r, "crashed").slot = FALSE
    BY DEF Over, IdleRequest
  <2>3. Slots' = Slots \ V /\ Slots \cap V = V
    BY <2>1, <2>2 DEF Slots
  <2>4. \A r \in Requests : req'[r].slot => req'[r].pc \in {"acquire", "run", "leave"}
    BY <2>1, <2>2 DEF SlotInv
  <2> HIDE DEF V
  <2>5. IsFiniteSet(Slots') /\ Cardinality(Slots') = Cardinality(Slots) - Cardinality(V)
    BY <2>3, FS_Difference DEF SlotInv
  <2>6. Cardinality(Slots) \in Nat /\ Cardinality(V) \in Nat
    <3>1. IsFiniteSet(V)
      <4>1. V \in SUBSET Slots
        BY <2>3
      <4> QED
        BY <4>1, FS_Subset DEF SlotInv
    <3> QED
      BY <3>1, FS_CardinalityType DEF SlotInv
  <2> QED
    BY <2>1, <2>4, <2>5, <2>6 DEF SlotInv, TypeOK
<1>13. ASSUME NEW r \in Requests, ResumeAgain(r) PROVE SlotInv'
  BY <1>1, <1>13 DEF ResumeAgain, Ended, IdleRequest
<1>14. CASE \/ SimulatePlan \/ UNCHANGED vars
            \/ \E p \in Processes, b \in BOOLEAN : SetEmergencyDeny(p, b)
  BY <1>14 DEF SimulatePlan, SetEmergencyDeny, vars, SlotInv, Slots
<1> QED
  BY <1>2, <1>3, SlotTaken, <1>4, <1>5, <1>6, <1>7, <1>8, <1>9, <1>10, <1>11, <1>12, <1>13,
     <1>14 DEF Next, RequestStep

-----------------------------------------------------------------------------
(***************************************************************************)
(* The step rows and the plan's status.                                    *)
(***************************************************************************)
\* The rows of a request are steps, and an untouched row is as it was.
LEMMA OwnSteps == \A r \in Requests, a \in Actions : <<r, a>> \in Steps /\ <<r, a>>[2] = a
  BY DEF Steps

\* A request without a committed execution is nobody's witness, so its record
\* may change without harm as long as nobody's rows do.
LEMMA WitnessKept ==
    ASSUME NEW w \in Requests, Witness(w), NEW r \in Requests, r # w,
           \A p \in Requests \ {r} : req'[p] = req[p],
           \A a \in Actions : Reaches(Executions', a) =>
               /\ Reaches(Executions, a)
               /\ rows'[<<w, a>>] = rows[<<w, a>>]
               /\ req'[r].tx[<<w, a>>] \in {None, "succeeded"}
               /\ <<w, a>> \notin req'[r].todo
    PROVE  Witness(w)'
  BY DEF Witness, CommittedExecution, At, Executes

\* The executions that left rows are as they were while the rows are.
LEMMA SameExecutions == rows' = rows => Executions' = Executions
  BY DEF Executions

\* A page that reaches an action of more executions reaches it of fewer.
LEMMA ReachesFewer ==
    ASSUME NEW E \in SUBSET Requests, NEW F \in SUBSET E, NEW a \in Actions, Reaches(E, a)
    PROVE  Reaches(F, a)
<1>1. IsFiniteSet(E)
  BY RouteAssumption, FS_Subset
<1>2. /\ Cardinality(E) \in Nat /\ Cardinality(F) \in Nat
      /\ Cardinality(F) <= Cardinality(E)
  BY <1>1, FS_Subset, FS_CardinalityType
<1>3. a \in Nat /\ PageLimit \in Nat
  BY RouteAssumption DEF Actions
<1>4. \A x, y, n \in Nat : x <= y => n * x <= n * y
  OBVIOUS
<1>5. a * Cardinality(F) <= a * Cardinality(E)
  BY <1>2, <1>3, <1>4
<1>6. a * Cardinality(E) \in Nat /\ a * Cardinality(F) \in Nat
  BY <1>2, <1>3
<1> QED
  BY <1>3, <1>5, <1>6 DEF Reaches

\* A page holds every row it reaches: a row left out comes after a full page of
\* rows that are no later, and there are not as many.
LEMMA PageHolds ==
    ASSUME TypeOK, NEW r \in Requests, NEW page \in SUBSET Existing(r), IsPage(r, page),
           NEW E \in SUBSET Requests, Existing(r) \subseteq E \X Actions,
           NEW x \in Existing(r), Reaches(E, x[2])
    PROVE  x \in page
<1> SUFFICES ASSUME x \notin page PROVE FALSE
  OBVIOUS
<1> DEFINE B == E \X (1 .. x[2])
<1>1. x[1] \in E /\ x[2] \in 1 .. N /\ x = <<x[1], x[2]>> /\ x[2] \in Nat
  BY RouteAssumption DEF Actions
<1>2. IsFiniteSet(E) /\ IsFiniteSet(1 .. x[2]) /\ Cardinality(1 .. x[2]) = x[2]
  <2>1. IsFiniteSet(E)
    BY RouteAssumption, FS_Subset
  <2>2. 1 \in Int /\ x[2] \in Int /\ ~(1 > x[2]) /\ x[2] - 1 + 1 = x[2]
    BY <1>1, RouteAssumption
  <2>3. IsFiniteSet(1 .. x[2]) /\ Cardinality(1 .. x[2]) = x[2]
    BY <2>2, FS_Interval
  <2> QED
    BY <2>1, <2>3
<1>3. IsFiniteSet(B) /\ Cardinality(B) = Cardinality(E) * x[2]
  BY <1>2, FS_Product
<1>4. x \in B
  BY <1>1
<1>5. page \in SUBSET (B \ {x})
  <2> SUFFICES ASSUME NEW y \in page PROVE y \in B
    OBVIOUS
  <2>1. y \in E \X (1 .. N) /\ y[2] <= x[2]
    BY DEF IsPage, Actions
  <2> QED
    BY <1>1, <2>1, RouteAssumption
<1>6. IsFiniteSet(B \ {x}) /\ Cardinality(B \ {x}) = Cardinality(B) - 1
  BY <1>3, <1>4, FS_RemoveElement
<1>7. Cardinality(page) <= Cardinality(B) - 1
  BY <1>5, <1>6, FS_Subset
<1>8. Cardinality(page) = PageLimit
  BY DEF IsPage
<1>9. Cardinality(E) \in Nat
  BY <1>2, FS_CardinalityType
<1>10. x[2] * Cardinality(E) = Cardinality(E) * x[2] /\ Cardinality(E) * x[2] \in Nat
  BY <1>1, <1>9
<1> QED
  BY <1>3, <1>7, <1>8, <1>10, RouteAssumption DEF Reaches

\* Requests whose transaction is dropped, or has not begun, disturb nothing.
LEMMA ClearedSteps ==
    ASSUME TypeOK, RowInv, NEW V \in SUBSET Requests,
           \A p \in Requests \ V : req'[p] = req[p],
           \A r \in V : /\ req'[r].tx = NoRows /\ req'[r].todo = {} /\ req'[r].outcome = None
                        /\ req'[r].pc \notin {"slot", "run", "leave", "commit"}
                        /\ req'[r].pc = "acquire" => req'[r].kind \notin {"execute", "control"}
                        /\ req'[r].pc = "create" => req'[r].kind \in {"execute", "control"}
                        /\ ~CommittedExecution(r),
           UNCHANGED <<status, rows, applied>>
    PROVE  RowInv'
<1>1. \A r \in V, x \in Steps : req'[r].tx[x] = None
  BY DEF NoRows
<1>2. Executions' = Executions
  BY SameExecutions
<1>3. OwnRowsHidden'
  <2>1. \A p \in Requests, x \in Steps : Untouched(p, x) => Untouched(p, x)'
    BY <1>1 DEF Untouched
  <2>2. \A r \in V, x \in Steps : Untouched(r, x)'
    BY <1>1 DEF Untouched
  <2>3. \A p \in Requests \ V : /\ Executes(p)' <=> Executes(p)
                                /\ CommittedExecution(p)' <=> CommittedExecution(p)
    BY DEF CommittedExecution, At, Executes
  <2> QED
    BY <2>1, <2>2, <2>3, OwnSteps DEF RowInv, OwnRowsHidden
<1>4. OwnRowsPending'
  <2> SUFFICES ASSUME NEW r \in Requests
               PROVE  /\ req'[r].pc = "create" => Executes(r)'
                      /\ \A a \in Actions : Executes(r)' /\ req'[r].pc \in {"slot", "acquire"} =>
                            req'[r].tx[<<r, a>>] = "pending"
                      /\ \A a \in Actions : Executes(r)' /\ req'[r].pc \in {"run", "leave", "commit"} =>
                            req'[r].tx[<<r, a>>] # None
                      /\ \A o \in Requests \ {r}, a \in Actions : req'[r].pc \in {"slot", "acquire"} =>
                            req'[r].tx[<<o, a>>] = None
    BY DEF OwnRowsPending
  <2>1. CASE r \in V
    BY <1>1, <2>1, OwnSteps DEF Executes
  <2>2. CASE r \notin V
    BY <2>2 DEF RowInv, OwnRowsPending, Executes
  <2> QED
    BY <2>1, <2>2
<1>5. OwnRowsRun'
  BY <1>2 DEF RowInv, OwnRowsRun, Executes, None
<1>6. SuccessIsReal'
  BY <1>1 DEF RowInv, SuccessIsReal, None
<1>7. CompletionInv'
  <2> SUFFICES ASSUME status = "completed" PROVE \E w \in Requests : Witness(w)'
    BY DEF CompletionInv
  <2>1. PICK w \in Requests : Witness(w)
    BY DEF RowInv, CompletionInv
  <2>2. w \notin V
    BY <2>1 DEF Witness
  <2>3. CommittedExecution(w)'
    BY <2>1, <2>2 DEF Witness, CommittedExecution, At, Executes
  <2>4. Witness(w)'
    BY <1>1, <1>2, <2>1, <2>3, OwnSteps DEF Witness
  <2> QED
    BY <2>4
<1> QED
  BY <1>3, <1>4, <1>5, <1>6, <1>7 DEF RowInv

\* The same for one request.
LEMMA ClearedStep ==
    ASSUME TypeOK, RowInv, NEW r \in Requests, NEW q, Step(r, q),
           q.tx = NoRows, q.todo = {}, q.outcome = None,
           q.pc \notin {"slot", "run", "leave", "commit"},
           q.pc = "acquire" => q.kind \notin {"execute", "control"},
           q.pc = "create" => q.kind \in {"execute", "control"},
           ~CommittedExecution(r), UNCHANGED <<status, rows, applied>>
    PROVE  RowInv'
<1>1. req'[r] = q /\ \A p \in Requests \ {r} : req'[p] = req[p]
  BY Stepped
<1>2. {r} \in SUBSET Requests
  OBVIOUS
<1> QED
  BY <1>1, <1>2, ClearedSteps

\* A request that moves on without touching its transaction.
LEMMA LocalStep ==
    ASSUME TypeOK, RowInv, NEW r \in Requests, NEW q, Step(r, q),
           q.tx = req[r].tx, q.todo = req[r].todo, q.kind = req[r].kind,
           q.pc \notin {"committed", "create"}, ~At(r, "committed"),
           q.pc \in {"slot", "acquire"} => req[r].pc \in {"slot", "acquire"},
           req[r].pc \in {"slot", "acquire", "run", "leave"},
           /\ Executes(r) /\ q.outcome = "completed"
           /\ q.pc \in {"run", "leave", "commit"}
           => \A a \in Actions : Reaches(Executions \cup {r}, a) =>
                 req[r].tx[<<r, a>>] = "succeeded",
           UNCHANGED <<status, rows, applied>>
    PROVE  RowInv'
<1>1. req'[r] = q /\ \A p \in Requests \ {r} : req'[p] = req[p]
  BY Stepped
<1>2. \A p \in Requests : req'[p].tx = req[p].tx /\ req'[p].todo = req[p].todo
                          /\ req'[p].kind = req[p].kind
  BY <1>1
<1>3. \A p \in Requests : CommittedExecution(p)' <=> CommittedExecution(p)
  BY <1>1, <1>2 DEF CommittedExecution, At, Executes
<1>4. OwnRowsHidden'
  <2>1. \A p \in Requests : /\ Executes(p)' <=> Executes(p)
                            /\ \A x \in Steps : Untouched(p, x)' <=> Untouched(p, x)
    BY <1>2 DEF Executes, Untouched
  <2> QED
    BY <1>3, <2>1, OwnSteps DEF RowInv, OwnRowsHidden
<1>9. Executions' = Executions
  BY SameExecutions
<1>5. OwnRowsPending'
  BY <1>1 DEF RowInv, OwnRowsPending, Executes, None
<1>6. OwnRowsRun'
  BY <1>1, <1>9 DEF RowInv, OwnRowsRun, Executes
<1>7. SuccessIsReal'
  BY <1>2 DEF RowInv, SuccessIsReal
<1>8. CompletionInv'
  BY <1>2, <1>3, <1>9 DEF RowInv, CompletionInv, Witness
<1> QED
  BY <1>4, <1>5, <1>6, <1>7, <1>8 DEF RowInv

\* create_durable_plan inserts rows nobody else knows.
LEMMA CreateStep ==
    ASSUME TypeOK, RowInv, NEW r \in Requests, CreateDurablePlan(r)
    PROVE  RowInv'
<1> DEFINE q == [req[r] EXCEPT
                    !.tx = [x \in Steps |-> IF x[1] = r THEN "pending" ELSE None],
                    !.pc = IF req[r].kind = "execute" THEN "slot" ELSE "acquire"]
<1>1. /\ At(r, "create") /\ Executes(r) /\ UNCHANGED <<status, rows, applied>>
      /\ Step(r, q)
  BY DEF CreateDurablePlan, RowInv, OwnRowsPending, At
<1>2. req'[r] = q /\ \A p \in Requests \ {r} : req'[p] = req[p]
  BY <1>1, Stepped
<1>3. req[r] \in RequestType
  BY DEF TypeOK
<1>4. /\ q.tx = [x \in Steps |-> IF x[1] = r THEN "pending" ELSE None]
      /\ q.pc \in {"slot", "acquire"} /\ q.todo = req[r].todo /\ q.kind = req[r].kind
  BY <1>3 DEF RequestType
<1> HIDE DEF q
<1>5. \A p \in Requests, a \in Actions :
          req'[r].tx[<<p, a>>] = IF p = r THEN "pending" ELSE None
  BY <1>2, <1>4, OwnSteps
<1>6. \A p \in Requests : /\ Executes(p)' <=> Executes(p)
                          /\ CommittedExecution(p)' <=> CommittedExecution(p)
  BY <1>1, <1>2, <1>4 DEF Executes, CommittedExecution, At
<1>7. ~CommittedExecution(r)
  BY <1>1 DEF CommittedExecution, At
<1>13. Executions' = Executions
  BY <1>1, SameExecutions
<1>8. OwnRowsHidden'
  <2> SUFFICES ASSUME NEW p \in Requests, NEW a \in Actions
               PROVE  /\ ~CommittedExecution(p)' =>
                            /\ rows'[<<p, a>>] = None
                            /\ \A o \in Requests \ {p} : Untouched(o, <<p, a>>)'
                      /\ ~Executes(p)' => Untouched(p, <<p, a>>)'
    BY DEF OwnRowsHidden
  <2>1. ASSUME NEW o \in Requests, o # r \/ p # r, Untouched(o, <<p, a>>)
        PROVE  Untouched(o, <<p, a>>)'
    BY <1>2, <1>4, <1>5, <2>1 DEF Untouched
  <2> QED
    BY <1>1, <1>6, <2>1 DEF RowInv, OwnRowsHidden
<1>9. OwnRowsPending'
  BY <1>2, <1>4, <1>5, <1>6 DEF RowInv, OwnRowsPending
<1>10. OwnRowsRun'
  BY <1>2, <1>4, <1>6, <1>13 DEF RowInv, OwnRowsRun
<1>11. SuccessIsReal'
  <2>1. \A x \in Steps : req'[r].tx[x] # "succeeded"
    BY <1>2, <1>4 DEF None
  <2> QED
    BY <1>1, <1>2, <2>1 DEF RowInv, SuccessIsReal
<1>12. CompletionInv'
  <2> SUFFICES ASSUME status = "completed" PROVE \E w \in Requests : Witness(w)'
    BY <1>1 DEF CompletionInv
  <2>1. PICK w \in Requests : Witness(w)
    BY DEF RowInv, CompletionInv
  <2>2. w # r
    BY <1>7, <2>1 DEF Witness
  <2>3. \A a \in Actions : Reaches(Executions, a) => <<w, a>> \notin req'[r].todo
    BY <1>2, <1>4, <2>1 DEF Witness
  <2>4. Witness(w)'
    BY <1>1, <1>2, <1>5, <1>13, <2>1, <2>2, <2>3, WitnessKept
  <2> QED
    BY <2>4
<1> QED
  BY <1>8, <1>9, <1>10, <1>11, <1>12 DEF RowInv

\* The steps a run lists include its own, and no row that is settled or hidden.
LEMMA AcquireStep ==
    ASSUME TypeOK, RowInv, NEW r \in Requests, AcquireLease(r)
    PROVE  RowInv'
<1>0. PICK page \in SUBSET Existing(r) :
        /\ IsPage(r, page)
        /\ Step(r, [req[r] EXCEPT
                      !.pc = "run",
                      !.todo = {x \in page : View(r)[x] \in {"pending", "failed"}},
                      !.outcome = IF page = {} THEN "no_steps" ELSE "completed"])
  BY DEF AcquireLease
<1> DEFINE q == [req[r] EXCEPT
                    !.pc = "run",
                    !.todo = {x \in page : View(r)[x] \in {"pending", "failed"}},
                    !.outcome = IF page = {} THEN "no_steps" ELSE "completed"]
<1>1. At(r, "acquire") /\ UNCHANGED <<status, rows, applied>> /\ Step(r, q)
  BY <1>0 DEF AcquireLease
<1>13. Executions' = Executions
  BY <1>1, SameExecutions
<1>2. req'[r] = q /\ \A p \in Requests \ {r} : req'[p] = req[p]
  BY <1>1, Stepped
<1>3. req[r] \in RequestType
  BY DEF TypeOK
<1>4. /\ q.tx = req[r].tx /\ q.pc = "run" /\ q.kind = req[r].kind
      /\ q.todo = {x \in page : View(r)[x] \in {"pending", "failed"}}
  BY <1>3 DEF RequestType
<1> HIDE DEF q
<1>5. \A p \in Requests, a \in Actions :
          <<p, a>> \in req'[r].todo <=>
              /\ <<p, a>> \in page
              /\ (IF req[r].tx[<<p, a>>] = None THEN rows[<<p, a>>] ELSE req[r].tx[<<p, a>>])
                  \in {"pending", "failed"}
  BY <1>2, <1>4, OwnSteps DEF View
<1>6. \A p \in Requests : /\ Executes(p)' <=> Executes(p)
                          /\ CommittedExecution(p)' <=> CommittedExecution(p)
  BY <1>1, <1>2, <1>4 DEF Executes, CommittedExecution, At
<1>7. ~CommittedExecution(r)
  BY <1>1 DEF CommittedExecution, At
<1>8. OwnRowsHidden'
  <2> SUFFICES ASSUME NEW p \in Requests, NEW a \in Actions
               PROVE  /\ ~CommittedExecution(p)' =>
                            /\ rows'[<<p, a>>] = None
                            /\ \A o \in Requests \ {p} : Untouched(o, <<p, a>>)'
                      /\ ~Executes(p)' => Untouched(p, <<p, a>>)'
    BY DEF OwnRowsHidden
  <2>1. ASSUME NEW o \in Requests, Untouched(o, <<p, a>>), rows[<<p, a>>] = None
        PROVE  Untouched(o, <<p, a>>)'
    BY <1>2, <1>4, <1>5, <2>1 DEF Untouched, None
  <2>2. ASSUME p # r, Untouched(p, <<p, a>>) PROVE Untouched(p, <<p, a>>)'
    BY <1>2, <2>2 DEF Untouched
  <2> QED
    BY <1>1, <1>6, <1>7, <2>1, <2>2 DEF RowInv, OwnRowsHidden
<1>9. OwnRowsPending'
  BY <1>1, <1>2, <1>4, <1>6 DEF RowInv, OwnRowsPending, At, None
<1>10. OwnRowsRun'
  <2>1. ASSUME NEW a \in Actions, Executes(r), Reaches(Executions \cup {r}, a)
        PROVE  <<r, a>> \in req'[r].todo
    <3>1. req[r].tx[<<r, a>>] = "pending"
      BY <1>1, <2>1 DEF RowInv, OwnRowsPending, At
    <3>2. PICK x \in Existing(r) : x = <<r, a>>
      BY <3>1, OwnSteps DEF Existing, View, None
    <3>3. Existing(r) \subseteq (Executions \cup {r}) \X Actions
      <4> SUFFICES ASSUME NEW p \in Requests, NEW b \in Actions, <<p, b>> \in Existing(r)
                   PROVE  p \in Executions \cup {r}
        BY DEF Existing, Steps
      <4>1. CASE p # r
        <5>1. req[r].tx[<<p, b>>] = None
          BY <1>1, <4>1 DEF RowInv, OwnRowsPending, At
        <5> QED
          BY <5>1, OwnSteps DEF Existing, View, Executions
      <4> QED
        BY <4>1
    <3>4. Executions \cup {r} \in SUBSET Requests
      BY DEF Executions
    <3>5. x \in page
      <4>1. Reaches(Executions \cup {r}, x[2])
        BY <2>1, <3>2
      <4> HIDE DEF Reaches, Existing, IsPage, Executions
      <4> QED
        BY <1>0, <3>3, <3>4, <4>1, PageHolds
    <3> QED
      BY <1>5, <3>1, <3>2, <3>5, OwnSteps DEF None
  <2> QED
    <3> SUFFICES ASSUME NEW p \in Requests, NEW a \in Actions, Executes(p),
                        req'[p].outcome = "completed", Reaches(Executions \cup {p}, a)
                 PROVE  /\ req'[p].pc = "run" =>
                              <<p, a>> \in req'[p].todo \/ req'[p].tx[<<p, a>>] = "succeeded"
                        /\ req'[p].pc \in {"leave", "commit"} =>
                              req'[p].tx[<<p, a>>] = "succeeded"
      BY <1>6, <1>13 DEF OwnRowsRun, Reaches
    <3>1. CASE p = r
      BY <1>2, <1>4, <2>1, <3>1
    <3>2. CASE p # r
      BY <1>2, <3>2 DEF RowInv, OwnRowsRun
    <3> QED
      BY <3>1, <3>2
<1>11. SuccessIsReal'
  BY <1>1, <1>2, <1>4 DEF RowInv, SuccessIsReal
<1>12. CompletionInv'
  <2> SUFFICES ASSUME status = "completed" PROVE \E w \in Requests : Witness(w)'
    BY <1>1 DEF CompletionInv
  <2>1. PICK w \in Requests : Witness(w)
    BY DEF RowInv, CompletionInv
  <2>2. w # r
    BY <1>7, <2>1 DEF Witness
  <2>3. \A a \in Actions : Reaches(Executions, a) =>
             <<w, a>> \notin req'[r].todo /\ req'[r].tx[<<w, a>>] \in {None, "succeeded"}
    BY <1>2, <1>4, <1>5, <2>1 DEF Witness, None
  <2>4. Witness(w)'
    BY <1>1, <1>2, <1>13, <2>1, <2>2, <2>3, WitnessKept
  <2> QED
    BY <2>4
<1> QED
  BY <1>8, <1>9, <1>10, <1>11, <1>12 DEF RowInv

\* A step that runs is one the run listed: never a hidden row, never one that
\* an earlier completion rests on.
LEMMA RunStepKeeps ==
    ASSUME TypeOK, RowInv, NEW r \in Requests, NEW x \in Steps, NEW ok \in BOOLEAN,
           RunStep(r, x, ok)
    PROVE  RowInv'
<1>1. PICK rest \in IF ok THEN {req[r].todo \ {x}} ELSE {req[r].todo \ {x}, {}} :
          Step(r, [req[r] EXCEPT
                      !.todo = rest,
                      !.tx[x] = IF ok THEN "succeeded" ELSE "failed",
                      !.outcome = IF ok THEN @ ELSE "incomplete"])
  BY DEF RunStep
<1> DEFINE q == [req[r] EXCEPT
                    !.todo = rest,
                    !.tx[x] = IF ok THEN "succeeded" ELSE "failed",
                    !.outcome = IF ok THEN @ ELSE "incomplete"]
<1>2. req'[r] = q /\ \A p \in Requests \ {r} : req'[p] = req[p]
  BY <1>1, Stepped
<1>3. req[r] \in RequestType
  BY DEF TypeOK
<1>4. /\ q.tx = [req[r].tx EXCEPT ![x] = IF ok THEN "succeeded" ELSE "failed"]
      /\ q.pc = req[r].pc /\ q.kind = req[r].kind /\ q.todo = rest
      /\ q.outcome = IF ok THEN req[r].outcome ELSE "incomplete"
  BY <1>3 DEF RequestType
<1> HIDE DEF q
<1>5. At(r, "run") /\ x \in req[r].todo /\ UNCHANGED <<status, rows>>
  BY DEF RunStep
<1>6. rest \subseteq req[r].todo /\ (ok => rest = req[r].todo \ {x})
  BY <1>1
<1>7. /\ req'[r].tx[x] = IF ok THEN "succeeded" ELSE "failed"
      /\ \A y \in Steps \ {x} : req'[r].tx[y] = req[r].tx[y]
  BY <1>2, <1>3, <1>4 DEF RequestType
<1>8. \A p \in Requests : /\ Executes(p)' <=> Executes(p)
                          /\ CommittedExecution(p)' <=> CommittedExecution(p)
  BY <1>2, <1>4 DEF Executes, CommittedExecution, At
<1>9. ASSUME NEW o \in Requests, NEW y \in Steps, Untouched(o, y) PROVE Untouched(o, y)'
  BY <1>2, <1>4, <1>5, <1>6, <1>7, <1>9 DEF Untouched
<1>15. Executions' = Executions
  BY <1>5, SameExecutions
<1>10. OwnRowsHidden'
  BY <1>5, <1>8, <1>9, OwnSteps DEF RowInv, OwnRowsHidden
<1>11. OwnRowsPending'
  <2>1. \A a \in Actions : Executes(r) => req'[r].tx[<<r, a>>] # None
    BY <1>5, <1>7, OwnSteps DEF RowInv, OwnRowsPending, At, None
  <2>2. req'[r].pc = "run"
    BY <1>2, <1>4, <1>5 DEF At
  <2> QED
    BY <1>2, <1>8, <2>1, <2>2 DEF RowInv, OwnRowsPending
<1>12. OwnRowsRun'
  <2>1. ASSUME NEW a \in Actions, Executes(r), req'[r].outcome = "completed",
               Reaches(Executions \cup {r}, a)
        PROVE  <<r, a>> \in req'[r].todo \/ req'[r].tx[<<r, a>>] = "succeeded"
    <3>1. ok /\ req[r].outcome = "completed"
      BY <1>2, <1>4, <2>1
    <3>2. <<r, a>> \in req[r].todo \/ req[r].tx[<<r, a>>] = "succeeded"
      BY <1>5, <2>1, <3>1 DEF RowInv, OwnRowsRun, At
    <3> QED
      BY <1>2, <1>4, <1>6, <1>7, <3>1, <3>2, OwnSteps
  <2>2. req'[r].pc = "run"
    BY <1>2, <1>4, <1>5 DEF At
  <2> QED
    BY <1>2, <1>8, <1>15, <2>1, <2>2 DEF RowInv, OwnRowsRun
<1>13. SuccessIsReal'
  <2>1. /\ \A a \in Actions : applied[a] > 0 => applied'[a] > 0
        /\ ok => applied'[x[2]] > 0
    <3>1. x[2] \in Actions
      BY DEF Steps
    <3> QED
      BY <3>1 DEF RunStep, TypeOK
  <2>2. \A y \in Steps : y[2] \in Actions
    BY DEF Steps
  <2>3. \A y \in Steps : req'[r].tx[y] = "succeeded" => applied'[y[2]] > 0
    <3> SUFFICES ASSUME NEW y \in Steps, req'[r].tx[y] = "succeeded"
                 PROVE  applied'[y[2]] > 0
      OBVIOUS
    <3>1. CASE y = x
      BY <1>7, <2>1, <3>1
    <3>2. CASE y # x
      BY <1>7, <2>1, <2>2, <3>2 DEF RowInv, SuccessIsReal
    <3> QED
      BY <3>1, <3>2
  <2> QED
    BY <1>2, <1>5, <2>1, <2>2, <2>3 DEF RowInv, SuccessIsReal
<1>14. CompletionInv'
  <2> SUFFICES ASSUME status = "completed" PROVE \E w \in Requests : Witness(w)'
    BY <1>5 DEF CompletionInv
  <2>1. PICK w \in Requests : Witness(w)
    BY DEF RowInv, CompletionInv
  <2>2. w # r
    BY <1>5, <2>1 DEF Witness, CommittedExecution, At
  <2>3. \A a \in Actions : Reaches(Executions, a) =>
             <<w, a>> \notin req'[r].todo /\ req'[r].tx[<<w, a>>] \in {None, "succeeded"}
    BY <1>2, <1>4, <1>5, <1>6, <1>7, <2>1, OwnSteps DEF Witness
  <2>4. Witness(w)'
    BY <1>2, <1>5, <1>15, <2>1, <2>2, <2>3, WitnessKept
  <2> QED
    BY <2>4
<1> QED
  BY <1>10, <1>11, <1>12, <1>13, <1>14 DEF RowInv

\* A commit publishes rows and status together: an execution that answers
\* "completed" becomes the plan's witness, and no commit takes a witness away.
LEMMA CommitStep ==
    ASSUME TypeOK, RowInv, NEW r \in Requests, Commit(r)
    PROVE  RowInv'
<1> DEFINE q == [Over(r, "committed") EXCEPT !.outcome = req[r].outcome]
<1>1. /\ At(r, "commit") /\ rows' = View(r) /\ status' = NewStatus(r)
      /\ Step(r, q) /\ applied' = applied
  BY DEF Commit
<1>2. req'[r] = q /\ \A p \in Requests \ {r} : req'[p] = req[p]
  BY <1>1, Stepped
<1>3. q.tx = NoRows /\ q.pc = "committed" /\ q.kind = req[r].kind /\ q.todo = {}
  BY DEF Over, IdleRequest
<1> HIDE DEF q
<1>4. \A x \in Steps :
          rows'[x] = IF req[r].tx[x] = None THEN rows[x] ELSE req[r].tx[x]
  BY <1>1 DEF View
<1>5. \A x \in Steps : req'[r].tx[x] = None
  BY <1>2, <1>3 DEF NoRows
<1>6. ~CommittedExecution(r) /\ (CommittedExecution(r)' <=> Executes(r))
  BY <1>1, <1>2, <1>3 DEF CommittedExecution, At, Executes
<1>7. \A p \in Requests : Executes(p)' <=> Executes(p)
  BY <1>2, <1>3 DEF Executes
<1>8. \A p \in Requests \ {r} : CommittedExecution(p)' <=> CommittedExecution(p)
  BY <1>2 DEF CommittedExecution, At, Executes
<1>9. ASSUME NEW o \in Requests, NEW y \in Steps, Untouched(o, y) PROVE Untouched(o, y)'
  BY <1>2, <1>3, <1>5, <1>9 DEF Untouched
<1>15. /\ Executions \subseteq Executions' /\ Executions' \in SUBSET Requests
       /\ Executes(r) => \A a \in Actions : r \in Executions'
  <2>1. \A x \in Steps : rows[x] # None => rows'[x] # None
    BY <1>4
  <2>2. ASSUME Executes(r), NEW a \in Actions PROVE rows'[<<r, a>>] # None
    BY <1>1, <1>4, <2>2, OwnSteps DEF RowInv, OwnRowsPending, At
  <2> QED
    BY <2>1, <2>2, OwnSteps DEF Executions
<1>16. ASSUME NEW a \in Actions PROVE Reaches(Executions', a) => Reaches(Executions, a)
  BY <1>15, ReachesFewer
<1>17. ASSUME NEW a \in Actions, NEW p \in Requests
       PROVE  Reaches(Executions' \cup {p}, a) => Reaches(Executions \cup {p}, a)
  <2>1. Executions' \cup {p} \in SUBSET Requests
        /\ Executions \cup {p} \in SUBSET (Executions' \cup {p})
    BY <1>15
  <2> QED
    BY <2>1, ReachesFewer
<1>10. OwnRowsHidden'
  <2> SUFFICES ASSUME NEW p \in Requests, NEW a \in Actions
               PROVE  /\ ~CommittedExecution(p)' =>
                            /\ rows'[<<p, a>>] = None
                            /\ \A o \in Requests \ {p} : Untouched(o, <<p, a>>)'
                      /\ ~Executes(p)' => Untouched(p, <<p, a>>)'
    BY DEF OwnRowsHidden
  <2>1. ASSUME ~CommittedExecution(p)'
        PROVE  ~CommittedExecution(p) /\ Untouched(r, <<p, a>>)
    BY <1>6, <1>8, <2>1 DEF RowInv, OwnRowsHidden
  <2>2. ASSUME ~CommittedExecution(p)' PROVE rows'[<<p, a>>] = None
    BY <1>4, <2>1, <2>2, OwnSteps DEF RowInv, OwnRowsHidden, Untouched
  <2> QED
    BY <1>7, <1>9, <2>1, <2>2, OwnSteps DEF RowInv, OwnRowsHidden
<1>11. OwnRowsPending'
  BY <1>2, <1>3, <1>7 DEF RowInv, OwnRowsPending
<1>12. OwnRowsRun'
  BY <1>2, <1>3, <1>7, <1>17 DEF RowInv, OwnRowsRun
<1>13. SuccessIsReal'
  BY <1>1, <1>2, <1>4, <1>5 DEF RowInv, SuccessIsReal, None
<1>14. CompletionInv'
  <2> SUFFICES ASSUME status' = "completed" PROVE \E w \in Requests : Witness(w)'
    BY DEF CompletionInv
  <2>1. \/ status = "completed"
        \/ req[r].kind = "execute" /\ req[r].outcome = "completed"
    <3>1. CASE req[r].kind # "execute"
      BY <1>1, <3>1 DEF NewStatus
    <3>2. CASE req[r].kind = "execute" /\ req[r].outcome # "completed"
      <4>1. NewStatus(r) \in {"executing", "failed"}
        BY <3>2 DEF NewStatus
      <4> QED
        BY <1>1, <4>1
    <3> QED
      BY <3>1, <3>2
  <2>2. CASE status = "completed"
    <3>1. PICK w \in Requests : Witness(w)
      BY <2>2 DEF RowInv, CompletionInv
    <3>2. w # r
      BY <1>6, <3>1 DEF Witness
    <3>3. \A a \in Actions : Reaches(Executions', a) =>
             /\ Reaches(Executions, a)
             /\ rows'[<<w, a>>] = rows[<<w, a>>]
             /\ req'[r].tx[<<w, a>>] = None
             /\ <<w, a>> \notin req'[r].todo
      BY <1>2, <1>3, <1>4, <1>5, <1>16, <3>1, OwnSteps DEF Witness
    <3>4. Witness(w)'
      BY <1>2, <3>1, <3>2, <3>3, WitnessKept
    <3> QED
      BY <3>4
  <2>3. CASE req[r].kind = "execute" /\ req[r].outcome = "completed"
    <3>1. CommittedExecution(r)'
      BY <1>6, <2>3 DEF Executes
    <3>2. ASSUME NEW a \in Actions, Reaches(Executions', a) PROVE rows'[<<r, a>>] = "succeeded"
      <4>1. Executes(r)
        BY <2>3 DEF Executes
      <4>2. Executions' \cup {r} = Executions'
        BY <1>15, <4>1
      <4>3. Reaches(Executions \cup {r}, a)
        BY <1>17, <3>2, <4>2
      <4>4. req[r].tx[<<r, a>>] = "succeeded"
        BY <1>1, <2>3, <4>1, <4>3 DEF RowInv, OwnRowsRun, At
      <4> QED
        BY <1>4, <4>4, OwnSteps DEF None
    <3>3. \A a \in Actions, o \in Requests : Untouched(o, <<r, a>>)'
      <4>1. \A a \in Actions, o \in Requests \ {r} : Untouched(o, <<r, a>>)
        BY <1>6 DEF RowInv, OwnRowsHidden
      <4> QED
        BY <1>2, <1>3, <1>5, <4>1, OwnSteps DEF Untouched
    <3>4. Witness(r)'
      BY <3>1, <3>2, <3>3 DEF Witness, Untouched
    <3> QED
      BY <3>4
  <2> QED
    BY <2>1, <2>2, <2>3
<1> QED
  BY <1>10, <1>11, <1>12, <1>13, <1>14 DEF RowInv

\* Every action keeps rows, transactions and status in accord.
LEMMA RowInductive == TypeOK /\ RowInv /\ [Next]_vars => RowInv'
<1> SUFFICES ASSUME TypeOK, RowInv, [Next]_vars PROVE RowInv'
  OBVIOUS
<1>0. ASSUME NEW r \in Requests PROVE req[r] \in RequestType
  BY DEF TypeOK
<1>1. ASSUME NEW r \in Requests, NEW k \in Kinds, NEW p \in Processes, Enter(r, k, p)
      PROVE  RowInv'
  <2>1. /\ Entered(k, p).tx = NoRows /\ Entered(k, p).todo = {} /\ Entered(k, p).outcome = None
        /\ Entered(k, p).pc \in {"create", "acquire"} /\ Entered(k, p).kind = k
        /\ Entered(k, p).pc = "create" <=> k \in {"execute", "control"}
    BY DEF Entered, IdleRequest
  <2>2. Step(r, Entered(k, p)) /\ ~CommittedExecution(r) /\ UNCHANGED <<status, rows, applied>>
    BY <1>1 DEF Enter, CommittedExecution, At
  <2> QED
    BY <2>1, <2>2, ClearedStep
<1>2. ASSUME NEW r \in Requests, BeginCompensation(r) PROVE RowInv'
  BY <1>0, <1>2, LocalStep DEF BeginCompensation, At, RequestType
<1>3. ASSUME NEW r \in Requests
      PROVE  \A pc : /\ Over(r, pc).tx = NoRows /\ Over(r, pc).todo = {}
                     /\ Over(r, pc).outcome = None /\ Over(r, pc).pc = pc
  BY DEF Over, IdleRequest
<1>4. ASSUME NEW r \in Requests, QuotaExhausted(r) PROVE RowInv'
  <2>1. /\ Step(r, Over(r, "rolled_back")) /\ ~CommittedExecution(r)
        /\ UNCHANGED <<status, rows, applied>>
    BY <1>4 DEF QuotaExhausted, CommittedExecution, At
  <2> QED
    BY <1>3, <2>1, ClearedStep
<1>5. ASSUME NEW r \in Requests, AlreadyRunning(r) PROVE RowInv'
  BY <1>0, <1>5, LocalStep DEF AlreadyRunning, At, RequestType
<1>6. ASSUME NEW r \in Requests, ReleaseLease(r) PROVE RowInv'
  <2>1. Executes(r) /\ req[r].outcome = "completed"
        => \A a \in Actions : Reaches(Executions \cup {r}, a) =>
              req[r].tx[<<r, a>>] = "succeeded"
    BY <1>6 DEF ReleaseLease, RowInv, OwnRowsRun, At
  <2> QED
    BY <1>0, <1>6, <2>1, LocalStep DEF ReleaseLease, At, RequestType
<1>7. ASSUME NEW r \in Requests, EndCompensation(r) PROVE RowInv'
  <2>1. Executes(r) /\ req[r].outcome = "completed"
        => \A a \in Actions : Reaches(Executions \cup {r}, a) =>
              req[r].tx[<<r, a>>] = "succeeded"
    BY <1>7 DEF EndCompensation, RowInv, OwnRowsRun, At
  <2> QED
    BY <1>0, <1>7, <2>1, LocalStep DEF EndCompensation, At, RequestType
<1>8. ASSUME NEW r \in Requests, Raise(r) \/ EndCompensationFails(r) PROVE RowInv'
  <2>1. /\ Step(r, Over(r, "rolled_back")) /\ ~CommittedExecution(r)
        /\ UNCHANGED <<status, rows, applied>>
    BY <1>8 DEF Raise, EndCompensationFails, CommittedExecution, At, Running
  <2> QED
    BY <1>3, <2>1, ClearedStep
<1>9. ASSUME NEW p \in Processes, Crash(p) PROVE RowInv'
  <2> DEFINE V == {r \in Requests : RunsIn(r, p)}
  <2>1. /\ \A r \in V : req'[r] = Over(r, "crashed")
        /\ \A r \in Requests \ V : req'[r] = req[r]
        /\ UNCHANGED <<status, rows, applied>>
    BY <1>9 DEF Crash
  <2>2. V \in SUBSET Requests /\ \A r \in V : ~CommittedExecution(r)
    BY DEF RunsIn, CommittedExecution, At, Running
  <2> HIDE DEF V
  <2>3. \A r \in V : /\ req'[r].tx = NoRows /\ req'[r].todo = {} /\ req'[r].outcome = None
                     /\ req'[r].pc = "crashed"
    BY <1>3, <2>1, <2>2
  <2> QED
    BY <2>1, <2>2, <2>3, ClearedSteps
<1>10. ASSUME NEW r \in Requests, ResumeAgain(r) PROVE RowInv'
  <2>1. IdleRequest.tx = NoRows /\ IdleRequest.todo = {} /\ IdleRequest.outcome = None
        /\ IdleRequest.pc = "idle"
    BY DEF IdleRequest
  <2>2. Step(r, IdleRequest) /\ ~CommittedExecution(r) /\ UNCHANGED <<status, rows, applied>>
    BY <1>10 DEF ResumeAgain, CommittedExecution
  <2> QED
    BY <2>1, <2>2, ClearedStep
<1>11. CASE SimulatePlan
  BY <1>11 DEF SimulatePlan, RowInv, OwnRowsHidden, OwnRowsPending, OwnRowsRun, SuccessIsReal,
               CompletionInv, CommittedExecution, Untouched, At, Executes, Executions
<1>12. CASE (\E p \in Processes, b \in BOOLEAN : SetEmergencyDeny(p, b)) \/ UNCHANGED vars
  <2>1. UNCHANGED <<status, rows, applied, req>>
    BY <1>12 DEF SetEmergencyDeny, vars
  <2>2. {} \in SUBSET Requests /\ \A p \in Requests \ {} : req'[p] = req[p]
    BY <2>1
  <2> QED
    BY <2>1, <2>2, ClearedSteps
<1> QED
  BY <1>1, CreateStep, <1>2, <1>4, AcquireStep, <1>5, RunStepKeeps, <1>6, <1>7, CommitStep,
     <1>8, <1>9, <1>10, <1>11, <1>12 DEF Next, RequestStep

\* At the start nothing is inserted, held or completed.
LEMMA RouteInitially == Init => TypeOK /\ SlotInv /\ RowInv
<1> SUFFICES ASSUME Init PROVE TypeOK /\ SlotInv /\ RowInv
  OBVIOUS
<1>1. IdleRequest \in RequestType
  BY DEF IdleRequest, RequestType, NoRows, RowStates
<1>2. TypeOK
  <2>1. rows \in [Steps -> RowStates]
    BY DEF Init, NoRows, RowStates
  <2>2. req \in [Requests -> RequestType]
    BY <1>1 DEF Init
  <2>3. status \in Statuses /\ applied \in [Actions -> 0..2]
    BY DEF Init, Statuses
  <2> QED
    BY <2>1, <2>2, <2>3 DEF Init, TypeOK
<1>3. \A r \in Requests : /\ req[r].pc = "idle" /\ req[r].slot = FALSE /\ req[r].kind = None
                          /\ req[r].todo = {} /\ \A x \in Steps : req[r].tx[x] = None
  <2>1. \A r \in Requests : req[r] = IdleRequest
    BY DEF Init
  <2>2. \A x \in Steps : NoRows[x] = None
    BY DEF NoRows
  <2> QED
    BY <2>1, <2>2 DEF IdleRequest
<1>4. SlotInv
  <2>1. Slots = {}
    BY <1>3 DEF Slots
  <2> QED
    BY <1>3, <2>1, FS_EmptySet, RouteAssumption DEF SlotInv, Init
<1>5. \A x \in Steps : rows[x] = None
  BY DEF Init, NoRows
<1>6. RowInv
  <2>1. OwnRowsHidden
    BY <1>3, <1>5, OwnSteps DEF OwnRowsHidden, Untouched
  <2>2. OwnRowsPending /\ OwnRowsRun
    BY <1>3 DEF OwnRowsPending, OwnRowsRun, Executes, None
  <2>3. SuccessIsReal /\ CompletionInv
    BY <1>3, <1>5 DEF SuccessIsReal, CompletionInv, Init, None
  <2> QED
    BY <2>1, <2>2, <2>3 DEF RowInv
<1> QED
  BY <1>2, <1>4, <1>6

\* The invariant holds in every reachable state.
LEMMA RouteInvariant == Spec => [](TypeOK /\ SlotInv /\ RowInv)
<1>1. Init => TypeOK /\ SlotInv /\ RowInv
  BY RouteInitially
<1>2. TypeOK /\ SlotInv /\ RowInv /\ [Next]_vars => (TypeOK /\ SlotInv /\ RowInv)'
  BY TypeInductive, SlotInductive, RowInductive
<1> QED
  BY <1>1, <1>2, PTL DEF Spec

-----------------------------------------------------------------------------
\* Requests, transactions and the quota counter keep their types; the counter
\* is never negative.
THEOREM RouteTypesCorrect == Spec => []TypeOK
<1>1. TypeOK /\ SlotInv /\ RowInv => TypeOK
  OBVIOUS
<1> QED
  BY <1>1, RouteInvariant, PTL

\* begin_compensation and end_compensation keep the tenant's counter equal to
\* the slots in use and lost, within the limit, for any number of requests.
THEOREM SlotsAlwaysAccounted == Spec => []SlotsAccounted
<1>1. TypeOK /\ SlotInv /\ RowInv => SlotsAccounted
  BY DEF SlotInv, Slots, SlotsAccounted
<1> QED
  BY <1>1, RouteInvariant, PTL

\* A plan stored as COMPLETED was compensated as far as the page of list_by_plan
\* reaches and its committed rows say so, whatever executions and resumes run
\* beside it, fail or die.
THEOREM CompletionBacked == Spec => []CompletedIsBacked
<1>1. TypeOK /\ SlotInv /\ RowInv => CompletedIsBacked
  <2> SUFFICES ASSUME RowInv, status = "completed", NEW a \in Actions, OnThePage(a)
               PROVE  applied[a] > 0 /\ \E r \in Requests : rows[<<r, a>>] = "succeeded"
    BY DEF CompletedIsBacked
  <2>1. PICK w \in Requests : Witness(w)
    BY DEF RowInv, CompletionInv
  <2>2. rows[<<w, a>>] = "succeeded"
    BY <2>1 DEF Witness, OnThePage, Reaches
  <2>3. applied[a] > 0
    BY <2>2, OwnSteps DEF RowInv, SuccessIsReal
  <2> QED
    BY <2>2, <2>3
<1> QED
  BY <1>1, RouteInvariant, PTL
=============================================================================
