--------------------------- MODULE DurableRecovery ---------------------------
(***************************************************************************)
(* DistributedRecoveryOrchestrator: several orchestrator instances, one    *)
(* per request, execute or resume the same durable recovery plan.  They    *)
(* share the plan lease (PlanLease) and the durable step rows, whose       *)
(* writes are fenced by the lease's token.                                 *)
(*                                                                         *)
(* Every call to the lease store, the step repository or an adapter is a   *)
(* step of its own, so other instances, a lapse of the lease or a crash    *)
(* may come between any two of them.                                       *)
(*                                                                         *)
(* A save only flushes a row into the transaction of the request, which    *)
(* commits after the lease has been released and rolls back when the       *)
(* request raises.  Until then the other requests, which run in other      *)
(* processes, list the committed rows and wait before they overwrite a     *)
(* row that an open transaction has written.  The lease store commits on   *)
(* its own.                                                                *)
(***************************************************************************)
EXTENDS PlanLease, FiniteSets

CONSTANTS N,               \* number of steps of the plan
          PageLimit,       \* limit given to list_by_plan (500 in the code)
          StopConditions,  \* the plan's stop_conditions
          OutcomeStates,   \* execution states a step can end in, given the
                           \* registered adapters and the captured evidence
          Faults           \* the kinds of fault that may occur

ASSUME NAssumption == N \in Nat \ {0}
ASSUME PageLimitAssumption == PageLimit \in Nat \ {0}

VARIABLES
    rows,        \* the step rows as last written, in execution order
    committed,   \* the step rows as committed
    writer,      \* the instance whose open transaction wrote the row
    pc,          \* what each instance does next
    mode,        \* "execute" or "resume"
    snap,        \* the rows as list_by_plan returned them to the instance
    verdict,     \* resume: the UNKNOWN steps an adapter verified
    cur,         \* index of the step the loop is at
    tok,         \* fencing token of the instance's lease
    tally,       \* the loop's counters and its stopped flag
    out,         \* step outcome computed but not yet saved
    result,      \* what the call returned
    \* History variables: they record what happened and guard nothing.
    expired,     \* tokens of the tenures that lapsed
    blind,       \* instances that listed while a transaction was open
    clobbered,   \* steps written by an instance whose list was outdated
    lateCalls,   \* adapter executions the instance began after its lapse
    applied,     \* steps an adapter reported as compensated
    lost         \* steps whose report of success never became durable

db == <<rows, committed, writer>>
known == <<expired, blind, clobbered, lateCalls, applied>>
history == <<expired, blind, clobbered, lateCalls, applied, lost>>
control == <<pc, mode, snap, verdict, cur, tok, tally, out, result>>
vars == <<lease, db, control, history>>

Instances == Owners
Steps == 1 .. N

\* list_by_plan returns the first PageLimit rows, and their number as total.
Loaded == IF N <= PageLimit THEN N ELSE PageLimit
Listed == 1 .. Loaded

(***************************************************************************)
(* ExecutionState.  "ABSENT" is a row not created yet.  RUNNING,           *)
(* PARTIAL_SUCCESS and STOPPED are written by nothing.                     *)
(***************************************************************************)
AdapterStates == {"SUCCEEDED", "FAILED", "BLOCKED_BY_DRIFT",
                  "BLOCKED_BY_CONFLICT", "REQUIRES_MANUAL_ACTION",
                  "UNKNOWN_EXTERNAL_OUTCOME"}
ASSUME OutcomeStatesAssumption == OutcomeStates \subseteq AdapterStates
ASSUME FaultsAssumption == Faults \subseteq {"crash", "raise"}
States == AdapterStates \cup {"ABSENT", "PENDING"}

View == [state : States, verified : BOOLEAN, retry : Nat]
Row == [state : States, verified : BOOLEAN, retry : Nat, fence : Nat]
ViewOf(r) == [state |-> r.state, verified |-> r.verified, retry |-> r.retry]

Outcome == [state : AdapterStates, verified : BOOLEAN, guarded : BOOLEAN]

PCs == {"idle", "list", "boundary", "run", "save", "release", "commit", "done",
        "crashed"}

(***************************************************************************)
(* status and verification_status of a result; "NONE" where the code sets  *)
(* no verification_status, "raised" when an exception left the call.       *)
(***************************************************************************)
Statuses == {"none", "already_running", "no_steps", "lease_lost", "completed",
             "stopped", "partial", "raised"}
Verifications == {"NONE", "EXECUTED_AND_VERIFIED", "EXECUTED_NOT_VERIFIED",
                  "EXECUTION_FAILED"}
Result == [status : Statuses, verification : Verifications]

Tally == [completed : Nat, failed : Nat, unverified : Nat, stopped : BOOLEAN]

TypeOK ==
    /\ lease \in LeaseType
    /\ rows \in [Steps -> Row] /\ committed \in [Steps -> Row]
    /\ writer \in [Steps -> Instances \cup {NoOwner}]
    /\ pc \in [Instances -> PCs]
    /\ mode \in [Instances -> {"execute", "resume"}]
    /\ snap \in [Instances -> [Steps -> View]]
    /\ verdict \in [Instances -> SUBSET Steps]
    /\ cur \in [Instances -> 1 .. Loaded + 1]
    /\ tok \in [Instances -> Nat]
    /\ tally \in [Instances -> Tally]
    /\ out \in [Instances -> Outcome]
    /\ result \in [Instances -> Result]
    /\ expired \subseteq Nat /\ blind \subseteq Instances
    /\ clobbered \subseteq Steps /\ applied \subseteq Steps /\ lost \subseteq Steps
    /\ lateCalls \in [Instances -> Nat]

NoView == [state |-> "ABSENT", verified |-> FALSE, retry |-> 0]
NoOutcome == [state |-> "FAILED", verified |-> FALSE, guarded |-> FALSE]
ZeroTally == [completed |-> 0, failed |-> 0, unverified |-> 0, stopped |-> FALSE]

Init ==
    /\ LeaseInit
    /\ rows = [s \in Steps |-> [state |-> "ABSENT", verified |-> FALSE,
                                retry |-> 0, fence |-> 0]]
    /\ committed = rows
    /\ writer = [s \in Steps |-> NoOwner]
    /\ pc = [i \in Instances |-> "idle"]
    /\ mode \in [Instances -> {"execute", "resume"}]
    /\ snap = [i \in Instances |-> [s \in Steps |-> NoView]]
    /\ verdict = [i \in Instances |-> {}]
    /\ cur = [i \in Instances |-> 1]
    /\ tok = [i \in Instances |-> 0]
    /\ tally = [i \in Instances |-> ZeroTally]
    /\ out = [i \in Instances |-> NoOutcome]
    /\ result = [i \in Instances |-> [status |-> "none", verification |-> "NONE"]]
    /\ expired = {} /\ blind = {} /\ clobbered = {} /\ applied = {} /\ lost = {}
    /\ lateCalls = [i \in Instances |-> 0]
-----------------------------------------------------------------------------
(***************************************************************************)
(* create_durable_plan: one unfenced save per action, fence left at 0, in  *)
(* a request that has committed.                                           *)
(***************************************************************************)
PlanCreated == \A s \in Steps : rows[s].state # "ABSENT"

CreateDurablePlan ==
    /\ ~PlanCreated
    /\ rows' = [s \in Steps |-> [rows[s] EXCEPT !.state = "PENDING"]]
    /\ committed' = rows'
    /\ UNCHANGED <<lease, writer, control, history>>

\* An adapter reported success and no row says so yet.
InHand(i) == IF pc[i] = "save" /\ out[i].state = "SUCCEEDED" THEN {cur[i]} ELSE {}

\* Rows that only the open transaction of i says have succeeded.
Uncommitted(i) == {s \in Steps : writer[s] = i /\ rows[s].state = "SUCCEEDED"}

\* The frame of the loop is gone: its locals are back at their initial values.
\* (verdict stays: a result reports it as verification_results.)
DropLocals(i) ==
    /\ snap' = [snap EXCEPT ![i] = [s \in Steps |-> NoView]]
    /\ cur' = [cur EXCEPT ![i] = 1]
    /\ tally' = [tally EXCEPT ![i] = ZeroTally]
    /\ out' = [out EXCEPT ![i] = NoOutcome]

\* The loop returns to its caller, whose finally clause releases the lease.
\* What the adapter reported and no save recorded is lost.
Return(i, status, verification) ==
    /\ DropLocals(i)
    /\ lost' = lost \cup InHand(i)
    /\ result' = [result EXCEPT ![i] = [status |-> status,
                                        verification |-> verification]]
    /\ pc' = [pc EXCEPT ![i] = "release"]

AcquireLease(i) ==
    /\ pc[i] = "idle"
    /\ TryAcquire(i, "live")
    /\ tok' = [tok EXCEPT ![i] = lease'.token]
    /\ pc' = [pc EXCEPT ![i] = "list"]
    /\ UNCHANGED <<db, mode, snap, verdict, cur, tally, out, result, history>>

\* try_acquire returned None: no lease was taken and none is released.
AlreadyRunning(i) ==
    /\ pc[i] = "idle"
    /\ ~CanAcquire
    /\ result' = [result EXCEPT ![i].status = "already_running"]
    /\ pc' = [pc EXCEPT ![i] = "done"]
    /\ UNCHANGED <<lease, db, mode, snap, verdict, cur, tok, tally, out, history>>

NoSteps(i) ==
    /\ pc[i] = "list"
    /\ ~PlanCreated
    /\ Return(i, "no_steps", "NONE")
    /\ UNCHANGED <<lease, db, mode, verdict, tok, known>>

(***************************************************************************)
(* list_by_plan reads committed rows: what a transaction that is still     *)
(* open has written is not among them.  A resume then asks the adapters    *)
(* about every step whose outcome is unknown (any subset may turn out      *)
(* verified) and counts the steps already done; an execute counts them as  *)
(* its loop meets them.                                                    *)
(***************************************************************************)
ListByPlan(i) ==
    /\ pc[i] = "list"
    /\ PlanCreated
    /\ snap' = [snap EXCEPT ![i] = [s \in Steps |-> ViewOf(committed[s])]]
    /\ \/ /\ mode[i] = "execute"
          /\ UNCHANGED <<verdict, tally>>
       \/ /\ mode[i] = "resume"
          /\ \E V \in SUBSET {s \in Listed : committed[s].state = "UNKNOWN_EXTERNAL_OUTCOME"} :
                verdict' = [verdict EXCEPT ![i] = V]
          /\ tally' = [tally EXCEPT ![i].completed =
                         Cardinality({s \in Listed : committed[s].state = "SUCCEEDED"})]
    /\ pc' = [pc EXCEPT ![i] = "boundary"]
    /\ blind' = IF \E s \in Steps : writer[s] # NoOwner THEN blind \cup {i} ELSE blind
    /\ UNCHANGED <<lease, db, mode, cur, tok, out, result,
                   expired, clobbered, lateCalls, applied, lost>>

LoopDone(i) == cur[i] > Loaded \/ tally[i].stopped

AtStep(i) == pc[i] = "boundary" /\ ~LoopDone(i)

\* A resume passes over these steps before it renews its lease.
ResumeSkips(i) ==
    /\ mode[i] = "resume"
    /\ snap[i][cur[i]].state = "SUCCEEDED" \/ cur[i] \in verdict[i]

\* Variant: a step that is already done is counted when it is met as well.
PassOverCountsTwice(i) ==
    /\ AtStep(i)
    /\ ResumeSkips(i)
    /\ tally' = [tally EXCEPT ![i].completed = @ + 1]
    /\ cur' = [cur EXCEPT ![i] = @ + 1]
    /\ UNCHANGED <<lease, db, pc, mode, snap, verdict, tok, out, result, history>>

PassOver(i) ==
    /\ AtStep(i)
    /\ ResumeSkips(i)
    /\ tally' = [tally EXCEPT ![i].completed =
                   IF cur[i] \in verdict[i] THEN @ + 1 ELSE @]
    /\ cur' = [cur EXCEPT ![i] = @ + 1]
    /\ UNCHANGED <<lease, db, pc, mode, snap, verdict, tok, out, result, history>>

\* Variant: the heartbeat is polled until it succeeds.
LoseLeasePolls(i) ==
    /\ AtStep(i)
    /\ ~ResumeSkips(i)
    /\ ~CanRenew(i)
    /\ UNCHANGED vars

\* The heartbeat at a step boundary failed: another instance may be at work.
LoseLease(i) ==
    /\ AtStep(i)
    /\ ~ResumeSkips(i)
    /\ ~CanRenew(i)
    /\ Return(i, "lease_lost",
              IF mode[i] = "resume" THEN "NONE"
              ELSE IF tally[i].completed > 0 THEN "EXECUTED_NOT_VERIFIED"
              ELSE "EXECUTION_FAILED")
    /\ UNCHANGED <<lease, db, mode, verdict, tok, known>>

\* Variant: renew checks the owner and forgets the expiry.
HeartbeatOwnerOnly(i) ==
    /\ AtStep(i)
    /\ ~ResumeSkips(i)
    /\ Renew(i, "live")
    /\ tok' = [tok EXCEPT ![i] = lease.token]

Heartbeat(i) ==
    /\ AtStep(i)
    /\ ~ResumeSkips(i)
    /\ CanRenew(i)
    /\ Renew(i, "live")
    /\ tok' = [tok EXCEPT ![i] = lease.token]

\* Variant: a step of an earlier run counts as verified.
CountDoneTrusting(i) ==
    /\ Heartbeat(i)
    /\ snap[i][cur[i]].state = "SUCCEEDED"
    /\ tally' = [tally EXCEPT ![i].completed = @ + 1]
    /\ cur' = [cur EXCEPT ![i] = @ + 1]
    /\ UNCHANGED <<db, pc, mode, snap, verdict, out, result, history>>

\* execute: a step that succeeded in an earlier run is counted, not repeated.
CountDone(i) ==
    /\ Heartbeat(i)
    /\ snap[i][cur[i]].state = "SUCCEEDED"
    /\ tally' = [tally EXCEPT ![i].completed = @ + 1,
                              ![i].unverified =
                                IF snap[i][cur[i]].verified THEN @ ELSE @ + 1]
    /\ cur' = [cur EXCEPT ![i] = @ + 1]
    /\ UNCHANGED <<db, pc, mode, snap, verdict, out, result, history>>

\* Variant: steps that succeeded in an earlier run are not skipped.
BeginAnyStep(i) ==
    /\ Heartbeat(i)
    /\ pc' = [pc EXCEPT ![i] = "run"]
    /\ UNCHANGED <<db, mode, snap, verdict, cur, tally, out, result, history>>

BeginStep(i) ==
    /\ Heartbeat(i)
    /\ snap[i][cur[i]].state # "SUCCEEDED"
    /\ pc' = [pc EXCEPT ![i] = "run"]
    /\ UNCHANGED <<db, mode, snap, verdict, cur, tally, out, result, history>>

(***************************************************************************)
(* _run_single_step up to its save.  Either no adapter executes anything:  *)
(* evidence or an eligible adapter is missing (saved outside the loop's    *)
(* try), drift or a conflict blocks the step, or an adapter raises before  *)
(* it executes (saved by the except clause).  Or one adapter executes the  *)
(* compensation and verifies it; an exception there becomes FAILED.        *)
(***************************************************************************)
Refusals ==
    [state : OutcomeStates \cap {"REQUIRES_MANUAL_ACTION", "FAILED"},
     verified : {FALSE}, guarded : {FALSE}]
    \cup [state : OutcomeStates \cap {"BLOCKED_BY_DRIFT", "BLOCKED_BY_CONFLICT"},
          verified : {FALSE}, guarded : {TRUE}]

ExecutionOutcomes == [state : OutcomeStates, verified : BOOLEAN, guarded : {TRUE}]

Refuse(i) ==
    /\ pc[i] = "run"
    /\ \E o \in Refusals : out' = [out EXCEPT ![i] = o]
    /\ pc' = [pc EXCEPT ![i] = "save"]
    /\ UNCHANGED <<lease, db, mode, snap, verdict, cur, tok, tally, result, history>>

Compensate(i) ==
    /\ pc[i] = "run"
    /\ \E o \in ExecutionOutcomes :
          /\ out' = [out EXCEPT ![i] = o]
          /\ applied' = IF o.state = "SUCCEEDED" THEN applied \cup {cur[i]} ELSE applied
    /\ pc' = [pc EXCEPT ![i] = "save"]
    /\ lateCalls' = [lateCalls EXCEPT ![i] = IF tok[i] \in expired THEN @ + 1 ELSE @]
    /\ UNCHANGED <<lease, db, mode, snap, verdict, cur, tok, tally, result,
                   expired, blind, clobbered, lost>>

(***************************************************************************)
(* save(step, expected_fencing_token): one conditional UPDATE, flushed     *)
(* and not committed.  It waits for the end of another transaction that    *)
(* has written the row, and then compares with what that left behind.      *)
(***************************************************************************)
Unlocked(i) == writer[cur[i]] \in {i, NoOwner}

\* Variant: the write is not fenced.
FenceOff(i) == rows[cur[i]].state # "ABSENT"

FenceAdmits(i) == rows[cur[i]].fence <= tok[i]

\* Variant: retry_count is decremented.
SavedRowCountsDown(i) ==
    [state    |-> out[i].state,
     verified |-> out[i].verified,
     retry    |-> snap[i][cur[i]].retry - (IF out[i].state = "FAILED" THEN 1 ELSE 0),
     fence    |-> tok[i]]

\* retry_count is taken from the snapshot, not from the row it overwrites.
SavedRow(i) ==
    [state    |-> out[i].state,
     verified |-> out[i].verified,
     retry    |-> snap[i][cur[i]].retry + (IF out[i].state = "FAILED" THEN 1 ELSE 0),
     fence    |-> tok[i]]

\* execute falls back to stopping on the first failure; resume does not.
Stops(i) ==
    LET conditions == IF mode[i] = "execute" /\ StopConditions = {}
                      THEN {"ON_FIRST_FAILURE"} ELSE StopConditions
    IN  \/ out[i].state = "FAILED" /\ "ON_FIRST_FAILURE" \in conditions
        \/ /\ mode[i] = "execute"
           /\ \/ out[i].state = "BLOCKED_BY_DRIFT" /\ "ON_BLOCKING_DRIFT" \in conditions
              \/ out[i].state = "BLOCKED_BY_CONFLICT" /\ "ON_BLOCKING_CONFLICT" \in conditions

CountOutcome(t, i) ==
    [completed  |-> IF out[i].state = "SUCCEEDED" THEN t.completed + 1 ELSE t.completed,
     failed     |-> IF out[i].state = "FAILED" THEN t.failed + 1 ELSE t.failed,
     unverified |-> IF out[i].state = "SUCCEEDED" /\ ~out[i].verified
                    THEN t.unverified + 1 ELSE t.unverified,
     stopped    |-> Stops(i)]

\* The list i works from may lack what another instance has done.
Outdated(i) == tok[i] \in expired \/ i \in blind

SaveStep(i) ==
    /\ pc[i] = "save"
    /\ Unlocked(i)
    /\ FenceAdmits(i)
    /\ rows' = [rows EXCEPT ![cur[i]] = SavedRow(i)]
    /\ writer' = [writer EXCEPT ![cur[i]] = i]
    /\ tally' = [tally EXCEPT ![i] = CountOutcome(@, i)]
    /\ cur' = [cur EXCEPT ![i] = @ + 1]
    /\ pc' = [pc EXCEPT ![i] = "boundary"]
    /\ out' = [out EXCEPT ![i] = NoOutcome]
    /\ clobbered' = IF Outdated(i) THEN clobbered \cup {cur[i]} ELSE clobbered
    /\ UNCHANGED <<lease, committed, mode, snap, verdict, tok, result,
                   expired, blind, lateCalls, applied, lost>>

\* StaleFencingTokenError: the step is neither persisted nor counted.
SaveRejected(i) ==
    /\ pc[i] = "save"
    /\ Unlocked(i)
    /\ ~FenceAdmits(i)
    /\ Return(i, "lease_lost",
              IF mode[i] = "resume" THEN "NONE"
              ELSE IF tally[i].completed > 0 THEN "EXECUTED_NOT_VERIFIED"
              ELSE "EXECUTION_FAILED")
    /\ UNCHANGED <<lease, db, mode, verdict, tok, known>>

\* A database error in a save inside the try: the step is saved as FAILED.
SaveError(i) ==
    /\ pc[i] = "save"
    /\ "raise" \in Faults
    /\ out[i].guarded
    /\ out' = [out EXCEPT ![i] = [state |-> "FAILED", verified |-> FALSE,
                                  guarded |-> FALSE]]
    /\ lost' = lost \cup InHand(i)
    /\ UNCHANGED <<lease, db, pc, mode, snap, verdict, cur, tok, tally, result, known>>

(***************************************************************************)
(* The end of the loop.  resume reports no verification_status.            *)
(***************************************************************************)
AllSucceeded(i) == tally[i].completed = Loaded /\ tally[i].failed = 0

Finish(i) ==
    /\ pc[i] = "boundary"
    /\ LoopDone(i)
    /\ Return(i,
              IF AllSucceeded(i) THEN "completed"
              ELSE IF tally[i].stopped THEN "stopped" ELSE "partial",
              IF mode[i] = "resume" THEN "NONE"
              ELSE IF AllSucceeded(i) /\ tally[i].unverified = 0
                   THEN "EXECUTED_AND_VERIFIED"
              ELSE IF tally[i].completed > 0 THEN "EXECUTED_NOT_VERIFIED"
              ELSE "EXECUTION_FAILED")
    /\ UNCHANGED <<lease, db, mode, verdict, tok, known>>

\* The store or a repository raises outside any handler.
Raise(i) ==
    /\ "raise" \in Faults
    /\ \/ pc[i] \in {"list", "boundary", "run"}
       \/ pc[i] = "save" /\ ~out[i].guarded
    /\ Return(i, "raised", "NONE")
    /\ UNCHANGED <<lease, db, mode, verdict, tok, known>>

ReleaseLease(i) ==
    /\ pc[i] = "release"
    /\ Release(i)
    /\ pc' = [pc EXCEPT ![i] = "commit"]
    /\ UNCHANGED <<db, mode, snap, verdict, cur, tok, tally, out, result, history>>

Raised == [status |-> "raised", verification |-> "NONE"]

\* try_acquire or release itself raises: the finally clause frees nothing.
StoreRaises(i) ==
    /\ "raise" \in Faults
    /\ \/ pc[i] = "idle" /\ pc' = [pc EXCEPT ![i] = "done"]
       \/ pc[i] = "release" /\ pc' = [pc EXCEPT ![i] = "commit"]
    /\ result' = [result EXCEPT ![i] = Raised]
    /\ UNCHANGED <<lease, db, mode, snap, verdict, cur, tok, tally, out, history>>

(***************************************************************************)
(* _get_session: the request's session commits when the route has          *)
(* returned, and rolls back when the route or the commit raised.           *)
(***************************************************************************)
EndTransaction(i) ==
    writer' = [s \in Steps |-> IF writer[s] = i THEN NoOwner ELSE writer[s]]

Commit(i) ==
    /\ pc[i] = "commit"
    /\ result[i].status # "raised"
    /\ committed' = [s \in Steps |-> IF writer[s] = i THEN rows[s] ELSE committed[s]]
    /\ EndTransaction(i)
    /\ pc' = [pc EXCEPT ![i] = "done"]
    /\ UNCHANGED <<lease, rows, mode, snap, verdict, cur, tok, tally, out, result, history>>

\* What the transaction wrote is undone; what the adapters did is not.
UndoWrites(i) ==
    /\ rows' = [s \in Steps |-> IF writer[s] = i THEN committed[s] ELSE rows[s]]
    /\ EndTransaction(i)
    /\ lost' = lost \cup InHand(i) \cup Uncommitted(i)

Rollback(i) ==
    /\ pc[i] = "commit"
    /\ result[i].status = "raised" \/ "raise" \in Faults
    /\ UndoWrites(i)
    /\ result' = [result EXCEPT ![i] = Raised]
    /\ pc' = [pc EXCEPT ![i] = "done"]
    /\ UNCHANGED <<lease, committed, mode, snap, verdict, cur, tok, tally, out, known>>

\* The process dies: its transaction is undone, its lease is not released.
Crash(i) ==
    /\ "crash" \in Faults
    /\ pc[i] \notin {"idle", "done", "crashed"}
    /\ pc' = [pc EXCEPT ![i] = "crashed"]
    /\ result' = [result EXCEPT ![i] = [status |-> "none", verification |-> "NONE"]]
    /\ DropLocals(i)
    /\ UndoWrites(i)
    /\ UNCHANGED <<lease, committed, mode, verdict, tok, known>>

LeaseLapses ==
    /\ Lapse
    /\ expired' = expired \cup {lease.token}
    /\ UNCHANGED <<db, control, blind, clobbered, lateCalls, applied, lost>>

\* What the event loop runs of an instance once its call has begun.
Step(i) ==
    \/ NoSteps(i) \/ ListByPlan(i)
    \/ PassOver(i) \/ LoseLease(i) \/ CountDone(i) \/ BeginStep(i)
    \/ Refuse(i) \/ Compensate(i)
    \/ SaveStep(i) \/ SaveRejected(i) \/ SaveError(i)
    \/ Finish(i) \/ Raise(i) \/ ReleaseLease(i) \/ Commit(i) \/ Rollback(i)

Next ==
    \/ CreateDurablePlan
    \/ \E i \in Instances : \/ AcquireLease(i) \/ AlreadyRunning(i)
                           \/ Step(i) \/ StoreRaises(i) \/ Crash(i)
    \/ LeaseLapses

Spec == Init /\ [][Next]_vars

(***************************************************************************)
(* A call that has begun keeps running (the event loop schedules ready     *)
(* coroutines and adapter calls return), and time passes: a lease nobody   *)
(* renews lapses.  Nothing obliges a caller to start a call, a process to  *)
(* crash, or an operation to raise.                                        *)
(***************************************************************************)
Progress(i) ==
    \/ NoSteps(i) \/ ListByPlan(i)
    \/ PassOver(i) \/ LoseLease(i) \/ CountDone(i) \/ BeginStep(i)
    \/ Refuse(i) \/ Compensate(i)
    \/ SaveStep(i) \/ SaveRejected(i)
    \/ Finish(i) \/ ReleaseLease(i) \/ Commit(i) \/ Rollback(i)

FairSpec ==
    /\ Spec
    /\ \A i \in Instances : WF_vars(Progress(i))
    /\ WF_vars(LeaseLapses)
-----------------------------------------------------------------------------
Working == {"list", "boundary", "run", "save", "release"}

\* Two calls work on the plan at the same time only if the lease of at least
\* one of them has lapsed: the single-executor promise of execute_durable_plan
\* and resume_plan, with the exact condition under which it is suspended.  (It
\* ends with the release: the transaction of the call is still open then.)
TenureExclusive ==
    \A i, j \in Instances :
        i # j /\ pc[i] \in Working /\ pc[j] \in Working
            => tok[i] \in expired \/ tok[j] \in expired

\* The stale-worker window is one step wide: once its lease has lapsed, an
\* instance starts at most one more compensation, because the heartbeat at the
\* next step boundary stops it.
StaleWorkBounded == \A i \in Instances : lateCalls[i] <= 1

\* A row as the transaction of i reads it; after its end, the committed row.
Seen(i, s) == IF writer[s] \in {i, NoOwner} THEN rows[s] ELSE committed[s]

\* A result EXECUTED_AND_VERIFIED, on which the caller bills the tenant and
\* reports SAFE_AUTOMATIC, is backed by the durable rows for good: every listed
\* row says succeeded and verified, from the return of the call through its
\* commit to whatever later calls do.  The exception is a row written by an
\* instance that worked from an outdated list: its lease had lapsed, or it had
\* listed the rows before the transaction of an earlier call was committed.
VerifiedClaimStands ==
    \A i \in Instances : \A s \in Listed :
        result[i].verification = "EXECUTED_AND_VERIFIED"
            => \/ Seen(i, s).state = "SUCCEEDED" /\ Seen(i, s).verified
               \/ s \in clobbered

\* A result "completed" accounts for every listed step, however execute and
\* resume count: each row says succeeded, or the result lists the step as verified
\* externally, with the same exception as for a verified claim.
CompletedClaimStands ==
    \A i \in Instances : \A s \in Listed :
        result[i].status = "completed"
            => \/ Seen(i, s).state = "SUCCEEDED" \/ s \in verdict[i]
               \/ s \in clobbered

\* No durable row is ever replaced by what an older tenure wrote, in whatever
\* order the tenures' transactions save and commit.
FenceStep ==
    \A s \in Steps : /\ committed'[s].fence >= committed[s].fence
                     /\ committed'[s] # committed[s] => committed'[s].fence <= lease.token

FenceNeverRegresses == [][FenceStep]_vars

\* A compensation that an adapter reported as succeeded is begun again only for
\* one of these reasons: the report was lost (a crash, a rollback, a save that
\* failed or that the fence turned down), the step was written by an instance
\* with an outdated list, this instance's own list is outdated (its lease lapsed,
\* or it listed before an earlier call's transaction was committed), or a lapsed
\* instance has yet to save it.  Without them the snapshot decides rightly,
\* whatever ran, failed or was renewed since it was taken.
RepeatsExplained ==
    \A i \in Instances :
        pc[i] = "run" /\ cur[i] \in applied
            => \/ cur[i] \in lost \cup clobbered
               \/ Outdated(i)
               \/ \E j \in Instances : tok[j] \in expired /\ cur[i] \in InHand(j)

\* Every call that got the lease returns or dies; no step is retried for ever.
EveryCallEnds ==
    \A i \in Instances : pc[i] = "list" ~> pc[i] \in {"done", "crashed"}

\* A plan whose executor died can be taken over: the lease never stays with it.
AbandonedLeaseFreed ==
    \A i \in Instances :
        pc[i] = "crashed" ~> lease.owner # i \/ CanAcquire
-----------------------------------------------------------------------------
(***************************************************************************)
(* What the documentation and the tests say beyond this.                   *)
(***************************************************************************)

\* A verified completion, on which the route reports SAFE_AUTOMATIC, requires
\* every step of the plan to have been executed: none is still PENDING.
VerifiedClaimIsWhole ==
    \A i \in Instances : \A s \in Steps :
        result[i].verification = "EXECUTED_AND_VERIFIED" => rows[s].state # "PENDING"
=============================================================================
