---------------------------- MODULE RecoveryRoute ----------------------------
(***************************************************************************)
(* The requests that execute and resume one recovery plan: the surgical    *)
(* recovery routes and the control routes, with the emergency guard, the   *)
(* tenant's quota, the plan lease and the request's transaction.           *)
(*                                                                         *)
(* Step rows and the plan's status are written in a database transaction   *)
(* that commits when the request ends; other requests see only what is     *)
(* committed.  Lease and quota counters are stores with transactions of    *)
(* their own.  A live request keeps its lease (lapses are the subject of   *)
(* DurableRecovery), a crashed one's expires.  Billing is the subject of   *)
(* RecoveryCredits; a refused hold is one of the ways to raise.  Every     *)
(* execution inserts step rows of its own, named by request and action.    *)
(*                                                                         *)
(* Emergency deny is kept in the memory of each process, by a service that *)
(* is built without a repository: a deny that one process accepted is      *)
(* unknown to the others, and gone when the process is started again.      *)
(***************************************************************************)
EXTENDS FiniteSets, Integers

CONSTANTS Requests,   \* requests on the plan
          Processes,  \* server processes, each handling requests
          Kinds,      \* the routes that are called
          N,          \* number of actions the plan compensates
          PageLimit,  \* limit of list_by_plan (500 in the code)
          Limit,      \* max_concurrent_compensations of the tenant's policy
          Faults      \* requests may raise, and processes may crash

ASSUME RouteAssumption ==
    /\ Kinds \subseteq {"execute", "resume", "control", "control_resume"}
    /\ IsFiniteSet(Requests)
    /\ N \in Nat /\ PageLimit \in Nat /\ Limit \in Nat
    /\ Faults \in BOOLEAN

VARIABLES
    status,    \* of the plan, as committed
    rows,      \* the committed step rows
    applied,   \* how often each action was compensated: never, once, or more
    lease,     \* the request that holds the plan lease
    active,    \* active_compensations of the tenant
    leaked,    \* slots that nobody will give back (history)
    deny,      \* the processes in which emergency deny is active
    req        \* the requests

vars == <<status, rows, applied, lease, active, leaked, deny, req>>

None == "none"
Actions == 1 .. N     \* in execution order
Steps == Requests \X Actions
NoRows == [x \in Steps |-> None]
RowStates == {None, "pending", "succeeded", "failed"}
Statuses == {"simulated", "approved", "executing", "completed", "failed"}
RunOutcomes == {"completed", "incomplete", "no_steps", "already_running"}
Ended == {"committed", "rolled_back", "crashed"}
Running == {"create", "slot", "acquire", "run", "leave", "commit"}

IdleRequest == [pc |-> "idle", kind |-> None, proc |-> None, tx |-> NoRows, todo |-> {},
                slot |-> FALSE, outcome |-> None]

RequestType ==
    [pc : {"idle"} \cup Running \cup Ended, kind : Kinds \cup {None},
     proc : Processes \cup {None}, tx : [Steps -> RowStates], todo : SUBSET Steps,
     slot : BOOLEAN, outcome : RunOutcomes \cup {None}]

TypeOK ==
    /\ status \in Statuses
    /\ rows \in [Steps -> RowStates]
    /\ applied \in [Actions -> 0..2]
    /\ lease \in Requests \cup {None}
    /\ active \in Nat /\ leaked \in Nat
    /\ deny \subseteq Processes
    /\ req \in [Requests -> RequestType]

Init ==
    /\ status \in {"simulated", "approved"}
    /\ rows = NoRows
    /\ applied = [a \in Actions |-> 0]
    /\ lease = None
    /\ active = 0 /\ leaked = 0
    /\ deny = {}
    /\ req = [r \in Requests |-> IdleRequest]

At(r, pc) == req[r].pc = pc
Step(r, q) == req' = [req EXCEPT ![r] = q]
Executes(r) == req[r].kind \in {"execute", "control"}

(***************************************************************************)
(* The way in.                                                             *)
(***************************************************************************)
\* The guard and the plan's status are read once, here.
Admissible(k) ==
    CASE k \in {"execute", "resume"} -> status = "approved"
      [] k = "control" -> status \in {"simulated", "approved"}
      [] k = "control_resume" -> TRUE

Entered(k, p) ==
    [IdleRequest EXCEPT
        !.kind = k, !.proc = p,
        !.pc = IF k \in {"execute", "control"} THEN "create" ELSE "acquire"]

\* Variant: the route does not call the emergency guard.
EnterUnguarded(r, k, p) ==
    /\ At(r, "idle") /\ Admissible(k)
    /\ Step(r, Entered(k, p))
    /\ UNCHANGED <<status, rows, applied, lease, active, leaked, deny>>

\* Process p takes the request.
Enter(r, k, p) ==
    /\ At(r, "idle") /\ p \notin deny /\ Admissible(k)
    /\ Step(r, Entered(k, p))
    /\ UNCHANGED <<status, rows, applied, lease, active, leaked, deny>>

CreateDurablePlan(r) ==
    /\ At(r, "create")
    /\ Step(r, [req[r] EXCEPT
                   !.tx = [x \in Steps |-> IF x[1] = r THEN "pending" ELSE None],
                   !.pc = IF req[r].kind = "execute" THEN "slot" ELSE "acquire"])
    /\ UNCHANGED <<status, rows, applied, lease, active, leaked, deny>>

BeginCompensation(r) ==
    /\ At(r, "slot") /\ active < Limit
    /\ active' = active + 1
    /\ Step(r, [req[r] EXCEPT !.slot = TRUE, !.pc = "acquire"])
    /\ UNCHANGED <<status, rows, applied, lease, leaked, deny>>

\* The request is over; its transaction and its locals are gone.
Over(r, pc) == [IdleRequest EXCEPT !.kind = req[r].kind, !.pc = pc]

QuotaExhausted(r) ==
    /\ At(r, "slot") /\ active >= Limit
    /\ Step(r, Over(r, "rolled_back"))
    /\ UNCHANGED <<status, rows, applied, lease, active, leaked, deny>>

(***************************************************************************)
(* The orchestrator's run under the lease.                                 *)
(***************************************************************************)
View(r) == [x \in Steps |-> IF req[r].tx[x] = None THEN rows[x] ELSE req[r].tx[x]]

\* The rows of all the plan's executions, those of this transaction included.
Existing(r) == {x \in Steps : View(r)[x] # None}

\* list_by_plan: the first PageLimit rows in execution order, ties in any order.
IsPage(r, page) ==
    /\ page = Existing(r) \/ Cardinality(page) = PageLimit
    /\ \A x \in page, y \in Existing(r) \ page : x[2] <= y[2]

\* Takes the lease and lists the plan's steps.  The steps on the page are all
\* that the run knows of: it is complete when those have succeeded.
AcquireLease(r) ==
    /\ At(r, "acquire") /\ lease = None
    /\ lease' = r
    /\ \E page \in SUBSET Existing(r) :
          /\ IsPage(r, page)
          /\ Step(r, [req[r] EXCEPT
                         !.pc = "run",
                         !.todo = {x \in page : View(r)[x] \in {"pending", "failed"}},
                         !.outcome = IF page = {} THEN "no_steps" ELSE "completed"])
    /\ UNCHANGED <<status, rows, applied, active, leaked, deny>>

AlreadyRunning(r) ==
    /\ At(r, "acquire") /\ lease # None
    /\ Step(r, [req[r] EXCEPT !.pc = "leave", !.outcome = "already_running"])
    /\ UNCHANGED <<status, rows, applied, lease, active, leaked, deny>>

\* A row that another open transaction has written is locked.
Unlocked(r, x) == \A q \in Requests \ {r} : req[q].tx[x] = None

\* After a failure the stop conditions end the run, or it goes on.
RunStep(r, x, ok) ==
    /\ At(r, "run") /\ x \in req[r].todo /\ Unlocked(r, x)
    /\ \A y \in req[r].todo : x[2] <= y[2]
    /\ applied' = IF ok THEN [applied EXCEPT ![x[2]] = IF @ = 2 THEN 2 ELSE @ + 1]
                  ELSE applied
    /\ \E rest \in IF ok THEN {req[r].todo \ {x}} ELSE {req[r].todo \ {x}, {}} :
          Step(r, [req[r] EXCEPT
                      !.todo = rest,
                      !.tx[x] = IF ok THEN "succeeded" ELSE "failed",
                      !.outcome = IF ok THEN @ ELSE "incomplete"])
    /\ UNCHANGED <<status, rows, lease, active, leaked, deny>>

ReleaseLease(r) ==
    /\ At(r, "run") /\ req[r].todo = {}
    /\ lease' = None
    /\ Step(r, [req[r] EXCEPT !.pc = "leave"])
    /\ UNCHANGED <<status, rows, applied, active, leaked, deny>>

(***************************************************************************)
(* The way out.                                                            *)
(***************************************************************************)
\* Variant: the finally clause covers requests that got no slot, too.
ReleaseAlways(slot) ==
    active' = IF active > 0 THEN active - 1 ELSE active

\* Variant: the same, and the counter has no floor.
ReleaseUnclipped(slot) ==
    active' = active - 1

ReleaseCompensation(slot) ==
    active' = IF slot /\ active > 0 THEN active - 1 ELSE active

EndCompensation(r) ==
    /\ At(r, "leave")
    /\ ReleaseCompensation(req[r].slot)
    /\ Step(r, [req[r] EXCEPT !.slot = FALSE, !.pc = "commit"])
    /\ UNCHANGED <<status, rows, applied, lease, leaked, deny>>

\* Variant: a plan that another request is running counts as completed.
NewStatusOptimistic(r) ==
    IF req[r].kind # "execute" THEN status
    ELSE IF req[r].outcome \in {"completed", "already_running"} THEN "completed"
    ELSE "failed"

NewStatus(r) ==
    IF req[r].kind # "execute" THEN status
    ELSE CASE req[r].outcome = "completed" -> "completed"
           [] req[r].outcome = "already_running" -> "executing"
           [] OTHER -> "failed"

\* update_status, and the commit of the request's session.
Commit(r) ==
    /\ At(r, "commit")
    /\ rows' = View(r)
    /\ status' = NewStatus(r)
    /\ Step(r, [Over(r, "committed") EXCEPT !.outcome = req[r].outcome])
    /\ UNCHANGED <<applied, lease, active, leaked, deny>>

\* An exception: the finally clauses run, the session rolls back.
Raise(r) ==
    /\ Faults /\ req[r].pc \in Running
    /\ lease' = IF lease = r THEN None ELSE lease
    /\ ReleaseCompensation(req[r].slot)
    /\ Step(r, Over(r, "rolled_back"))
    /\ UNCHANGED <<status, rows, applied, leaked, deny>>

\* end_compensation raises: the request ends and its slot stays reserved.
EndCompensationFails(r) ==
    /\ Faults /\ At(r, "leave") /\ req[r].slot
    /\ leaked' = leaked + 1
    /\ Step(r, Over(r, "rolled_back"))
    /\ UNCHANGED <<status, rows, applied, lease, active, deny>>

RunsIn(r, p) == req[r].proc = p /\ req[r].pc \in Running

\* A process dies with all its requests, and is started again: the database
\* rolls back, a lease expires, nobody gives the slots back, a deny is forgotten.
Crash(p) ==
    /\ Faults
    /\ lease' = IF \E r \in Requests : RunsIn(r, p) /\ lease = r THEN None ELSE lease
    /\ leaked' = leaked + Cardinality({r \in Requests : RunsIn(r, p) /\ req[r].slot})
    /\ req' = [r \in Requests |-> IF RunsIn(r, p) THEN Over(r, "crashed") ELSE req[r]]
    /\ deny' = deny \ {p}
    /\ UNCHANGED <<status, rows, applied, active>>

(***************************************************************************)
(* Around the requests.  Executions, which add rows, are not repeated.     *)
(***************************************************************************)
ResumeAgain(r) ==
    /\ req[r].pc \in Ended /\ ~Executes(r)
    /\ Step(r, IdleRequest)
    /\ UNCHANGED <<status, rows, applied, lease, active, leaked, deny>>

\* simulate_plan, which takes a plan in any status.
SimulatePlan ==
    /\ status' = "simulated"
    /\ UNCHANGED <<rows, applied, lease, active, leaked, deny, req>>

\* The emergency route, handled by process p.
SetEmergencyDeny(p, b) ==
    /\ deny' = IF b THEN deny \cup {p} ELSE deny \ {p}
    /\ UNCHANGED <<status, rows, applied, lease, active, leaked, req>>

-----------------------------------------------------------------------------
RequestStep(r) ==
    \/ CreateDurablePlan(r) \/ BeginCompensation(r) \/ QuotaExhausted(r)
    \/ AcquireLease(r) \/ AlreadyRunning(r)
    \/ \E x \in Steps, ok \in BOOLEAN : RunStep(r, x, ok)
    \/ ReleaseLease(r) \/ EndCompensation(r) \/ Commit(r)

Next ==
    \/ \E r \in Requests :
          \/ \E k \in Kinds, p \in Processes : Enter(r, k, p)
          \/ RequestStep(r) \/ Raise(r) \/ EndCompensationFails(r) \/ ResumeAgain(r)
    \/ SimulatePlan
    \/ \E p \in Processes : Crash(p) \/ \E b \in BOOLEAN : SetEmergencyDeny(p, b)

Spec == Init /\ [][Next]_vars /\ \A r \in Requests : WF_vars(RequestStep(r))

-----------------------------------------------------------------------------
\* Whatever requests do and however they end, the quota counter is the number
\* of requests that hold a slot, plus the slots lost in crashes or in a release
\* that failed, and stays within the policy's limit: no request gives back a
\* slot of another one.
SlotsAccounted ==
    /\ active = Cardinality({r \in Requests : req[r].slot}) + leaked
    /\ active <= Limit

\* The executions that have left rows of the plan behind.
Executions == {r \in Requests : \E a \in Actions : rows[<<r, a>>] # None}

\* A page that starts with the rows of the first actions, for each of the
\* plan's executions, reaches this one.
OnThePage(a) == a * Cardinality(Executions) <= PageLimit

\* A plan whose committed status is COMPLETED has been compensated as far as the
\* page of list_by_plan reaches, and the committed rows show it: a crash, a
\* rollback or a concurrent request never leaves the status without the rows.
\* It says nothing of the actions beyond: a plan of more than PageLimit actions,
\* or a shorter one submitted often, is COMPLETED without them.
CompletedIsBacked ==
    status = "completed" =>
        \A a \in Actions :
            OnThePage(a) => /\ applied[a] > 0
                            /\ \E r \in Requests : rows[<<r, a>>] = "succeeded"

\* Emergency deny is read only at the entry of a request, and each process reads
\* its own.  A deny that stays in a process (one that is not restarted) ends all
\* recovery there: the requests that were past the guard go on to their end, and
\* no other begins.  It does not stop them at once, and it stops no other process.
DenyDrains ==
    \A p \in Processes :
        <>[](p \in deny) => <>[](\A r \in Requests : ~RunsIn(r, p))

\* "repeated execution of same plan -> idempotent, no double compensation"
\* (the failure injection report) and "concurrent submissions collapse to
\* already_running" (execute_durable_plan): however often a plan is submitted,
\* each of its actions is compensated once.
SubmissionsCollapse == \A a \in Actions : applied[a] <= 1
==============================================================================
