# Formal models of the Interlock recovery engine

Interlock is a control plane for the actions of AI agents: it records what an
agent did, decides what it may do, and, when an action turns out to be harmful,
plans and executes its compensation ("recovery") on the systems it touched. This
directory holds TLA+ models of the parts of it whose correctness depends on
concurrency, failure and the order of events, TLC configurations that check them
on small instances, and proofs, checked by TLAPS, for every size.

Paths below are relative to the repository root (`src/`).

## 1. Inventory

| Component | State | Operations | Talks to |
|---|---|---|---|
| Plan lease store (`app/domain/services/distributed_recovery_orchestrator.py`, `.../sqlalchemy_coordination_stores.py`) | one row per plan: owner, fencing token, expiry | `try_acquire`, `renew`, `release`, `get` | called by the orchestrator |
| Durable recovery orchestrator (`distributed_recovery_orchestrator.py`) | per call: the listed steps, position, counters, token | `create_durable_plan`, `execute_durable_plan`, `resume_plan` | lease store, step repository, evidence repository, adapters |
| Durable step repository (`sqlalchemy_causal_state_repositories.py`) | one row per step: state, verification, retry count, fencing token | `list_by_plan` (limit 500), fenced `save` | orchestrator; writes in the request's transaction |
| Recovery credits (`recovery_credit_service.py`, `sqlalchemy_credit_repositories.py`, `_recovery_billing.py`) | wallet, reservations (holds), append-only ledger with unique keys | `reserve_for_execution`, `finalize_hold`, `allocate`, `attach_subscription`, `apply_plan_upgrade`, `expire_remaining`, `deactivate`, sweep | recovery routes, payment webhooks |
| Payment webhooks (`handle_webhook.py`) | stored events, subscriptions, invoices | one handler per event type | payment provider, credits |
| Recovery routes (`surgical_recovery.py`, `control.py`, `session_rollback_service.py`) | plan status, the request's transaction | execute, resume, approve, roll back a session | everything above, quota, emergency guard |
| Tenant quota (`tenant_quota_service.py`, SQL counter store) | plans today, active compensations | reserve and release | recovery routes |
| Human approval queue (`hitl_queue.py`) | request: status, approval count, expiry | enqueue, approve, reject, revoke | its own endpoints |
| Distributed lock (`distributed_lock_service.py`) | Redis key with TTL | acquire, release, extend, heartbeat | its own endpoints |
| Circuit breaker (`circuit_breaker_service.py`) | per resource: state, counters, times | `allow_request`, `record_success`, `record_failure` | its own endpoints |
| Execution tokens (`ed25519_execution_token_service.py`, nonce stores) | issued tokens, consumed nonces | issue, verify and consume | execution endpoints |
| Emergency control (`emergency_control_service.py`, `emergency_guard.py`) | deny flag per tenant, in the memory of each server process | activate, lift, test | entry of every execution |
| Recovery planning (`recovery_planning_service.py`, `causal_graph_service.py`) | plans, dependency order | create, simulate, approve, execute | routes, adapters |
| Audit log (`merkle_audit_log_service.py`) | hash chain | append, verify | many |
| Policy, risk, identity, authorization services | rule sets, scores, accounts | evaluation, record keeping | action control |
| Recovery adapters (`app/infrastructure/recovery`) | none of their own; the filesystem adapter leaves staging files | capture evidence, detect drift and conflicts, compensate, verify | external systems, for the filesystem adapter people's own files |
| VS Code extension (`extensions/vscode`: `inboxController.ts`, `recoveryInbox.ts`, `commands.ts`, `interlock_bridge.py`) | inbox state, reviewed plans, busy flag, remembered previews; a baseline and an evidence file per protected file | scan, review, confirm, run; Preview, Apply and Capture Baseline commands | the workspace, the filesystem adapter |
| Labs, SDK, web front ends, migrations | - | - | clients and tools |

`PROJECT.json` lists the same parts with their status.

What is hard about this system:

* **Several executors.** A plan may be executed and resumed by several requests
  on several servers. The lease may lapse during a slow adapter call, so two
  instances can be at work; the fencing token in the rows has to keep the older
  one from undoing the work of the newer.
* **Snapshots.** The orchestrator's loop works on the steps as they were listed
  at its start, while the rows move on.
* **Partial failure.** A compensation is applied to an external system and then
  its save fails, the process dies, or the token has become stale.
* **Money.** A credit is held before an execution and consumed or returned after
  it, with retries, time-outs of holds, period changes and cancellations in
  between, from processes that share nothing but the database.
* **Transactions of different lengths.** Step rows and plan status commit when the
  request ends, lease and quota at once. A successor may hold the lease before the
  rows of its predecessor are committed, or after they were rolled back.
* **State per process.** Emergency deny is kept in memory: other processes do not see
  it, and a restart forgets it.
* **People at work.** A file is edited, replaced or deleted, and a baseline captured
  again, between any two system calls of the adapter and at every `await` of the
  extension.
* **Clocks.** Leases are decided by comparing a stored time with a clock reading
  that is already old when the statement runs.

What makes each part correct:

* lease: a holder that has been told of its lease keeps it until it expires; tokens
  only grow;
* orchestrator: one executor at a time except across a lapse, a bounded stale
  window, results that the durable rows bear out, no compensation repeated without
  one of the reasons the design admits, every call ends, a dead executor's plan can be
  taken over;
* credits: nothing is given out that was not granted, a plan is charged at most
  once and only for a verified run, counters agree with the holds;
* routes: a slot is given back once and by its holder, COMPLETED means compensated
  and recorded as far as the listed page reaches, an emergency deny takes effect in the
  process that keeps it;
* filesystem adapter: no half-written file, no lost work of other people, retries
  that get through, a verified recovery that stays;
* extension: only what was reviewed is overwritten and restored; the inbox's busy flag
  is set and missing only for known reasons.

## 2. The modules

```
PlanLease  <--(refined by)--  TimedPlanLease          MCTimedPlanLease, TimedPlanLeaseProofs
    ^ EXTENDS
DurableRecovery                                        MCDurableRecovery, DurableRecoveryProofs
RecoveryCredits                                        MCRecoveryCredits, RecoveryCreditsProofs
    ^ EXTENDS
RecoveryCreditsRace                                    MCRecoveryCreditsRace, RecoveryCreditsRaceProofs
RecoveryRoute                                          MCRecoveryRoute, RecoveryRouteProofs
FilesystemRecovery                                     MCFilesystemRecovery, FilesystemRecoveryProofs
RecoveryInbox                                          MCRecoveryInbox, RecoveryInboxProofs
```

Where one module's detail is another's subject it is cut down to what can come of it.
DurableRecovery has the adapters as a choice of outcomes, and FilesystemRecovery looks
inside one of them. RecoveryRoute has the orchestrator's run as steps that succeed or
fail under a lease that is kept, and DurableRecovery looks at the lapses. RecoveryInbox
has the engine's write as one step.

### PlanLease: what the lease store promises

The lease of one plan: `owner`, `token`, and `life`, which says whether it is
unexpired. The operations are those of the port `PlanLeaseStore`, as
`InMemoryPlanLeaseStore` does them, with time abstracted to the event `Lapse`.

### TimedPlanLease: the SQL store with its clock

`SQLPlanLeaseStore` reads the clock, obtains a session and then runs a conditional
`UPDATE` (or an `INSERT` on the first acquisition). `ReadClock` and the statement are
separate actions, and any amount of time, and any number of other instances'
statements, may come between. `TakeOver`, `TakeOverMiss`, `Insert`,
`InsertConflict`, `RenewHit`, `RenewMiss` and `ReleaseRow` are the outcomes of the
statements; `told` is what the instance believes about its lease. The in-memory
store corresponds to the behaviours in which no time passes between the two. The
hosts' clocks are assumed to agree. A `release` that raises leaves the row as a
crash does. The module instantiates `PlanLease` with the mapping given at
`StoreImplementsLease`.

### DurableRecovery: the orchestrator

One instance per call; `pc` is the await it is at. `AcquireLease` or
`AlreadyRunning`; `ListByPlan` (with resume's verification of unknown steps and its
counting of the finished ones); at each step boundary `PassOver`, `LoseLease`,
`CountDone` or `BeginStep`; in a step `Refuse` or `Compensate`, then `SaveStep`,
`SaveRejected` (stale token) or `SaveError`; `Finish`; `ReleaseLease` from the
`finally` clause; then `Commit` or `Rollback` of the request's session. `Raise`, `StoreRaises`, `Crash` and `LeaseLapses` are the faults.
`execute` and `resume` share the actions and differ in the conditions the code
differs in: where they count finished steps, when they renew, which stop conditions
they know, and which verification status they report.

Transactions. `rows` are the step rows as last written, `committed` as other requests
see them, and `writer` says whose open transaction has written a row. `save` only
flushes (`sqlalchemy_causal_state_repositories.py:618`); the session of the request
commits after the route has returned (`auth.py:50`), that is, after the `finally` clause
of the orchestrator has released the lease, and it rolls back when the route raises. So
a successor can take the lease, without any lapse, and list the rows as they were before
its predecessor ran; `blind` records that. A save waits for the other transaction that
has written the row (`Unlocked`) and then applies the fence to what that one left.
`Crash` undoes the transaction with the process.

What that leaves of the promises is what the properties say. Claims are backed by the
rows the caller sees and then by the committed ones, except for rows that were written
from an outdated list (`clobbered`). A compensation may well be repeated: after a save
that failed and recorded FAILED, after a rollback, after a crash, or from an outdated
list. `RepeatsExplained` lists these reasons and says that there is no other. A step
whose outcome is unknown is not a reported success, and resume executes it again.

Abstractions. The plan is created by one committed step; creating and executing it in one
request is the subject of RecoveryRoute. Requests are taken to run in different processes:
within one event loop the synchronous session would block it while it waits for a row.
The isolation is PostgreSQL's READ COMMITTED, the database for production; SQLite, the
default of a development set-up, locks more. The answer to the caller may leave before
the commit; a claim is examined before and after it alike. Adapters are a choice over the
outcomes they can report (`OutcomeStates`; an unknown outcome comes only from plug-in
adapters). A renewal needs an unexpired lease here; the SQL store can also renew a lease
that has just lapsed and that nobody took over, which counts as no lapse. The variables
`expired`, `blind`, `clobbered`, `lateCalls`, `applied` and `lost` are history: no guard
reads them.

### RecoveryCredits: the credit service in one process

The wallet row, the reservations, the set of the ledger's keys and the sum of its
deltas, for one tenant. The service awaits only a repository on a synchronous SQL
session, so within one event loop a call is one step; requests interleave between
`PlaceHold`/`ReuseHold`/`RunBilled`/`RunUnbilled` and `Settle`. An operator `...Tx`
computes what a transaction writes, and `Commit` applies it. `Allocate`, `Upgrade`,
`AttachSubscription` and `Deactivate` are what the webhooks call, for any period and
allowance, early, late and in any order; `Deactivate` consists of two transactions
and may end after the first. `Overrun` lets the TTL of a hold elapse; the sweep is
part of the actions that call it. Whether a run is billable is open here: it is the
result of the engine, which DurableRecovery models.

Abstractions. Time is counted in billing periods. There is one subscription, so an
allocation's key is its period. The plan of an invoice is any plan on offer.
`attach_subscription` is called only for a tenant without a wallet, as
`_handle_plan_change` does. Wording, timestamps and `balance_after` are left out.

### RecoveryCreditsRace: the same requests on several processes

Every request step between two database reads is an action: `Enter`, `FindHold`,
`ReadWallet`, `Finish`, `DecideSettlement`, `Reconsider`, and for the writes
`LoadForSave` and `Write`. `save_wallet` loads the row again and the ORM updates only
the columns whose value differs from that load (`Merged`), so lost updates are
possible column by column. The row lock of the `UPDATE` lasts to the end of the
transaction, hence the writes of a transaction appear together. A ledger key that is
taken rolls the transaction back (`KeysAreFree`, `AfterDuplicate`); `finalize_hold`
then reads again and releases. The webhooks' calls stay whole steps, and the reads of
one sweep are one step.

### RecoveryRoute: the requests on one plan

Execute and resume through `surgical_recovery.py` and through `control.py`, in several
server processes. `Enter` reads the process's emergency deny and the plan's status, once.
`CreateDurablePlan` inserts the step rows of this execution, which have random ids: a row
is named here by the request and the action. `BeginCompensation` or `QuotaExhausted` (the
surgical execute route only; the conditional `UPDATE` of the quota store), `AcquireLease`
or `AlreadyRunning`, `RunStep` for each listed step, `ReleaseLease`, `EndCompensation` or
`EndCompensationFails`, and `Commit`, which applies the request's rows (`tx`) and the new
status together. `View` is what a request sees: committed rows under its own. `Raise` is
an exception at any point: the `finally` clauses run and the session rolls back. `Crash`
ends a process with all its requests and loses their slots. `SimulatePlan` and
`SetEmergencyDeny` happen at any time.

The page. `list_by_plan` returns the first `PageLimit` rows (500) in execution order, of all
executions of the plan together and with ties in any order (`IsPage`), and the run is
complete when those have succeeded. `CompletedIsBacked` therefore speaks of the actions
that a page is certain to reach (`OnThePage`): the first n actions of e executions fill
n * e rows. Beyond it COMPLETED says nothing, which the run `long_plan` shows.

Emergency deny. `get_emergency_control_service` builds one `EmergencyControlService` per
process and gives it no repository (`emergency_control_service.py:340`), so `deny` is a
set of processes and a crash removes one. `DenyDrains` is what the guard does achieve: in
a process that keeps its deny, the requests past the guard come to their end and no
others begin. The service's promise that the deny immediately blocks all execution for a
tenant (`emergency_guard.py:3`) is not kept for requests past the guard, for the other
processes, or after a restart.

Abstractions. A live request keeps its lease. Reads see the committed rows, and a row
another open transaction has written is locked, as in DurableRecovery. Nothing in the
application sets a plan to APPROVED, although the routes test for it, so `Init` chooses
between a simulated and an approved plan. Billing is left out (a refused hold is one of
the ways to raise), and steps of equal execution order run in any order. Requests that
execute do so once; resumes may be repeated without bound. `execute_plan` of
`recovery_planning_service.py`, which the labs call, is not part of it.

### FilesystemRecovery: the filesystem adapter, system call by system call

Attempts to undo one action (`modify`, `create`, `delete`, `rename`) on one file. `dir`
says which file each name leads to and `bytes` what is in it, so that a handle goes on
writing to a file that was moved. The four operations are paths through the actions:
`CheckRestoreContent`, `ClearStaging`, `OpenStaging`, `WriteStaging`, `Swap`,
`PostCheck`; `CheckRestoreDeleted` with `CheckStaged` and `RecheckTarget` in addition,
or `RecreateLink`; `CheckDeleteFile`, `Unlink`; `CheckRenameBack`, `RenameBack`; each
followed by `Verify`. An attempt starts through the drift and conflict gates
(`StartGated`, `ConflictGate`) or directly. `Crash` kills it anywhere, and `IOFails` lets
any of its system calls fail: a write may leave part of its bytes, a failing fsync all of
them, and the handler unlinks the staging path, if it can, and reports FAILED.
`InspectionFails` is `verify`'s own exception. People edit in
place, save under the name, and delete, at the target, the staging path and the renamed
path, at any moment. The variables `unused`, `disturbed`, `late`, `failed` and `restored`
are history.

Snapshots. A file above the adapter's limit of 50 MB (`large`) is captured, and hashed, as
its prefix (`Captured`), and a file that cannot be read as an error ("unreadable"). The
operations compare the hash of the after-snapshot with that of the whole file, so an
agent file above the limit is always BLOCKED, and one whose snapshot is an error is
compared with nothing. The gates compare snapshot with snapshot. A before-snapshot that
is a prefix must not be restored (`_truncated_before_state_error`), and
`NoPartialTarget` would see it. `RetryNeverBlocked` holds for sound evidence
(`SoundEvidence`) and for the attempts whose own system calls succeed, after any number
of others that failed or were killed.

Abstractions. A hash stands for the bytes. Permissions, timestamps and directories at the
staging path are left out. `verified` stands for a caller that reports a recovery only
if the operation succeeded and `verify` agrees. `Exclusive` says that the lease keeps
attempts apart.

### RecoveryInbox: the extension's two ways to recover

`RecoveryInboxController` with its `InboxState`, and the Preview and Apply commands.
An asynchronous function runs from one `await` to the next without interruption, so a
flow's stretch between two awaits is an action. A scan is `RunScan`, `ProbeFile`,
`StartAssessment`, `AssessFile`, `FinishAssessment`; a review `StartReview`, `PlanFile`,
`FinishPlanning`, `ConfirmReview`, `Revalidate`, `AskApproval`, then `ExecutePlans`,
`CheckFile`, `RecheckBaseline`, `Execute` and `FinishRun`; the other actions are the
early returns and failures of these, opening the inbox again (`OpenWhileBusy`),
`CancelScan`, `Back`, the single preview, which does not look at busy and clears it at its
end (`PreviewResource`, `FinishPreview`), and the commands (`PreviewCommand`,
`ApplyCommand`, `Observe`, ...). `own` says whether a flow still writes to the current
`InboxState`. `Change`, `CaptureBaseline` and the watcher's `NoteWorkspaceEvent` come at
any time. `evidence` is the evidence file that every plan of a file overwrites
(`save_evidence`) and from which `execute` restores.

Abstractions. A file's baseline and content are read at one point in a scan. Verdicts of
the engine are open. The review is over once the results page is shown, which has no
confirm button. "Retry failed" is left out because a finished run always marks the scan
stale (`applyRunOutcomes`), so no review starts from its results. A scan cancelled
before the assessment ends as done. A deleted file is offered as eligible, and execute
then fails, because the bridge describes every action as a modification
(`interlock_bridge.py:416`). `Sessions` bounds which kinds of call each flow may stand for.

Busy. `setBusy` sets a field of the controller (`inboxController.ts:889`), which keeps scans,
reviews and runs apart, and the InboxState's copy of it, which decides what the watcher does;
opening the inbox again replaces the copy and leaves the field. Two things disturb the
field. The dialogs of `approveAndApply` have no handler: when `confirmRecovery`,
`askReference` or `resolveApproverIdentity` rejects, busy stays set (`DialogFails`), until
a single preview happens to clear it. And a preview that was begun beside other work
clears the busy of that work, so that a scan or a second review can start next to it.
`BusyAccounted` says that these are the only two: `abandoned` and `crossed` record them.

Whose plan. Every plan of a file replaces the evidence next to its baseline, and the
engine compares with the evidence. `Overlap = FALSE` is the restraint under which that is
harmless: a file that is already in hand, in the review on show or in a call that plans
or recovers (`InHand`), is not previewed, reviewed or commanded again (`Free`). Nothing in
the code enforces it. Calls for other files may come at any time and in any number, and
`BusyAccounted` needs no restraint.

## 3. Model checking

Passing runs (all of them also check what the table of proofs repeats in general):

| Run | Instance | Shows |
|---|---|---|
| `lease_store` | 3 instances, TTL 2, clock up to 7 | types, `ToldLeaseHonoured`, and that the store implements PlanLease |
| `orchestrator` | 2 calls, 2 steps, lapses, unknown outcomes, crashes, raising stores, commits after the release (1.5 million states) | types, `TenureExclusive`, `VerifiedClaimStands`, `StaleWorkBounded`, `CompletedClaimStands`, `RepeatsExplained`, `FenceNeverRegresses` |
| `liveness` | 2 calls, 2 steps, crashes, fairness | `EveryCallEnds`, `AbandonedLeaseFreed` |
| `credits` | 2 requests of one plan, 2 holds, allowances 1 and 2, 2 periods | `WalletWithinLedger`, `ReservedIsActive`, `ChargeIsEarned`, `SettledIsFinal` |
| `credit_race` | 2 requests of one plan on 2 processes, 2 holds, allowance 2 | `ChargedOnce` |
| `route` | 2 requests through 3 routes in 2 processes, 2 actions, pages of 3 rows, 1 slot, exceptions and crashes (0.7 million states) | types, `SlotsAccounted`, `CompletedIsBacked`, `DenyDrains` |
| `filesystem` | 2 attempts, 2 edits, the content before and after the action large or not, kills and failing calls anywhere (1.4 million states) | types, `NoPartialTarget`, `VerifiedStays`, `RetryNeverBlocked`, `EarlierEditsSurvive` |
| `inbox` | 2 files, 2 contents, 2 changes by people; a flow of scans and reviews beside one of previews, or a flow of commands (1.1 million states) | types, `BusyAccounted`, `InboxOverwritesReviewed`, `RestoresReviewedBaseline` |

Why the bounds suffice to see the cases. `lease_store`: the clock passes two expiries,
so a lease is taken over twice while a third instance still holds an old reading.
`orchestrator`: an old and a new holder race; two steps give a first and a last step, a
boundary between them, and a failure with work left over; the second call lists before or
after the first has committed, and saves while the first still holds a row. `credits`: two requests
share a hold, or use one each after an overrun; two allowances make upgrades
possible, two periods a rollover with an outstanding hold. `credit_race`: two holds of
one plan are needed to charge it twice. `route`: two requests contend for the one slot
and the one lease, over rows of each other and of their own, and a resume may repeat. Three
rows to a page leave out one row of two executions and none of one; two processes make a
deny that one of them does not see. The surgical resume is left out of this run: it is
the control resume with one more test at its entry. `filesystem`: a killed or failing
attempt leaves residue and a second meets it, or repeats a verified one; two edits are one
that must survive and one that comes late or sits on the staging path. `Sizable` bounds the
contents that may be large to what the agent found and left; that an edit is large too only
the proofs admit. `inbox`: two files
make a run in which one is written and the other skipped, and a preview of the one beside
the review of the other; two changes allow a change and its reversal, or a change and a
recapture. Commands neither read nor set what scans and reviews share except the
evidence of files in hand, so they form a session of their own; the proofs admit all
kinds of call together.

Deadlock is not checked where every call is served once or time is bounded: there the
model really stops.

Symmetry is used over instances, requests of one plan, holds, attempts, edits and files,
never in a liveness run.

Fairness. In `liveness`, `WF(Progress(i))`: the event loop keeps scheduling a ready
coroutine and adapter calls return; `WF(LeaseLapses)`: time passes. In `route`,
`WF(RequestStep(r))`: the server keeps running every request it has accepted. Nothing
obliges a caller to start, a process to crash or an operation to raise.

### Where the code and its description differ

Each of these runs checks one statement of a docstring, a comment or a test, and ends
in a counterexample; `PROJECT.json` quotes the lines.

| Run | Statement | What happens |
|---|---|---|
| `long_plan` | SAFE_AUTOMATIC requires every step verified | only the first 500 steps are listed and compared with themselves |
| `overspend` | concurrent requests can never spend more than the wallet holds | two processes both read the last credit |
| `reviewed_bytes` | Apply writes only over "exactly the bytes that were reviewed" | the file is compared with a fresh plan, made after the review |
| `collapse` | repeated execution is idempotent, concurrent submissions collapse to already_running | a request past the status test runs the plan again over step rows of its own |

Other places, which the models follow and no run is spent on:

* The SQL lease store is described as matching the in-memory store, but compares the
  expiry with an old clock reading; it can renew a lease that has expired meanwhile and
  that nobody took over.
* `resume_plan` is described as never blindly repeating an unsafe action; a step of
  unknown outcome that no adapter verifies is executed again.
* Two requests that share a hold settle it once; if the one that failed ends first, the
  verified run of the other is not charged.
* When credits expire with a hold outstanding the wallet's balance falls by more than the
  ledger entry records. `WalletWithinLedger` is the direction that holds.
* The adapter's docstring claims renames and deletions; through the orchestrator or the
  planner `detect_drift` always stops a rename and `check_conflicts` always stops a
  deletion, so they are undone only by callers without these gates.
* With overlapping attempts (`Exclusive = FALSE`) the target can be partial. With
  `Overlap = TRUE` a preview, a second review or a command for a file under review
  replaces the evidence of that review, and the run restores by the later evidence.
* A single preview frees the inbox's busy flag during a scan, a review or a run, and a
  dialog that rejects leaves it set; see `BusyAccounted`.
* An emergency deny is known to one process only and stops no request past the guard; see
  `DenyDrains`.
* The failure injection report and `recovery-engine.md` call repeated execution
  idempotent. Beyond what `collapse` shows, a step whose save failed or was rolled back is
  compensated again by a resume; see `RepeatsExplained`.
* A modification or creation that left a file above 50 MB is never undone: the recorded hash
  is that of a prefix.
* An edit between the adapter's last comparison and its replace or unlink is lost;
  `EarlierEditsSurvive` says exactly which edits are safe.
* A plan's COMPLETED may be overwritten by EXECUTING or FAILED of a request that ends
  later, and by SIMULATED at any time.

A retry budget is recorded with every step (`max_retries`) and `resume_plan` collects
the steps within it in `needs_retry`, which nothing reads; failed steps are executed
again on every resume, and the model does the same.

`overspend` needs several processes: `WalletWithinLedger` shows that one process never
overspends. `ChargedOnce` holds in both settings.

## 4. Proofs

The proofs hold for every value of the constants that satisfies the ASSUMEs of the
modules: any number of instances, steps, page limits, requests, processes, plans and finitely
many holds, attempts, edits, files and flows. The assumptions say that counts are
natural numbers, that "nobody" is not an instance, and that names of different things
differ (`EditsAssumption`: an edit is neither an attempt's file nor one of the recorded
contents; `SizableAssumption`: any of these contents may be large; `InboxAssumption`:
the baseline and the edited content are among the versions).

**TimedPlanLeaseProofs.** `TimedTypesCorrect`, `ToldLeaseAlwaysHonoured` and `TimedStoreImplementsLease`.
The inductive invariant `TimedInv` adds to the types: a clock reading is never in the
future (`ReadingsArePast`), a free row counts as expired (`FreeRowIsExpired`), and what
a holder was told is in the row until someone could take over (`ToldIsRecorded`). The
first is what makes a late statement harmless: an old reading only sees *fewer*
leases as expired. Refinement is proved step by step: every action is a step of
PlanLease or leaves its variables alone.

**DurableRecoveryProofs.** `TypeCorrect`, `SingleExecutor` (`TenureExclusive`),
`StaleWindowIsOneStep` (`StaleWorkBounded`), `FenceMonotone` (`FenceNeverRegresses`),
`VerifiedClaimsStand`, `CompletedClaimsStand`, `RepeatsAreExplained`
(`RepeatsExplained`). Four invariants over the types carry them. `TenureInv` ties
tokens to tenures: tokens in use were issued (`TokensIssued`, `NoTokenBefore`,
`OwnerHasToken`), the live lease is not among the lapsed ones (`LiveNotExpired`), an
instance at work owns the lease unless its tenure lapsed (`WorkerOwns`), and a late
call is over before the next boundary (`LateOnce`). It also orders the fences of a row as
written and as committed, which is why no order of saves and commits sets one back.
`TxInv` is about transactions: a row nobody has open is the committed one
(`FreeIsCommitted`); an instance whose list is not outdated has in its snapshot the rows
it has not passed (`SnapshotCurrent`), and a row open in another transaction was then
written from an outdated list (`OthersClobber`, `DoneIsKept`); a loop runs only undone
steps (`RunsOnlyUndone`). `ClaimInv` ties counters to the rows an instance sees: what it
saw as succeeded it goes on seeing (`SnapshotKept`), through its own saves and commit and
those of the others, and its counters (`CountsBacked`) and then its claim are backed.
`ReportsKept` follows every success an adapter reported: it is in a row, or in the hands
of the instance about to save it, or lost, or overwritten from an outdated list. An
instance that begins such a step again sees no success in its snapshot, and with `TxInv`
that leaves only the reasons `RepeatsExplained` lists.
`CompletedClaimsStand` (`CompletedClaimStands`) needs counting, because execute counts a
step as its loop passes it and resume counts the finished ones when it lists them.
`CompletedInv` compares the counter with the size of one set for both, `Counted`: the
listed steps that are accounted for and that either lie behind the loop or were
finished in a resume's snapshot. A step that is counted is always new to that set
(`CountingKeepsCompleted`): a verified step was unknown in the snapshot
(`VerdictOpen`), a saved one undone (`RunsOnlyUndone`). A counter that reaches
`Loaded` therefore leaves no listed step out (`CountingListed`).

**RecoveryCreditsProofs.** `CreditTypesCorrect`, `WalletBacked`
(`WalletWithinLedger`), `ReservedCounterHonest` (`ReservedIsActive`),
`SettlementFinal` (`SettledIsFinal`). The conjunction of the first three is
inductive; none of them is alone: the wallet offers no more than the ledger only if
`reserved`, which is clipped at zero, was not clipped, and that needs the counter to be
the number of active holds. The proof states once, for a transaction, what makes it
sound, shows it of each `...Tx` operator, and derives the step from it.
`ChargesAreEarned` (`ChargeIsEarned`) rests on one more invariant, that a request's hold
is a hold of its own plan (`HoldsArePlans`): the plan that is charged is the hold's,
the run it is charged for is the request's.

**RecoveryCreditsRaceProofs.** `ChargedAtMostOnce` (`ChargedOnce`) for any number of
racing processes. `RaceInv` says that a consumed hold's key is in the ledger
(`ConsumedRecorded`) and that a computed transaction that would mark a hold consumed
carries that key (`PendingOK`); the unique key does the rest. Nothing about the wallet
is needed, which is why the charge is safe although the wallet is not.

**RecoveryRouteProofs.** `RouteTypesCorrect`, `SlotsAlwaysAccounted` (`SlotsAccounted`)
and `CompletionBacked` (`CompletedIsBacked`), for any requests, processes, actions, page
limit, set of routes and quota, with and without faults. The inductive invariant is `TypeOK`, `SlotInv` and
`RowInv`. `SlotInv` adds to the count that the set of slot holders is finite and that a
request holds a slot only while it is at work: then no release is clipped. `RowInv`
follows the rows of an execution: until it commits nobody else sees or touches them
(`OwnRowsHidden`), they are all pending when it takes the lease (`OwnRowsPending`), it
claims completion only if all of them that its page was certain to reach succeeded
(`OwnRowsRun`), a row that says succeeded stands for an applied compensation
(`SuccessIsReal`), and a completed plan has a committed execution whose rows, that far,
nobody can disturb any more (`CompletionInv`, with `Witness`). That a page in execution
order holds every row of the actions it is certain to reach is a counting argument of its
own (`PageHolds`); a plan only ever gains executions, so it reaches fewer actions as
time goes on (`ReachesFewer`). The exclusivity of the lease is not needed.

**FilesystemRecoveryProofs.** `FilesystemTypesCorrect` without condition, and, if the
lease keeps attempts apart (`Exclusive`, without which they are false),
`TargetStaysWhole` (`NoPartialTarget`), `VerifiedRecoveryStays` (`VerifiedStays`),
`RetriesGetThrough` (`RetryNeverBlocked`) and `EditsSurvive` (`EarlierEditsSurvive`), for
any number of attempts and edits, any of them large, with calls that fail. None of the
four is inductive; `FilesystemInv` adds what
each rests on. `PhaseInv`: every undo operation stays on its own path. `WholeInv`: from
the opening of the staging file to the swap, the staging path leads to the attempt's own
file, to one a person saved there, or nowhere, and what is swapped in has been written;
so a handle that still writes never reaches the target, and a prefix is never written. `RestoredInv`: after a
verification, until somebody interferes, the target is as it was and every attempt
finds its own staging file. `CalmInv`: without interference the target is as the agent
left it or as it was before, whatever killed and failing attempts left behind, which is
what the gates and comparisons of a retry accept when the evidence is sound. `FreshInv` and `LateInv`: an edit that an
attempt can still destroy was made after its last comparison, at the target, and at the
staging path after the path was cleared.

**RecoveryInboxProofs.** `InboxTypesCorrect` and `BusyIsAccounted` (`BusyAccounted`)
without condition, and, for a user who takes up no file that is already in hand
(`~Overlap`), `InboxWritesReviewed` (`InboxOverwritesReviewed`) and `BaselineIsReviewed`
(`RestoresReviewedBaseline`), for any number of files, edits and recaptures and any number
of calls of every kind beside each other. `StageInv` says which calls pass through which
stage. `Restrained` says that nobody may still replace evidence that another call or the
review on show relies on (`ApartInv`), that a plan that is shown, or may be again, is the
one its evidence stands for (`ShownInv`), and that the same holds of every plan a call may
still apply, which agrees with what the user was shown (`ReviewedInv`). The proof treats a
step of one call among many: what it does to its own claims, and that it leaves those of
the others alone.

Only model-checked: the liveness properties `EveryCallEnds`, `AbandonedLeaseFreed` and
`DenyDrains` (fairness and ENABLED are outside TLAPS's reach here). Every invariant and
action property of the passing runs is proved. The inductive invariants `FilesystemInv`,
`InboxInv` and `CompletedInv` were also checked by TLC on the instances of the runs.

## 5. Plan

1. Done: the modules and runs above, and the proofs of section 4.
2. Theorems: that a RecoveryRoute run is an abstraction of DurableRecovery; what is left
   of the filesystem and inbox properties when attempts overlap or a file in hand is
   taken up again.
3. Webhooks: stored events and redelivery after a failure; which plan's allowance a
   renewal grants after a change of plan.
4. Session rollback, which executes plans of a whole session through the same
   orchestrator, on top of RecoveryRoute.
5. Pure algorithms: the compensation order of recovery planning against a reference
   definition of dependency order; the audit chain.

## 6. Not modelled

* The human approval queue: only its own endpoints use it and nothing in the
  application enqueues a request. The distributed lock and the circuit breaker: offered by
  their own endpoints, and no recovery path asks them. There is no behaviour of the
  system that depends on them.
* Execution tokens: signatures are taken as given; what remains is one conditional insert.
* The store of webhook events, subscriptions and invoices: the credit models let every
  call of the webhooks come at any time, repeatedly or never.
  An event whose processing failed once is refused at every redelivery
  (`handle_webhook.py:123`), which for the credits is a call that never comes.
* Of emergency control emergency allow, the log and the persistence that the application
  does not switch on; of the quota the daily counter.
* The adapters other than the filesystem's (databases, git, cloud services): their
  effects are in external systems whose behaviour the repository does not fix. They are
  choices of outcomes in DurableRecovery.
* Session rollback, reports and verification endpoints; `execute_plan` of recovery
  planning and its ordering.
* Policy evaluation, risk scoring and authorization are sequential functions of their
  inputs that unit tests reach. Identity providers and front ends are input and output.
  The audit log appends under one lock.
* The labs and simulators exercise the engine and keep no state of the running system.
  The in-memory durable repository is not used by the application. The SDK is a client.

The extension ships a copy of the adapters under `extensions/vscode/engine`; the
filesystem adapter there is byte for byte the one that is modelled.
