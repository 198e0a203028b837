---------------------------- MODULE RecoveryInbox ----------------------------
(***************************************************************************)
(* The VS Code extension's two ways to recover files: the Recovery Inbox   *)
(* (RecoveryInboxController with its InboxState) and the Preview and Apply  *)
(* Recovery commands, with the bridge calls they make.                     *)
(*                                                                         *)
(* An asynchronous function runs without interruption from one await to    *)
(* the next, so every such stretch is one step of a flow.  Flows share the *)
(* workspace, the baseline store, the evidence file next to each baseline  *)
(* and the controller's fields.  A file is its content; its hash stands    *)
(* for it.  The bridge's execute is one step here: what happens inside it  *)
(* is the subject of FilesystemRecovery.  Stored baselines are intact.     *)
(***************************************************************************)
EXTENDS FiniteSets, Integers

CONSTANTS Files,        \* protected files of the workspace
          Versions,     \* contents a file may have
          Base,         \* the content the first baselines were captured from
          Edited,       \* the content an agent then left in every file
          Flows,        \* asynchronous calls that may be under way together
          MaxChanges,   \* bound on the edits and recaptures by people
          Sessions,     \* bound: the kinds of call that each flow may stand for
          Overlap       \* users take up a file again that is already in hand

CallKinds == {"scan", "review", "preview", "command"}

ASSUME InboxAssumption == /\ {Base, Edited} \subseteq Versions
                          /\ MaxChanges \in Nat
                          /\ Sessions \subseteq [Flows -> SUBSET CallKinds]
                          /\ Overlap \in BOOLEAN

VARIABLES
    disk, baseline,   \* content of each file, and of its stored baseline
    evidence,         \* what the last saved plan saw: the evidence sidecar
    changes,          \* number of edits and recaptures so far
    event,            \* the watcher has a change to report
    scan, stale, dirty, rows, review,   \* InboxState
    plans,            \* reviewPlans of the controller
    busy, viewBusy,   \* busy of the controller, and of the current InboxState
    abort,            \* the flow whose AbortController the controller keeps
    abandoned,        \* history: a call whose dialog failed has left busy set
    crossed,          \* history: a preview was begun during other inbox work
    previewed,        \* plans remembered by the Preview command
    flow,             \* the local variables of each asynchronous call
    session           \* which of the Sessions this is

workspace == <<disk, baseline, evidence, changes, event>>
state == <<scan, stale, dirty, rows, review>>
history == <<abandoned, crossed>>
fields == <<plans, busy, viewBusy, abort, history>>
vars == <<workspace, state, fields, previewed, flow, session>>

Missing == "missing"
None == "none"
Contents == Versions \cup {Missing}
Plans == [base : Versions, cur : Contents]
NoPlan == [base |-> None, cur |-> None]
NoPlans == [f \in Files |-> NoPlan]
Unlisted == [f \in Files |-> "unlisted"]
NoOutcomes == [f \in Files |-> None]
Outcomes == {"recovered", "skipped", "failed"}
Verdicts == {"eligible", "blocked"}
RowStates == Verdicts \cup {"unlisted", "unchanged", "pending"}
Planned(p) == {f \in Files : p[f] # NoPlan}

IdleFlow == [kind |-> None, pc |-> "idle", todo |-> {}, file |-> None,
             shown |-> NoPlans, held |-> NoPlans, seen |-> Unlisted,
             out |-> NoOutcomes, straight |-> FALSE, own |-> FALSE, aborted |-> FALSE]

\* The local variables of an asynchronous call.
Locals ==
    [kind : {None} \cup CallKinds,
     pc : {"idle", "probe", "assess", "plan", "observe", "revalidate",
           "approve", "apply", "recheck", "execute"},
     todo : SUBSET Files, file : Files \cup {None},
     shown : [Files -> Plans \cup {NoPlan}], held : [Files -> Plans \cup {NoPlan}],
     seen : [Files -> RowStates], out : [Files -> Outcomes \cup {None}],
     straight : BOOLEAN, own : BOOLEAN, aborted : BOOLEAN]

TypeOK ==
    /\ disk \in [Files -> Contents]
    /\ baseline \in [Files -> Versions]
    /\ evidence \in [Files -> Plans \cup {NoPlan}]
    /\ changes \in 0..MaxChanges
    /\ event \in BOOLEAN
    /\ scan \in {None, "idle", "scanning", "done", "cancelled", "error"}
    /\ stale \in BOOLEAN /\ dirty \in BOOLEAN
    /\ rows \in [Files -> RowStates]
    /\ review \subseteq Files
    /\ plans \in [Files -> Plans \cup {NoPlan}]
    /\ busy \in BOOLEAN /\ viewBusy \in BOOLEAN
    /\ abort \in Flows \cup {None}
    /\ abandoned \in BOOLEAN /\ crossed \in BOOLEAN
    /\ previewed \in [Files -> Plans \cup {NoPlan}]
    /\ flow \in [Flows -> Locals]
    /\ session \in Sessions

Init ==
    /\ disk = [f \in Files |-> Edited]
    /\ baseline = [f \in Files |-> Base]
    /\ evidence = NoPlans
    /\ changes = 0 /\ event = FALSE
    /\ scan = None /\ stale = FALSE /\ dirty = FALSE
    /\ rows = Unlisted /\ review = {}
    /\ plans = NoPlans /\ busy = FALSE /\ viewBusy = FALSE /\ abort = None
    /\ abandoned = FALSE /\ crossed = FALSE
    /\ previewed = NoPlans
    /\ flow = [t \in Flows |-> IdleFlow]
    /\ session \in Sessions

(***************************************************************************)
(* People and agents change files, and recapture baselines; the watcher    *)
(* reports changes, the engine's own writes too, some time later.          *)
(***************************************************************************)
Watched == scan # None

Change(f, c) ==
    /\ changes < MaxChanges /\ c # disk[f]
    /\ disk' = [disk EXCEPT ![f] = c]
    /\ changes' = changes + 1
    /\ event' = Watched
    /\ UNCHANGED <<baseline, evidence, state, fields, previewed, flow>>

\* The Capture Baseline command, which also invalidates the inbox.
CaptureBaseline(f) ==
    /\ changes < MaxChanges
    /\ disk[f] \notin {Missing, baseline[f]}
    /\ baseline' = [baseline EXCEPT ![f] = disk[f]]
    /\ changes' = changes + 1
    /\ stale' = (stale \/ Watched)
    /\ UNCHANGED <<disk, evidence, event, scan, dirty, rows, review,
                   fields, previewed, flow>>

NoteWorkspaceEvent ==
    /\ event
    /\ event' = FALSE
    /\ IF viewBusy \/ scan = "scanning"
       THEN dirty' = TRUE /\ UNCHANGED stale
       ELSE stale' = TRUE /\ UNCHANGED dirty
    /\ UNCHANGED <<disk, baseline, evidence, changes, scan, rows, review,
                   fields, previewed, flow>>

(***************************************************************************)
(* Flows start, move on and end.  An InboxState is replaced while a flow   *)
(* still holds the old one: what the flow writes there is never seen.      *)
(***************************************************************************)
Active(t) == flow[t].pc # "idle"
At(t, pc) == flow[t].pc = pc
InboxCalls == {t \in Flows : Active(t) /\ flow[t].kind # "command"}

Step(t, r) == flow' = [flow EXCEPT ![t] = r]
End(t) == Step(t, IdleFlow)
Done(t, f) == flow[t].todo \ {f}
SetBusy(b) == busy' = b /\ viewBusy' = b
\* The calls that crossed are over with the last of them.
Part(t) == crossed' = (crossed /\ InboxCalls # {t})
\* The end of a call that leaves the inbox idle.
GiveBack(t) == SetBusy(FALSE) /\ abandoned' = FALSE /\ Part(t)

NewState(status) ==
    /\ scan' = status
    /\ stale' = FALSE /\ dirty' = FALSE
    /\ rows' = Unlisted /\ review' = {}

Disowned == [u \in Flows |-> [flow[u] EXCEPT !.own = FALSE]]

\* open() while the controller is busy: a fresh InboxState, and no scan.
OpenWhileBusy ==
    /\ busy
    /\ NewState("idle")
    /\ viewBusy' = FALSE
    /\ flow' = Disowned
    /\ UNCHANGED <<workspace, plans, busy, abort, history, previewed>>

(***************************************************************************)
(* Scan.  The baselines and the files they stand for are read at one       *)
(* point each; the walk for files without a baseline adds no candidates.   *)
(***************************************************************************)
\* open() and refresh.
RunScan(t) ==
    /\ ~Active(t) /\ ~busy
    /\ NewState("scanning")
    /\ plans' = NoPlans
    /\ SetBusy(TRUE)
    /\ abort' = t
    /\ flow' = [Disowned EXCEPT ![t] = [IdleFlow EXCEPT
                   !.kind = "scan", !.pc = "probe", !.todo = Files, !.own = TRUE]]
    /\ UNCHANGED <<workspace, history, previewed>>

ProbeFile(t, f) ==
    /\ At(t, "probe") /\ f \in flow[t].todo
    /\ Step(t, [flow[t] EXCEPT
                   !.todo = Done(t, f),
                   !.seen[f] = IF disk[f] = baseline[f] THEN "unchanged" ELSE "pending"])
    /\ UNCHANGED <<workspace, state, fields, previewed>>

EndScan(t, r, status) ==
    /\ End(t)
    /\ GiveBack(t)
    /\ abort' = None
    /\ IF flow[t].own
       THEN /\ rows' = r
            /\ scan' = status
            /\ stale' = (stale \/ (dirty /\ status = "done"))
       ELSE UNCHANGED <<rows, scan, stale>>
    /\ UNCHANGED <<workspace, dirty, review, plans, previewed>>

Candidates(t) == {f \in Files : flow[t].seen[f] = "pending"}

\* A scan cancelled before the assessment ends as done (cancelledOutcome).
FinishProbe(t) ==
    /\ At(t, "probe") /\ flow[t].todo = {}
    /\ flow[t].aborted \/ Candidates(t) = {}
    /\ \E r \in {flow[t].seen} \cup (IF flow[t].aborted THEN {Unlisted} ELSE {}) :
          EndScan(t, r, "done")

ScanError(t) ==
    /\ At(t, "probe") /\ flow[t].todo = Files
    /\ EndScan(t, Unlisted, "error")

StartAssessment(t) ==
    /\ At(t, "probe") /\ flow[t].todo = {}
    /\ ~flow[t].aborted /\ Candidates(t) # {}
    /\ Step(t, [flow[t] EXCEPT !.pc = "assess", !.todo = Candidates(t)])
    /\ UNCHANGED <<workspace, state, fields, previewed>>

AssessFile(t, f, v) ==
    /\ At(t, "assess") /\ f \in flow[t].todo
    /\ Step(t, [flow[t] EXCEPT !.todo = Done(t, f), !.seen[f] = v])
    /\ UNCHANGED <<workspace, state, fields, previewed>>

FinishAssessment(t) ==
    /\ At(t, "assess") /\ flow[t].todo = {}
    /\ EndScan(t, flow[t].seen, "done")

\* The engine call was cancelled or failed: no verdict of it is kept.
AssessmentFails(t) ==
    /\ At(t, "assess") /\ flow[t].todo # {}
    /\ EndScan(t, [f \in Files |-> IF flow[t].seen[f] \in Verdicts
                                   THEN "pending" ELSE flow[t].seen[f]], "cancelled")

CancelScan ==
    /\ abort # None
    /\ flow' = [flow EXCEPT ![abort].aborted = TRUE]
    /\ UNCHANGED <<workspace, state, fields, previewed>>

(***************************************************************************)
(* Review.  Every candidate gets a fresh plan, whose evidence replaces the *)
(* evidence file.  Scope "retry" is left out: a finished run has marked    *)
(* the scan stale, so no review can start from its results.                *)
(***************************************************************************)
\* Variant: the plan records the current file as its own before-state.
PlanOfCurrent(f) == [base |-> disk[f], cur |-> disk[f]]

PlanOf(f) == [base |-> baseline[f], cur |-> disk[f]]
SaveEvidence(f) == evidence' = [evidence EXCEPT ![f] = PlanOf(f)]
Eligible == {f \in Files : rows[f] = "eligible"}

\* straight: one selected file, nothing excluded, needs no review page.
StartReview(t, S, straight) ==
    /\ ~Active(t) /\ ~busy /\ ~stale
    /\ S # {} /\ S \subseteq Eligible
    /\ straight => Cardinality(S) = 1
    /\ SetBusy(TRUE)
    /\ Step(t, [IdleFlow EXCEPT !.kind = "review", !.pc = "plan", !.todo = S,
                                !.straight = straight, !.own = TRUE])
    /\ UNCHANGED <<workspace, state, plans, abort, history, previewed>>

PlanFile(t, f, v) ==
    /\ At(t, "plan") /\ flow[t].kind = "review" /\ f \in flow[t].todo
    /\ IF v = "failed" THEN UNCHANGED evidence ELSE SaveEvidence(f)
    /\ Step(t, [flow[t] EXCEPT
                   !.todo = Done(t, f),
                   !.held[f] = IF v = "eligible" THEN PlanOf(f) ELSE NoPlan,
                   !.shown[f] = IF v = "eligible" THEN PlanOf(f) ELSE NoPlan])
    /\ UNCHANGED <<disk, baseline, changes, event, state, fields, previewed>>

EndReview(t) ==
    /\ End(t)
    /\ GiveBack(t)

PlanningFails(t) ==
    /\ At(t, "plan") /\ flow[t].kind = "review" /\ flow[t].todo # {}
    /\ EndReview(t)
    /\ UNCHANGED <<workspace, state, plans, abort, previewed>>

FinishPlanning(t) ==
    LET held == Planned(flow[t].held) IN
    /\ At(t, "plan") /\ flow[t].kind = "review" /\ flow[t].todo = {}
    /\ plans' = flow[t].held
    /\ review' = IF flow[t].own THEN held ELSE review
    /\ IF flow[t].straight /\ held # {}
       THEN /\ Step(t, [flow[t] EXCEPT !.pc = "revalidate", !.todo = held])
            /\ UNCHANGED <<busy, viewBusy, history>>
       ELSE EndReview(t)
    /\ UNCHANGED <<workspace, scan, stale, dirty, rows, abort, previewed>>

Back ==
    /\ Watched /\ (review # {} \/ plans # NoPlans)
    /\ review' = {} /\ plans' = NoPlans
    /\ UNCHANGED <<workspace, scan, stale, dirty, rows, busy, viewBusy, abort,
                   history, previewed, flow>>

ConfirmReview(t) ==
    LET held == [f \in Files |-> IF f \in review THEN plans[f] ELSE NoPlan] IN
    /\ ~Active(t) /\ ~busy
    /\ Planned(held) # {}
    /\ SetBusy(TRUE)
    /\ Step(t, [IdleFlow EXCEPT !.kind = "review", !.pc = "revalidate",
                   !.todo = Planned(held), !.held = held, !.shown = held, !.own = TRUE])
    /\ UNCHANGED <<workspace, state, plans, abort, history, previewed>>

\* staleScope, and the second check of the Apply command.
Revalidate(t, f) ==
    /\ At(t, "revalidate") /\ f \in flow[t].todo
    /\ Step(t, [flow[t] EXCEPT
                   !.todo = Done(t, f),
                   !.out[f] = IF disk[f] = flow[t].held[f].cur THEN None ELSE "skipped"])
    /\ UNCHANGED <<workspace, state, fields, previewed>>

Stale(t) == {f \in Files : flow[t].out[f] = "skipped"}

\* applyStaleToReview works on the review that the flow began with, and
\* updateReview puts the result in the place of whatever review there is.
DropStale(t) ==
    review' = IF flow[t].own /\ review # {} THEN Planned(flow[t].shown) \ Stale(t)
              ELSE review

\* Variant: the early return of confirmReview forgets setBusy(null).
ReviewIsStaleAndBusy(t) ==
    /\ At(t, "revalidate") /\ flow[t].kind = "review" /\ flow[t].todo = {}
    /\ Stale(t) # {}
    /\ DropStale(t)
    /\ End(t)
    /\ UNCHANGED <<workspace, scan, stale, dirty, rows, fields, previewed>>

ReviewIsStale(t) ==
    /\ At(t, "revalidate") /\ flow[t].kind = "review" /\ flow[t].todo = {}
    /\ Stale(t) # {}
    /\ DropStale(t)
    /\ EndReview(t)
    /\ UNCHANGED <<workspace, scan, stale, dirty, rows, plans, abort, previewed>>

AskApproval(t) ==
    /\ At(t, "revalidate") /\ flow[t].todo = {} /\ Stale(t) = {}
    /\ ~flow[t].aborted
    /\ Step(t, [flow[t] EXCEPT !.pc = "approve"])
    /\ UNCHANGED <<workspace, state, fields, previewed>>

(***************************************************************************)
(* Apply.  The run writes its outcomes to the InboxState that is current   *)
(* when it starts.  Its results page has no confirm button, so the review  *)
(* is over.                                                                *)
(***************************************************************************)
Decline(t) ==
    /\ At(t, "approve") /\ flow[t].kind = "review"
    /\ EndReview(t)
    /\ UNCHANGED <<workspace, state, plans, abort, previewed>>

\* confirmRecovery, askReference or resolveApproverIdentity rejects: nothing
\* catches it, and busy stays as it is.
DialogFails(t) ==
    /\ At(t, "approve") /\ flow[t].kind = "review"
    /\ End(t)
    /\ abandoned' = busy
    /\ Part(t)
    /\ UNCHANGED <<workspace, state, plans, busy, viewBusy, abort, previewed>>

ExecutePlans(t) ==
    /\ At(t, "approve") /\ flow[t].kind = "review"
    /\ review' = {}
    /\ SetBusy(TRUE)
    /\ abort' = t
    /\ Step(t, [flow[t] EXCEPT !.pc = "apply", !.todo = Planned(flow[t].held),
                               !.own = TRUE])
    /\ UNCHANGED <<workspace, scan, stale, dirty, rows, plans, history, previewed>>

SkipRest(t) ==
    /\ At(t, "apply") /\ flow[t].aborted /\ flow[t].todo # {}
    /\ Step(t, [flow[t] EXCEPT
                   !.todo = {},
                   !.out = [f \in Files |-> IF f \in flow[t].todo THEN "skipped"
                                            ELSE flow[t].out[f]]])
    /\ UNCHANGED <<workspace, state, fields, previewed>>

Attempt(t, f, go) ==
    Step(t, IF go THEN [flow[t] EXCEPT !.pc = "recheck", !.file = f]
            ELSE [flow[t] EXCEPT !.todo = Done(t, f), !.out[f] = "skipped"])

\* The last look at the file before its write; the command takes none.
CheckFile(t, f) ==
    /\ At(t, "apply") /\ ~flow[t].aborted /\ f \in flow[t].todo
    /\ Attempt(t, f, flow[t].kind = "review" => disk[f] = flow[t].held[f].cur)
    /\ UNCHANGED <<workspace, state, fields, previewed>>

Report(t, outcome) ==
    LET f == flow[t].file IN
    Step(t, [flow[t] EXCEPT !.pc = "apply", !.file = None, !.todo = Done(t, f),
                            !.out[f] = outcome])

\* applyPlannedRecovery compares the stored baseline with the plan's.
RecheckBaseline(t) ==
    LET f == flow[t].file IN
    /\ At(t, "recheck")
    /\ IF baseline[f] = flow[t].held[f].base
       THEN Step(t, [flow[t] EXCEPT !.pc = "execute"])
       ELSE Report(t, "skipped")
    /\ UNCHANGED <<workspace, state, fields, previewed>>

\* Variant: the engine captures fresh evidence instead of the reviewed one's.
AdmitsAnyContent(f) ==
    /\ evidence[f] # NoPlan
    /\ evidence[f].base = baseline[f]
    /\ disk[f] # Missing

\* The engine's guards; it restores a missing file as a modified one, and
\* finds no file to restore.
Admits(f) ==
    /\ evidence[f] # NoPlan
    /\ evidence[f].base = baseline[f]
    /\ evidence[f].cur = disk[f]
    /\ disk[f] # Missing

\* ok is FALSE when the call is lost after the write.
Execute(t, ok) ==
    LET f == flow[t].file IN
    /\ At(t, "execute") /\ Admits(f)
    /\ disk' = [disk EXCEPT ![f] = evidence[f].base]
    /\ event' = Watched
    /\ Report(t, IF ok THEN "recovered" ELSE "failed")
    /\ UNCHANGED <<baseline, evidence, changes, state, fields, previewed>>

\* The engine refuses, or the call fails before anything is written.
ExecuteFails(t) ==
    /\ At(t, "execute")
    /\ Report(t, "failed")
    /\ UNCHANGED <<workspace, state, fields, previewed>>

FinishRun(t) ==
    /\ At(t, "apply") /\ flow[t].kind = "review" /\ flow[t].todo = {}
    /\ EndReview(t)
    /\ abort' = None
    /\ IF flow[t].own
       THEN /\ rows' = [f \in Files |-> IF flow[t].out[f] = "recovered"
                                           /\ rows[f] # "unlisted"
                                        THEN "unchanged" ELSE rows[f]]
            /\ stale' = TRUE
       ELSE UNCHANGED <<rows, stale>>
    /\ UNCHANGED <<workspace, scan, dirty, review, plans, previewed>>

(***************************************************************************)
(* Preview of one row.  It does not look at busy, and clears it at its end *)
(* (the finally of previewResource), whoever has set it meanwhile.         *)
(***************************************************************************)
PreviewResource(t, f) ==
    /\ ~Active(t)
    /\ rows[f] \in Verdicts \cup {"pending"}
    /\ SetBusy(TRUE)
    /\ crossed' = (crossed \/ InboxCalls # {})
    /\ Step(t, [IdleFlow EXCEPT !.kind = "preview", !.pc = "plan", !.file = f])
    /\ UNCHANGED <<workspace, state, plans, abort, abandoned, previewed>>

FinishPreview(t, ok) ==
    /\ At(t, "plan") /\ flow[t].kind = "preview"
    /\ IF ok THEN SaveEvidence(flow[t].file) ELSE UNCHANGED evidence
    /\ EndReview(t)
    /\ UNCHANGED <<disk, baseline, changes, event, state, plans, abort, previewed>>

(***************************************************************************)
(* The Preview and Apply Recovery commands.  They neither look at nor set  *)
(* the inbox's busy.  Apply re-observes every file first: held is the      *)
(* fresh plan, shown the reviewed one.  aborted: some plan is not          *)
(* applicable.                                                             *)
(***************************************************************************)
Command(pc, S) == [IdleFlow EXCEPT !.kind = "command", !.pc = pc, !.todo = S]

PreviewCommand(t, S) ==
    /\ ~Active(t) /\ S # {}
    /\ Step(t, Command("plan", S))
    /\ UNCHANGED <<workspace, state, fields, previewed>>

\* With no reviewed plan in date, Apply previews first and goes straight on.
ApplyCommand(t, S) ==
    /\ ~Active(t)
    /\ \/ /\ previewed # NoPlans /\ S = Planned(previewed)
          /\ Step(t, [Command("observe", S) EXCEPT !.shown = previewed])
       \/ /\ S # {}
          /\ Step(t, [Command("plan", S) EXCEPT !.straight = TRUE])
    /\ UNCHANGED <<workspace, state, fields, previewed>>

PreviewFile(t, f, v) ==
    /\ At(t, "plan") /\ flow[t].kind = "command" /\ f \in flow[t].todo
    /\ IF v = "failed"
       THEN /\ Step(t, [flow[t] EXCEPT !.todo = Done(t, f)])
            /\ UNCHANGED evidence
       ELSE /\ Step(t, [flow[t] EXCEPT !.todo = Done(t, f), !.held[f] = PlanOf(f),
                           !.aborted = flow[t].aborted \/ v = "blocked"])
            /\ SaveEvidence(f)
    /\ UNCHANGED <<disk, baseline, changes, event, state, fields, previewed>>

\* Plans that are not all applicable are remembered but never in date.
RememberPreviews(t) ==
    LET held == flow[t].held IN
    /\ At(t, "plan") /\ flow[t].kind = "command" /\ flow[t].todo = {}
    /\ previewed' = IF flow[t].aborted THEN NoPlans ELSE held
    /\ IF flow[t].straight /\ held # NoPlans
       THEN Step(t, [Command("observe", Planned(held)) EXCEPT !.shown = held])
       ELSE End(t)
    /\ UNCHANGED <<workspace, state, fields>>

\* Variant: the fresh plan is not compared with the reviewed one.
ObserveAnyBaseline(t, f, v) ==
    /\ At(t, "observe") /\ f \in flow[t].todo
    /\ IF v = "failed" THEN UNCHANGED evidence ELSE SaveEvidence(f)
    /\ IF v = "failed"
       THEN End(t) /\ previewed' = NoPlans
       ELSE /\ Step(t, [flow[t] EXCEPT !.todo = Done(t, f), !.held[f] = PlanOf(f),
                           !.aborted = flow[t].aborted \/ v = "blocked"])
            /\ UNCHANGED previewed
    /\ UNCHANGED <<disk, baseline, changes, event, state, fields>>

Observe(t, f, v) ==
    /\ At(t, "observe") /\ f \in flow[t].todo
    /\ IF v = "failed" THEN UNCHANGED evidence ELSE SaveEvidence(f)
    /\ IF v = "failed" \/ baseline[f] # flow[t].shown[f].base
       THEN End(t) /\ previewed' = NoPlans
       ELSE /\ Step(t, [flow[t] EXCEPT !.todo = Done(t, f), !.held[f] = PlanOf(f),
                           !.aborted = flow[t].aborted \/ v = "blocked"])
            /\ UNCHANGED previewed
    /\ UNCHANGED <<disk, baseline, changes, event, state, fields>>

StartRevalidation(t) ==
    /\ At(t, "observe") /\ flow[t].todo = {}
    /\ Step(t, [flow[t] EXCEPT !.pc = "revalidate", !.todo = Planned(flow[t].held)])
    /\ UNCHANGED <<workspace, state, fields, previewed>>

\* A stale preview is dropped; one that is not applicable is kept.
RefuseCommand(t) ==
    /\ At(t, "revalidate") /\ flow[t].kind = "command" /\ flow[t].todo = {}
    /\ Stale(t) # {} \/ flow[t].aborted
    /\ previewed' = IF Stale(t) # {} THEN NoPlans ELSE previewed
    /\ End(t)
    /\ UNCHANGED <<workspace, state, fields>>

AnswerCommand(t, approved) ==
    /\ At(t, "approve") /\ flow[t].kind = "command"
    /\ IF approved
       THEN Step(t, [flow[t] EXCEPT !.pc = "apply", !.todo = Planned(flow[t].held)])
       ELSE End(t)
    /\ UNCHANGED <<workspace, state, fields, previewed>>

FinishCommand(t) ==
    /\ At(t, "apply") /\ flow[t].kind = "command" /\ flow[t].todo = {}
    /\ previewed' = NoPlans
    /\ End(t)
    /\ UNCHANGED <<workspace, state, fields>>

-----------------------------------------------------------------------------
PlanVerdicts == Verdicts \cup {"failed"}

\* What the extension host runs without being asked again, with the answers
\* to its modal dialogs.
FlowStep(t) ==
    \/ \E f \in Files : ProbeFile(t, f) \/ Revalidate(t, f) \/ CheckFile(t, f)
    \/ FinishProbe(t) \/ ScanError(t) \/ StartAssessment(t)
    \/ \E f \in Files, v \in Verdicts : AssessFile(t, f, v)
    \/ FinishAssessment(t) \/ AssessmentFails(t)
    \/ \E f \in Files, v \in PlanVerdicts :
          PlanFile(t, f, v) \/ PreviewFile(t, f, v) \/ Observe(t, f, v)
    \/ PlanningFails(t) \/ FinishPlanning(t) \/ ReviewIsStale(t) \/ AskApproval(t)
    \/ Decline(t) \/ DialogFails(t) \/ ExecutePlans(t) \/ SkipRest(t) \/ RecheckBaseline(t)
    \/ \E ok \in BOOLEAN : Execute(t, ok) \/ FinishPreview(t, ok) \/ AnswerCommand(t, ok)
    \/ ExecuteFails(t) \/ FinishRun(t)
    \/ RememberPreviews(t) \/ StartRevalidation(t) \/ RefuseCommand(t) \/ FinishCommand(t)

\* The files of the review on show and of every call that plans or recovers.
InHand ==
    {f \in Files : \/ f \in review
                   \/ \E t \in Flows : /\ flow[t].kind # "scan"
                                       /\ \/ f \in flow[t].todo \cup Planned(flow[t].held)
                                          \/ f = flow[t].file}

\* What the code leaves to the user when Overlap is FALSE: nothing keeps a file
\* that is already in hand from being previewed, reviewed or commanded again.
Free(S) == Overlap \/ S \cap InHand = {}

UserStep(t) ==
    \/ "scan" \in session[t] /\ RunScan(t)
    \/ "review" \in session[t] /\ ConfirmReview(t)
    \/ \E S \in {T \in SUBSET Files : Free(T)} :
          \/ /\ "review" \in session[t]
             /\ \E straight \in BOOLEAN : StartReview(t, S, straight)
          \/ "command" \in session[t] /\ (PreviewCommand(t, S) \/ ApplyCommand(t, S))
    \/ \E f \in Files : "preview" \in session[t] /\ Free({f}) /\ PreviewResource(t, f)

\* What happens between the calls and their steps.
Outside ==
    \/ \E f \in Files : CaptureBaseline(f) \/ \E c \in Contents : Change(f, c)
    \/ NoteWorkspaceEvent \/ OpenWhileBusy \/ CancelScan \/ Back

Next == /\ Outside \/ \E t \in Flows : FlowStep(t) \/ UserStep(t)
        /\ UNCHANGED session

Spec == Init /\ [][Next]_vars

-----------------------------------------------------------------------------
\* The extension's own writes: the file that flow t restores in this step.
Writes(t, f) ==
    /\ At(t, "execute") /\ flow[t].file = f
    /\ flow'[t].pc = "apply" /\ disk'[f] # disk[f]

\* The controller's busy, which keeps scans, reviews and runs apart, is set for
\* a reason and missing for a reason.  Set: one of these calls or a preview is
\* under way, or the approval dialog of one has failed; no early return, failing
\* engine call, cancellation or second opening of the inbox leaves it behind.
\* Missing: a call is under way without it, or beside another one, only after a
\* preview has crossed other work, and until all of them are over.
BusyAccounted ==
    /\ busy => abandoned \/ InboxCalls # {}
    /\ ~crossed => /\ InboxCalls # {} => busy
                   /\ \A t, u \in InboxCalls : t = u

\* However people edit files and recapture baselines between the review, the
\* revalidations and the engine's write, a run of the inbox overwrites only
\* the content that its review showed.
InboxOverwritesReviewed ==
    [][\A t \in Flows, f \in Files :
          Writes(t, f) /\ flow[t].kind = "review" => disk[f] = flow[t].shown[f].cur]_vars

\* What either way of recovery puts back is the baseline that was reviewed,
\* never one captured since then or one recorded by a later plan.
RestoresReviewedBaseline ==
    [][\A t \in Flows, f \in Files :
          Writes(t, f) => disk'[f] = flow[t].shown[f].base]_vars

\* The Apply command promises the same of "exactly the bytes that were
\* reviewed" (commands.ts, executeRecovery).
CommandOverwritesReviewed ==
    [][\A t \in Flows, f \in Files :
          Writes(t, f) /\ flow[t].kind = "command" => disk[f] = flow[t].shown[f].cur]_vars
==============================================================================
