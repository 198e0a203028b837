------------------------- MODULE RecoveryInboxProofs -------------------------
(***************************************************************************)
(* What the two ways to recover files guarantee, for any number of files,  *)
(* asynchronous calls, sessions, edits and recaptures.  What is recovered   *)
(* is what was reviewed as long as nobody takes up a file again that is    *)
(* already in hand (Overlap = FALSE); the rest holds without that.         *)
(***************************************************************************)
EXTENDS RecoveryInbox, TLAPS

\* Which calls pass through which stage.
Stage(t) ==
    /\ flow[t].pc \in {"probe", "assess"} <=> flow[t].kind = "scan"
    /\ flow[t].pc = "observe" => flow[t].kind = "command"

StageInv == \A t \in Flows : Stage(t)

\* The files whose evidence call t may still replace.
MayPlan(t) ==
    {f \in Files : \/ At(t, "plan") /\ flow[t].kind = "preview" /\ f = flow[t].file
                   \/ At(t, "plan") /\ flow[t].kind # "preview" /\ f \in flow[t].todo
                   \/ At(t, "plan") /\ flow[t].kind = "command" /\ f \in Planned(flow[t].held)
                   \/ At(t, "observe") /\ f \in flow[t].todo}

\* Call t has plans that it may still apply.
Applicable(t) ==
    \/ At(t, "plan") /\ flow[t].kind = "review"
    \/ flow[t].pc \in {"observe", "revalidate", "approve", "apply", "recheck", "execute"}

\* The files that call t relies on, or will.
Claims(t) == MayPlan(t) \cup {f \in Planned(flow[t].held) : Applicable(t)}

\* Nobody replaces the evidence of a plan that another call or the review on
\* show relies on.
ApartInv ==
    \A t \in Flows : /\ MayPlan(t) \cap review = {}
                     /\ \A u \in Flows \ {t} : MayPlan(t) \cap Claims(u) = {}

\* The files that call t recovers after their review.
Recovering(t) ==
    {f \in Planned(flow[t].held) :
        /\ flow[t].kind = "review"
        /\ flow[t].pc \in {"revalidate", "approve", "apply", "recheck", "execute"}}

\* The controller's plan of a file that is shown, or may be again when a stale
\* review is put back, is the one that its evidence stands for.
Agrees(f) == plans[f] # NoPlan => evidence[f] = plans[f]

ShownInv == /\ \A f \in review : Agrees(f)
            /\ \A t \in Flows : \A f \in Recovering(t) : Agrees(f)

\* The evidence of every plan that flow t may still apply is that plan's, and
\* what was shown to the user agrees with it.
Reviewed(t) ==
    /\ flow[t].kind = "review" => flow[t].held = flow[t].shown
    /\ \A f \in Planned(flow[t].held) : /\ evidence[f] = flow[t].held[f]
                                        /\ flow[t].held[f].base = flow[t].shown[f].base

Target(t) ==
    /\ flow[t].pc \in {"apply", "recheck", "execute"} =>
          flow[t].todo \subseteq Planned(flow[t].held)
    /\ flow[t].pc \in {"recheck", "execute"} => flow[t].file \in Planned(flow[t].held)

ReviewedInv == \A t \in Flows : (Applicable(t) => Reviewed(t)) /\ Target(t)

Restrained == ApartInv /\ ShownInv /\ ReviewedInv

InboxInv == TypeOK /\ StageInv /\ BusyAccounted /\ (~Overlap => Restrained)

-----------------------------------------------------------------------------
(***************************************************************************)
(* Types.                                                                  *)
(***************************************************************************)
\* The values that fields are reset to, and a plan of the current state.
LEMMA Blanks ==
    /\ NoPlans \in [Files -> Plans \cup {NoPlan}]
    /\ Unlisted \in [Files -> RowStates]
    /\ NoOutcomes \in [Files -> Outcomes \cup {None}]
    /\ IdleFlow \in Locals
<1>1. /\ NoPlans \in [Files -> Plans \cup {NoPlan}]
      /\ Unlisted \in [Files -> RowStates]
      /\ NoOutcomes \in [Files -> Outcomes \cup {None}]
  BY DEF NoPlans, Unlisted, NoOutcomes, RowStates, Outcomes
<1> QED
  BY <1>1 DEF IdleFlow, Locals

\* A plan records the stored baseline and the file as it is.
LEMMA PlanTyped ==
    ASSUME TypeOK, NEW f \in Files
    PROVE  PlanOf(f) \in Plans
  BY DEF TypeOK, PlanOf, Plans

\* A call that moves on to well-typed local variables keeps the types.
LEMMA StepTyped ==
    ASSUME TypeOK, NEW t \in Flows, NEW r \in Locals, Step(t, r)
    PROVE  flow' \in [Flows -> Locals]
  BY DEF TypeOK, Step

\* Replacing the InboxState takes nothing from the local variables' types.
LEMMA DisownedTyped ==
    ASSUME TypeOK
    PROVE  Disowned \in [Flows -> Locals]
<1> SUFFICES ASSUME NEW u \in Flows PROVE [flow[u] EXCEPT !.own = FALSE] \in Locals
  BY DEF Disowned
<1>1. flow[u] \in Locals
  BY DEF TypeOK
<1> QED
  BY <1>1, Zenon DEF Locals

\* Every stretch of a flow that goes on leaves well-typed local variables.
LEMMA LocalsInductive ==
    ASSUME TypeOK, NEW t \in Flows, FlowStep(t) \/ UserStep(t)
    PROVE  flow' \in [Flows -> Locals]
<1> DEFINE r == flow[t]
<1>0. r \in Locals /\ IdleFlow \in Locals
  BY Blanks DEF TypeOK
<1>1. ASSUME NEW q \in Locals, Step(t, q) PROVE flow' \in [Flows -> Locals]
  BY <1>1, StepTyped
<1>2. ASSUME End(t) PROVE flow' \in [Flows -> Locals]
  BY <1>0, <1>1, <1>2 DEF End
<1>3. \A f \in Files : PlanOf(f) \in Plans \cup {NoPlan} /\ Done(t, f) \in SUBSET Files
  BY <1>0, PlanTyped DEF Done, Locals
<1> HIDE DEF r
<1>4. \A S \in SUBSET Files : \A h \in [Files -> Plans \cup {NoPlan}] :
         /\ Command("plan", S) \in Locals
         /\ [Command("plan", S) EXCEPT !.straight = TRUE] \in Locals
         /\ [Command("observe", S) EXCEPT !.shown = h] \in Locals
  BY <1>0, Zenon DEF Locals, Command, CallKinds
<1>5. \A h \in [Files -> Plans \cup {NoPlan}] : Planned(h) \in SUBSET Files
  BY DEF Planned
<1>6. ASSUME NEW f \in Files, ProbeFile(t, f) \/ Revalidate(t, f) \/ CheckFile(t, f)
      PROVE  flow' \in [Flows -> Locals]
  <2>1. \A v \in RowStates : [r EXCEPT !.todo = Done(t, f), !.seen[f] = v] \in Locals
    BY <1>0, <1>3, Zenon DEF Locals
  <2>2. \A v \in Outcomes \cup {None} : [r EXCEPT !.todo = Done(t, f), !.out[f] = v] \in Locals
    BY <1>0, <1>3, Zenon DEF Locals
  <2>3. [r EXCEPT !.pc = "recheck", !.file = f] \in Locals
    BY <1>0, Zenon DEF Locals
  <2> QED
    BY <1>1, <1>6, <2>1, <2>2, <2>3 DEF ProbeFile, Revalidate, CheckFile, Attempt, r, RowStates,
       Outcomes
<1>7. CASE \/ FinishProbe(t) \/ ScanError(t) \/ FinishAssessment(t) \/ AssessmentFails(t)
           \/ PlanningFails(t) \/ ReviewIsStale(t) \/ Decline(t) \/ FinishRun(t)
           \/ RefuseCommand(t) \/ FinishCommand(t) \/ DialogFails(t)
           \/ \E ok \in BOOLEAN : FinishPreview(t, ok)
  BY <1>2, <1>7 DEF FinishProbe, ScanError, FinishAssessment, AssessmentFails, PlanningFails,
     ReviewIsStale, Decline, DialogFails, FinishRun, RefuseCommand, FinishCommand, FinishPreview,
     EndScan, EndReview
<1>8. CASE StartAssessment(t)
  <2>1. Candidates(t) \in SUBSET Files
    BY DEF Candidates
  <2>2. [r EXCEPT !.pc = "assess", !.todo = Candidates(t)] \in Locals
    BY <1>0, <2>1, Zenon DEF Locals
  <2> QED
    BY <1>1, <1>8, <2>2 DEF StartAssessment, r
<1>9. ASSUME NEW f \in Files, NEW v \in Verdicts, AssessFile(t, f, v)
      PROVE  flow' \in [Flows -> Locals]
  <2>1. [r EXCEPT !.todo = Done(t, f), !.seen[f] = v] \in Locals
    BY <1>0, <1>3, Zenon DEF Locals, RowStates
  <2> QED
    BY <1>1, <1>9, <2>1 DEF AssessFile, r
<1>10. ASSUME NEW f \in Files, NEW v \in PlanVerdicts, PlanFile(t, f, v)
       PROVE  flow' \in [Flows -> Locals]
  <2>1. \A p \in Plans \cup {NoPlan} :
           [r EXCEPT !.todo = Done(t, f), !.held[f] = p, !.shown[f] = p] \in Locals
    BY <1>0, <1>3, Zenon DEF Locals
  <2> QED
    BY <1>1, <1>3, <1>10, <2>1 DEF PlanFile, r
<1>11. ASSUME NEW f \in Files, NEW v \in PlanVerdicts, PreviewFile(t, f, v) \/ Observe(t, f, v)
       PROVE  flow' \in [Flows -> Locals]
  <2>1. [r EXCEPT !.todo = Done(t, f)] \in Locals
    BY <1>0, <1>3, Zenon DEF Locals
  <2>2. [r EXCEPT !.todo = Done(t, f), !.held[f] = PlanOf(f),
                  !.aborted = r.aborted \/ v = "blocked"] \in Locals
    BY <1>0, <1>3, Zenon DEF Locals
  <2> QED
    BY <1>1, <1>2, <1>11, <2>1, <2>2 DEF PreviewFile, Observe, r
<1>12. CASE FinishPlanning(t) \/ StartRevalidation(t)
  <2>1. [r EXCEPT !.pc = "revalidate", !.todo = Planned(r.held)] \in Locals
    BY <1>0, <1>5, Zenon DEF Locals
  <2> QED
    BY <1>1, <1>2, <1>12, <2>1 DEF FinishPlanning, StartRevalidation, EndReview, r
<1>13. CASE AskApproval(t)
  <2>1. [r EXCEPT !.pc = "approve"] \in Locals
    BY <1>0, Zenon DEF Locals
  <2> QED
    BY <1>1, <1>13, <2>1 DEF AskApproval, r
<1>14. CASE ExecutePlans(t)
  <2>1. [r EXCEPT !.pc = "apply", !.todo = Planned(r.held), !.own = TRUE] \in Locals
    BY <1>0, <1>5, Zenon DEF Locals
  <2> QED
    BY <1>1, <1>14, <2>1 DEF ExecutePlans, r
<1>15. CASE SkipRest(t)
  <2>1. [f \in Files |-> IF f \in r.todo THEN "skipped" ELSE r.out[f]]
           \in [Files -> Outcomes \cup {None}]
    BY <1>0 DEF Locals, Outcomes
  <2>2. \A o \in [Files -> Outcomes \cup {None}] : [r EXCEPT !.todo = {}, !.out = o] \in Locals
    BY <1>0, ZenonT(60) DEF Locals
  <2> QED
    BY <1>1, <1>15, <2>1, <2>2 DEF SkipRest, r
<1>16. ASSUME \/ RecheckBaseline(t) \/ ExecuteFails(t) \/ \E ok \in BOOLEAN : Execute(t, ok)
       PROVE  flow' \in [Flows -> Locals]
  <2>1. [r EXCEPT !.pc = "execute"] \in Locals
    BY <1>0, Zenon DEF Locals
  <2>2. \A f \in Files \cup {None}, v \in Outcomes :
           [r EXCEPT !.pc = "apply", !.file = None, !.todo = r.todo \ {f}, !.out[f] = v] \in Locals
    BY <1>0, Zenon DEF Locals
  <2>3. r.file \in Files \cup {None}
    BY <1>0, Zenon DEF Locals
  <2> QED
    BY <1>1, <1>16, <2>1, <2>2, <2>3 DEF RecheckBaseline, ExecuteFails, Execute, Report, Done,
       Outcomes, r
<1>17. ASSUME NEW ok \in BOOLEAN, AnswerCommand(t, ok) PROVE flow' \in [Flows -> Locals]
  <2>1. [r EXCEPT !.pc = "apply", !.todo = Planned(r.held)] \in Locals
    BY <1>0, <1>5, Zenon DEF Locals
  <2> QED
    BY <1>1, <1>2, <1>17, <2>1 DEF AnswerCommand, r
<1>18. CASE RememberPreviews(t)
  <2>1. r.held \in [Files -> Plans \cup {NoPlan}]
    BY <1>0, Zenon DEF Locals
  <2> QED
    BY <1>1, <1>2, <1>4, <1>5, <1>18, <2>1 DEF RememberPreviews, r
<1>19. CASE RunScan(t)
  <2>1. [IdleFlow EXCEPT !.kind = "scan", !.pc = "probe", !.todo = Files, !.own = TRUE] \in Locals
    BY <1>0, Zenon DEF Locals, CallKinds
  <2> QED
    BY <1>19, <2>1, DisownedTyped DEF RunScan
<1>20. ASSUME NEW S \in SUBSET Files, NEW b \in BOOLEAN,
              StartReview(t, S, b) \/ PreviewCommand(t, S)
       PROVE  flow' \in [Flows -> Locals]
  <2>1. [IdleFlow EXCEPT !.kind = "review", !.pc = "plan", !.todo = S,
                         !.straight = b, !.own = TRUE] \in Locals
    BY <1>0, Zenon DEF Locals, CallKinds
  <2> QED
    BY <1>1, <1>4, <1>20, <2>1, Blanks DEF StartReview, PreviewCommand
<1>21. ASSUME NEW S \in SUBSET Files, ApplyCommand(t, S)
       PROVE  flow' \in [Flows -> Locals]
  <2>1. previewed \in [Files -> Plans \cup {NoPlan}]
    BY DEF TypeOK
  <2> QED
    BY <1>1, <1>4, <1>21, <2>1 DEF ApplyCommand
<1>22. CASE ConfirmReview(t)
  <2> DEFINE h == [f \in Files |-> IF f \in review THEN plans[f] ELSE NoPlan]
  <2>1. h \in [Files -> Plans \cup {NoPlan}]
    BY DEF TypeOK
  <2> HIDE DEF h
  <2>2. [IdleFlow EXCEPT !.kind = "review", !.pc = "revalidate", !.todo = Planned(h),
                         !.held = h, !.shown = h, !.own = TRUE] \in Locals
    BY <1>0, <1>5, <2>1, Zenon DEF Locals, CallKinds
  <2> QED
    BY <1>1, <1>22, <2>2 DEF ConfirmReview, h
<1>23. ASSUME NEW f \in Files, PreviewResource(t, f) PROVE flow' \in [Flows -> Locals]
  <2>1. [IdleFlow EXCEPT !.kind = "preview", !.pc = "plan", !.file = f] \in Locals
    BY <1>0, Zenon DEF Locals, CallKinds
  <2> QED
    BY <1>1, <1>23, <2>1 DEF PreviewResource
<1> QED
  BY <1>6, <1>7, <1>8, <1>9, <1>10, <1>11, <1>12, <1>13, <1>14, <1>15, <1>16, <1>17, <1>18,
     <1>19, <1>20, <1>21, <1>22, <1>23 DEF FlowStep, UserStep

\* So do the two notes about busy.
LEMMA HistoryTyped ==
    ASSUME NEW t \in Flows, TypeOK
    PROVE  /\ GiveBack(t) => abandoned' \in BOOLEAN /\ crossed' \in BOOLEAN
           /\ Part(t) => crossed' \in BOOLEAN
           /\ crossed' = (crossed \/ InboxCalls # {}) => crossed' \in BOOLEAN
  BY Zenon DEF GiveBack, Part

\* What a flow leaves in the workspace, the InboxState and the controller.
LEMMA SharedInductive ==
    ASSUME TypeOK, NEW t \in Flows, FlowStep(t) \/ UserStep(t), flow' \in [Flows -> Locals],
           session' = session
    PROVE  TypeOK'
<1> USE Blanks, HistoryTyped DEF TypeOK, workspace, state, fields, history
<1>1. flow[t] \in Locals /\ flow[t].held \in [Files -> Plans \cup {NoPlan}]
      /\ flow[t].seen \in [Files -> RowStates] /\ flow[t].file \in Files \cup {None}
  BY Zenon DEF Locals
<1>2. \A f \in Files : [evidence EXCEPT ![f] = PlanOf(f)] \in [Files -> Plans \cup {NoPlan}]
  BY PlanTyped
<1>3. ASSUME NEW r \in [Files -> RowStates], NEW s \in {"done", "cancelled", "error"},
             EndScan(t, r, s)
      PROVE  TypeOK'
  <2>1. stale' \in BOOLEAN
    BY <1>3, Zenon DEF EndScan
  <2> QED
    BY <1>3, <2>1 DEF EndScan, GiveBack, SetBusy
<1>4. CASE FinishProbe(t) \/ ScanError(t) \/ FinishAssessment(t) \/ AssessmentFails(t)
  <2>1. [f \in Files |-> IF flow[t].seen[f] \in Verdicts
                         THEN "pending" ELSE flow[t].seen[f]] \in [Files -> RowStates]
    BY <1>1 DEF RowStates
  <2> QED
    BY <1>1, <1>3, <1>4, <2>1 DEF FinishProbe, ScanError, FinishAssessment, AssessmentFails
<1>5. CASE UNCHANGED <<workspace, state, fields, previewed>>
  BY <1>5
<1>6. CASE \/ \E f \in Files : ProbeFile(t, f) \/ Revalidate(t, f) \/ CheckFile(t, f)
           \/ \E f \in Files, v \in Verdicts : AssessFile(t, f, v)
           \/ StartAssessment(t) \/ AskApproval(t) \/ SkipRest(t) \/ RecheckBaseline(t)
           \/ ExecuteFails(t) \/ \E ok \in BOOLEAN : AnswerCommand(t, ok)
           \/ StartRevalidation(t)
           \/ \E S \in SUBSET Files : PreviewCommand(t, S) \/ ApplyCommand(t, S)
  BY <1>5, <1>6 DEF ProbeFile, Revalidate, CheckFile, AssessFile, StartAssessment, AskApproval,
     SkipRest, RecheckBaseline, ExecuteFails, AnswerCommand, StartRevalidation,
     PreviewCommand, ApplyCommand
<1>7. ASSUME NEW f \in Files, NEW v \in PlanVerdicts,
             PlanFile(t, f, v) \/ PreviewFile(t, f, v) \/ Observe(t, f, v)
      PROVE  TypeOK'
  BY <1>2, <1>7 DEF PlanFile, PreviewFile, Observe, SaveEvidence
<1>8. CASE PlanningFails(t) \/ Decline(t) \/ ExecutePlans(t)
  BY <1>8 DEF PlanningFails, Decline, ExecutePlans, EndReview, GiveBack, SetBusy
<1>18. CASE FinishPlanning(t)
  <2>1. review' \subseteq Files
    BY <1>18 DEF FinishPlanning, Planned
  <2>2. /\ busy' \in BOOLEAN /\ viewBusy' \in BOOLEAN
        /\ abandoned' \in BOOLEAN /\ crossed' \in BOOLEAN
    BY <1>18 DEF FinishPlanning, EndReview, GiveBack, SetBusy
  <2> QED
    BY <1>1, <1>18, <2>1, <2>2 DEF FinishPlanning
<1>16. CASE DialogFails(t)
  BY <1>16 DEF DialogFails
<1>17. CASE ReviewIsStale(t)
  <2>1. review' \subseteq Files
    BY <1>17 DEF ReviewIsStale, DropStale, Planned
  <2> QED
    BY <1>17, <2>1 DEF ReviewIsStale, EndReview, GiveBack, SetBusy
<1>9. ASSUME NEW ok \in BOOLEAN, Execute(t, ok) PROVE TypeOK'
  <2>1. disk' \in [Files -> Contents]
    BY <1>9 DEF Execute, Admits, Contents
  <2>2. event' \in BOOLEAN
    BY <1>9, Zenon DEF Execute, Watched
  <2> QED
    BY <1>9, <2>1, <2>2 DEF Execute
<1>10. ASSUME NEW ok \in BOOLEAN, FinishPreview(t, ok) PROVE TypeOK'
  <2>1. \A f : f \notin Files => [evidence EXCEPT ![f] = PlanOf(f)] = evidence
    OBVIOUS
  <2>2. evidence' \in [Files -> Plans \cup {NoPlan}]
    BY <1>2, <1>10, <2>1 DEF FinishPreview, SaveEvidence
  <2> QED
    BY <1>10, <2>2 DEF FinishPreview, EndReview, GiveBack, SetBusy
<1>11. CASE FinishRun(t)
  BY <1>11 DEF FinishRun, EndReview, GiveBack, SetBusy, RowStates
<1>12. CASE RememberPreviews(t) \/ RefuseCommand(t) \/ FinishCommand(t)
  BY <1>1, <1>12 DEF RememberPreviews, RefuseCommand, FinishCommand
<1>13. CASE RunScan(t)
  BY <1>13 DEF RunScan, NewState, SetBusy
<1>14. ASSUME NEW S \in SUBSET Files, NEW b \in BOOLEAN, StartReview(t, S, b)
       PROVE  TypeOK'
  BY <1>14 DEF StartReview, SetBusy
<1>15. CASE ConfirmReview(t) \/ \E f \in Files : PreviewResource(t, f)
  BY <1>15 DEF ConfirmReview, PreviewResource, SetBusy
<1> QED
  BY <1>4, <1>6, <1>7, <1>8, <1>9, <1>10, <1>11, <1>12, <1>13, <1>14, <1>15, <1>16, <1>17,
     <1>18
     DEF FlowStep, UserStep

\* Every step keeps the types.
LEMMA TypeInductive == TypeOK /\ [Next]_vars => TypeOK'
<1> SUFFICES ASSUME TypeOK, [Next]_vars PROVE TypeOK'
  OBVIOUS
<1>0. session' = session
  BY DEF Next, vars
<1>1. ASSUME NEW t \in Flows, FlowStep(t) \/ UserStep(t) PROVE TypeOK'
  BY <1>0, <1>1, LocalsInductive, SharedInductive
<1> USE <1>0 DEF TypeOK, workspace, state, fields, history
<1>2. ASSUME NEW f \in Files, NEW c \in Contents, Change(f, c) PROVE TypeOK'
  <2>1. event' \in BOOLEAN
    BY <1>2, Zenon DEF Change, Watched
  <2>2. changes' \in 0..MaxChanges
    BY <1>2, InboxAssumption DEF Change
  <2> QED
    BY <1>2, <2>1, <2>2 DEF Change
<1>3. ASSUME NEW f \in Files, CaptureBaseline(f) PROVE TypeOK'
  <2>1. stale' \in BOOLEAN
    BY <1>3, Zenon DEF CaptureBaseline, Watched
  <2>2. changes' \in 0..MaxChanges
    BY <1>3, InboxAssumption DEF CaptureBaseline
  <2> QED
    BY <1>3, <2>1, <2>2 DEF CaptureBaseline, Contents
<1>4. CASE NoteWorkspaceEvent
  BY <1>4 DEF NoteWorkspaceEvent
<1>5. CASE OpenWhileBusy
  BY <1>5, Blanks, DisownedTyped DEF OpenWhileBusy, NewState
<1>6. CASE CancelScan
  <2>1. abort \in Flows /\ flow[abort] \in Locals
    BY <1>6 DEF CancelScan
  <2>2. [flow[abort] EXCEPT !.aborted = TRUE] \in Locals
    BY <2>1, Zenon DEF Locals
  <2>3. flow' = [flow EXCEPT ![abort] = [flow[abort] EXCEPT !.aborted = TRUE]]
    BY <1>6, <2>1, Zenon DEF CancelScan
  <2> QED
    BY <1>6, <2>1, <2>2, <2>3 DEF CancelScan
<1>7. CASE Back
  BY <1>7, Blanks DEF Back
<1>8. CASE UNCHANGED vars
  BY <1>8 DEF vars
<1> QED
  BY <1>1, <1>2, <1>3, <1>4, <1>5, <1>6, <1>7, <1>8 DEF Next, Outside

\* The initial state has the types.
LEMMA TypeInitial == Init => TypeOK
<1> SUFFICES ASSUME Init PROVE TypeOK
  OBVIOUS
<1>1. /\ event \in BOOLEAN /\ stale \in BOOLEAN /\ dirty \in BOOLEAN
      /\ busy \in BOOLEAN /\ viewBusy \in BOOLEAN
      /\ abandoned \in BOOLEAN /\ crossed \in BOOLEAN
  BY Zenon DEF Init
<1>2. flow \in [Flows -> Locals]
  BY Blanks, SMTT(30) DEF Init
<1> QED
  BY <1>1, <1>2, Blanks, InboxAssumption DEF Init, TypeOK, Contents

-----------------------------------------------------------------------------
(***************************************************************************)
(* Calls beside each other.                                                *)
(***************************************************************************)
\* What the invariant says of call u is about these local variables.
Kept(u) ==
    /\ flow'[u].kind = flow[u].kind /\ flow'[u].pc = flow[u].pc
    /\ flow'[u].todo = flow[u].todo /\ flow'[u].file = flow[u].file
    /\ flow'[u].held = flow[u].held /\ flow'[u].shown = flow[u].shown

\* A step of one call leaves the others' local variables alone, except that
\* they may lose their InboxState.
LEMMA OthersKept ==
    ASSUME TypeOK, NEW t \in Flows, FlowStep(t) \/ UserStep(t), NEW u \in Flows \ {t}
    PROVE  Kept(u)
<1>1. CASE RunScan(t)
  <2>1. flow'[u] = [flow[u] EXCEPT !.own = FALSE] /\ flow[u] \in Locals
    BY <1>1 DEF RunScan, Disowned, TypeOK
  <2> QED
    BY <2>1 DEF Kept, Locals
<1>2. CASE \E r : Step(t, r)
  BY <1>2 DEF Step, TypeOK, Kept
<1>3. CASE FlowStep(t)
  <2>1. End(t) => \E r : Step(t, r)
    BY DEF End
  <2>2. CASE \/ FinishProbe(t) \/ ScanError(t) \/ FinishAssessment(t) \/ AssessmentFails(t)
             \/ PlanningFails(t) \/ ReviewIsStale(t) \/ Decline(t) \/ DialogFails(t)
             \/ FinishRun(t) \/ RefuseCommand(t) \/ FinishCommand(t)
             \/ \E ok \in BOOLEAN : FinishPreview(t, ok)
    BY <1>2, <2>1, <2>2 DEF FinishProbe, ScanError, FinishAssessment, AssessmentFails,
       PlanningFails, ReviewIsStale, Decline, DialogFails, FinishRun, RefuseCommand,
       FinishCommand, FinishPreview, EndScan, EndReview
  <2>3. CASE \E f \in Files : ProbeFile(t, f) \/ Revalidate(t, f) \/ CheckFile(t, f)
    BY <1>2, <2>3 DEF ProbeFile, Revalidate, CheckFile, Attempt
  <2>4. CASE \E f \in Files, v \in PlanVerdicts :
                PlanFile(t, f, v) \/ PreviewFile(t, f, v) \/ Observe(t, f, v)
    BY <1>2, <2>1, <2>4 DEF PlanFile, PreviewFile, Observe
  <2>5. CASE \/ StartAssessment(t) \/ \E f \in Files, v \in Verdicts : AssessFile(t, f, v)
             \/ AskApproval(t) \/ ExecutePlans(t) \/ SkipRest(t) \/ RecheckBaseline(t)
             \/ ExecuteFails(t) \/ \E ok \in BOOLEAN : Execute(t, ok)
             \/ StartRevalidation(t)
    BY <1>2, <2>5 DEF StartAssessment, AssessFile, AskApproval, ExecutePlans, SkipRest,
       RecheckBaseline, ExecuteFails, Execute, Report, StartRevalidation
  <2>6. CASE FinishPlanning(t) \/ RememberPreviews(t) \/ \E ok \in BOOLEAN : AnswerCommand(t, ok)
    BY <1>2, <2>1, <2>6 DEF FinishPlanning, RememberPreviews, AnswerCommand, EndReview
  <2> QED
    BY <1>3, <2>2, <2>3, <2>4, <2>5, <2>6 DEF FlowStep
<1>4. CASE UserStep(t)
  BY <1>1, <1>2, <1>4 DEF UserStep, StartReview, PreviewCommand, ApplyCommand, ConfirmReview,
     PreviewResource
<1> QED
  BY <1>3, <1>4

\* What is said of a call stays the same with its local variables.
LEMMA KeptSame ==
    ASSUME NEW u \in Flows, Kept(u)
    PROVE  /\ MayPlan(u)' = MayPlan(u) /\ Claims(u)' = Claims(u)
           /\ Recovering(u)' = Recovering(u)
           /\ Applicable(u)' <=> Applicable(u)
           /\ (u \in InboxCalls)' <=> u \in InboxCalls
           /\ Stage(u) => Stage(u)'
           /\ Target(u) => Target(u)'
<1> USE DEF Kept, At, Planned
<1>1. MayPlan(u)' = MayPlan(u)
  BY DEF MayPlan
<1>2. Applicable(u)' <=> Applicable(u)
  BY DEF Applicable
<1>3. Claims(u)' = Claims(u)
  BY <1>1, <1>2 DEF Claims
<1>4. Recovering(u)' = Recovering(u)
  BY DEF Recovering
<1>5. (u \in InboxCalls)' <=> u \in InboxCalls
  BY DEF InboxCalls, Active
<1> QED
  BY <1>1, <1>2, <1>3, <1>4, <1>5 DEF Stage, Target

\* Busy and the notes about it, through a step of call t.
BusyStep(t) ==
    \/ /\ UNCHANGED history /\ ((t \in InboxCalls)' <=> t \in InboxCalls)
       /\ busy' = busy \/ (busy' /\ t \in InboxCalls)
    \/ /\ ~busy /\ busy' /\ UNCHANGED history
       /\ t \notin InboxCalls /\ (t \in InboxCalls)'
    \/ /\ busy' /\ abandoned' = abandoned /\ crossed' = (crossed \/ InboxCalls # {})
       /\ t \notin InboxCalls /\ (t \in InboxCalls)'
    \/ /\ t \in InboxCalls /\ ~(t \in InboxCalls)' /\ Part(t)
       /\ ~busy' \/ (busy' = busy /\ abandoned' = busy)

\* Such steps keep busy accounted for.
LEMMA BusyKept ==
    ASSUME BusyAccounted, NEW t \in Flows, BusyStep(t),
           \A u \in Flows \ {t} : (u \in InboxCalls)' <=> u \in InboxCalls
    PROVE  BusyAccounted'
<1>0. InboxCalls \subseteq Flows /\ InboxCalls' \subseteq Flows
  BY DEF InboxCalls
<1>1. CASE /\ UNCHANGED history /\ ((t \in InboxCalls)' <=> t \in InboxCalls)
           /\ busy' = busy \/ (busy' /\ t \in InboxCalls)
  <2>1. InboxCalls' = InboxCalls
    BY <1>0, <1>1
  <2> QED
    BY <1>1, <2>1 DEF BusyAccounted, history
<1>2. CASE /\ ~busy /\ busy' /\ UNCHANGED history
           /\ t \notin InboxCalls /\ (t \in InboxCalls)'
  <2>1. InboxCalls' = InboxCalls \cup {t}
    BY <1>0, <1>2
  <2> QED
    BY <1>2, <2>1 DEF BusyAccounted, history
<1>3. CASE /\ busy' /\ abandoned' = abandoned /\ crossed' = (crossed \/ InboxCalls # {})
           /\ t \notin InboxCalls /\ (t \in InboxCalls)'
  <2>1. InboxCalls' = InboxCalls \cup {t}
    BY <1>0, <1>3
  <2> QED
    BY <1>3, <2>1 DEF BusyAccounted
<1>4. CASE /\ t \in InboxCalls /\ ~(t \in InboxCalls)' /\ Part(t)
           /\ ~busy' \/ (busy' = busy /\ abandoned' = busy)
  <2>1. InboxCalls' = InboxCalls \ {t}
    BY <1>0, <1>4
  <2>2. ~crossed' => InboxCalls = {t}
    BY <1>4 DEF BusyAccounted, Part
  <2> QED
    BY <1>4, <2>1, <2>2 DEF BusyAccounted
<1> QED
  BY <1>1, <1>2, <1>3, <1>4 DEF BusyStep

-----------------------------------------------------------------------------
(***************************************************************************)
(* The steps of a call.                                                    *)
(***************************************************************************)
\* The part of the invariant about the plans of call t.
Sound(t) == (Applicable(t) => Reviewed(t)) /\ Target(t)

\* A step of a call under way replaces only evidence that the call may, comes
\* to rely on no other file, and changes what is shown only to its own plans.
Confined(t) ==
    /\ \A g \in Files \ MayPlan(t) : evidence'[g] = evidence[g]
    /\ MayPlan(t)' \subseteq MayPlan(t) /\ Claims(t)' \subseteq Claims(t)
    /\ \/ /\ plans' = plans /\ Recovering(t)' \subseteq Recovering(t)
          /\ review' \subseteq review \cup Recovering(t)
       \/ /\ plans' = flow[t].held /\ MayPlan(t) = {} /\ Applicable(t)
          /\ review' \subseteq review \cup Planned(flow[t].held)

\* What each step of a call is shown to do.
Proper(t) == Stage(t)' /\ BusyStep(t) /\ (Sound(t) => Confined(t) /\ Sound(t)')

\* A step that moves the call on and leaves what it shares alone.
Internal(t) ==
    /\ Active(t) /\ UNCHANGED <<evidence, review, plans, busy, history>>
    /\ flow'[t].kind = flow[t].kind
    /\ flow'[t].held = flow[t].held /\ flow'[t].shown = flow[t].shown
    /\ \/ flow[t].pc \in {"probe", "assess", "revalidate"} /\ flow'[t].pc = flow[t].pc
       \/ flow[t].pc = "probe" /\ flow'[t].pc = "assess"
       \/ flow[t].pc = "observe" /\ flow'[t].pc = "revalidate"
       \/ flow[t].pc = "revalidate" /\ flow'[t].pc = "approve"
       \/ /\ flow[t].pc = "approve" /\ flow'[t].pc = "apply"
          /\ flow'[t].todo = Planned(flow[t].held)
       \/ /\ flow[t].pc = "apply" /\ flow'[t].pc = "recheck"
          /\ flow'[t].file \in flow[t].todo /\ flow'[t].todo = flow[t].todo
       \/ /\ flow[t].pc = "recheck" /\ flow'[t].pc = "execute"
          /\ flow'[t].file = flow[t].file /\ flow'[t].todo = flow[t].todo
       \/ /\ flow[t].pc \in {"apply", "recheck", "execute"} /\ flow'[t].pc = "apply"
          /\ flow'[t].todo \subseteq flow[t].todo

\* The steps between the first and the last of a call.
LEMMA InternalSteps ==
    ASSUME TypeOK, NEW t \in Flows,
           \/ \E f \in Files : ProbeFile(t, f) \/ Revalidate(t, f) \/ CheckFile(t, f)
           \/ \E f \in Files, v \in Verdicts : AssessFile(t, f, v)
           \/ StartAssessment(t) \/ AskApproval(t) \/ SkipRest(t) \/ RecheckBaseline(t)
           \/ ExecuteFails(t) \/ AnswerCommand(t, TRUE) \/ StartRevalidation(t)
           \/ \E ok \in BOOLEAN : Execute(t, ok)
    PROVE  Internal(t)
<1> USE DEF Internal, Active, At, workspace, state, fields, history
<1>0. flow[t] \in Locals /\ \A q : Step(t, q) => flow'[t] = q
  BY DEF TypeOK, Step
<1>1. ASSUME NEW f \in Files, ProbeFile(t, f) \/ Revalidate(t, f) PROVE Internal(t)
  BY <1>0, <1>1, ZenonT(60) DEF ProbeFile, Revalidate, Locals
<1>2. ASSUME NEW f \in Files, CheckFile(t, f) PROVE Internal(t)
  <2>1. \/ flow'[t] = [flow[t] EXCEPT !.pc = "recheck", !.file = f]
        \/ flow'[t] = [flow[t] EXCEPT !.todo = Done(t, f), !.out[f] = "skipped"]
    BY <1>0, <1>2 DEF CheckFile, Attempt
  <2>2. Done(t, f) \subseteq flow[t].todo
    BY DEF Done
  <2> QED
    BY <1>0, <1>2, <2>1, <2>2 DEF CheckFile, Locals
<1>3. ASSUME NEW f \in Files, NEW v \in Verdicts, AssessFile(t, f, v) PROVE Internal(t)
  BY <1>0, <1>3 DEF AssessFile, Locals
<1>4. CASE StartAssessment(t) \/ AskApproval(t) \/ StartRevalidation(t)
  BY <1>0, <1>4, ZenonT(60) DEF StartAssessment, AskApproval, StartRevalidation, Locals
<1>5. CASE SkipRest(t) \/ AnswerCommand(t, TRUE)
  BY <1>0, <1>5 DEF SkipRest, AnswerCommand, Locals
<1>6. ASSUME NEW v, Report(t, v)
      PROVE  /\ flow'[t].pc = "apply" /\ flow'[t].kind = flow[t].kind
             /\ flow'[t].held = flow[t].held /\ flow'[t].shown = flow[t].shown
             /\ flow'[t].todo \subseteq flow[t].todo
  <2>1. flow'[t] = [flow[t] EXCEPT !.pc = "apply", !.file = None,
                       !.todo = Done(t, flow[t].file), !.out[flow[t].file] = v]
    BY <1>0, <1>6 DEF Report
  <2>2. Done(t, flow[t].file) \subseteq flow[t].todo
    BY DEF Done
  <2> QED
    BY <1>0, <2>1, <2>2 DEF Locals
<1>7. CASE RecheckBaseline(t)
  BY <1>0, <1>6, <1>7 DEF RecheckBaseline, Locals
<1>8. CASE ExecuteFails(t) \/ \E ok \in BOOLEAN : Execute(t, ok)
  BY <1>6, <1>8 DEF ExecuteFails, Execute
<1> QED
  BY <1>1, <1>2, <1>3, <1>4, <1>5, <1>7, <1>8

\* They are proper steps.
LEMMA InternalProper ==
    ASSUME NEW t \in Flows, Stage(t), Internal(t)
    PROVE  Proper(t)
<1> USE DEF Internal, At, Planned
<1>1. Stage(t)'
  BY DEF Stage
<1>2. BusyStep(t)
  BY DEF BusyStep, InboxCalls, Active
<1>3. MayPlan(t)' = {}
  BY DEF MayPlan
<1>4. Applicable(t)' => Applicable(t)
  BY DEF Applicable
<1>5. Claims(t)' \subseteq Claims(t)
  BY <1>3, <1>4 DEF Claims
<1>6. Recovering(t)' \subseteq Recovering(t)
  BY DEF Recovering, Stage
<1>7. Confined(t)
  BY <1>3, <1>5, <1>6 DEF Confined
<1>8. Reviewed(t) => Reviewed(t)'
  BY DEF Reviewed
<1>9. Target(t) => Target(t)'
  BY DEF Target
<1> QED
  BY <1>1, <1>2, <1>4, <1>7, <1>8, <1>9 DEF Proper, Sound

\* A call that is over gives back what it holds.
Ending(t) ==
    /\ Active(t) /\ flow'[t] = IdleFlow
    /\ UNCHANGED <<evidence, plans>>
    /\ \/ review' \subseteq review
       \/ /\ At(t, "revalidate") /\ flow[t].kind = "review"
          /\ review' \subseteq Planned(flow[t].shown)
    /\ IF flow[t].kind = "command" THEN UNCHANGED <<busy, history>>
       ELSE Part(t) /\ (~busy' \/ (busy' = busy /\ abandoned' = busy))

\* The ways in which a call ends.
LEMMA EndingSteps ==
    ASSUME TypeOK, NEW t \in Flows, Stage(t),
           \/ FinishProbe(t) \/ ScanError(t) \/ FinishAssessment(t) \/ AssessmentFails(t)
           \/ PlanningFails(t) \/ ReviewIsStale(t) \/ Decline(t) \/ DialogFails(t)
           \/ FinishRun(t) \/ RefuseCommand(t) \/ FinishCommand(t) \/ AnswerCommand(t, FALSE)
    PROVE  Ending(t)
<1> USE DEF Ending, Active, At, workspace, state, fields, EndReview, GiveBack, SetBusy
<1>0. End(t) => flow'[t] = IdleFlow
  BY DEF TypeOK, End, Step
<1>1. ASSUME NEW r, NEW s, EndScan(t, r, s), At(t, "probe") \/ At(t, "assess")
      PROVE  Ending(t)
  BY <1>0, <1>1 DEF EndScan, Stage
<1>2. CASE FinishProbe(t) \/ ScanError(t) \/ FinishAssessment(t) \/ AssessmentFails(t)
  BY <1>1, <1>2 DEF FinishProbe, ScanError, FinishAssessment, AssessmentFails
<1>3. CASE PlanningFails(t) \/ Decline(t) \/ FinishRun(t)
  BY <1>0, <1>3 DEF PlanningFails, Decline, FinishRun
<1>4. CASE ReviewIsStale(t)
  BY <1>0, <1>4 DEF ReviewIsStale, DropStale
<1>5. CASE DialogFails(t)
  BY <1>0, <1>5 DEF DialogFails
<1>6. CASE RefuseCommand(t) \/ FinishCommand(t) \/ AnswerCommand(t, FALSE)
  BY <1>0, <1>6 DEF RefuseCommand, FinishCommand, AnswerCommand
<1> QED
  BY <1>2, <1>3, <1>4, <1>5, <1>6

\* A call that is over relies on nothing.
LEMMA OverClaims ==
    ASSUME NEW t \in Flows, flow'[t] = IdleFlow
    PROVE  /\ Stage(t)' /\ ~(t \in InboxCalls)' /\ Sound(t)'
           /\ MayPlan(t)' = {} /\ Claims(t)' = {} /\ Recovering(t)' = {}
<1>1. flow'[t].pc = "idle" /\ flow'[t].kind = None
  BY DEF IdleFlow
<1>2. Stage(t)' /\ ~(t \in InboxCalls)' /\ ~Applicable(t)' /\ Target(t)'
  BY <1>1 DEF Stage, None, InboxCalls, Active, Applicable, At, Target
<1>3. MayPlan(t)' = {} /\ Recovering(t)' = {}
  BY <1>1 DEF MayPlan, Recovering, At
<1> QED
  BY <1>2, <1>3 DEF Sound, Claims

\* Ending is proper.
LEMMA EndingProper ==
    ASSUME NEW t \in Flows, Ending(t)
    PROVE  Proper(t)
<1>1. BusyStep(t)
  BY OverClaims DEF Ending, BusyStep, InboxCalls, Active
<1>2. ASSUME Sound(t) PROVE Confined(t)
  <2>1. CASE review' \subseteq review
    BY <2>1, OverClaims DEF Ending, Confined
  <2>2. CASE /\ At(t, "revalidate") /\ flow[t].kind = "review"
             /\ review' \subseteq Planned(flow[t].shown)
    <3>1. flow[t].held = flow[t].shown
      BY <1>2, <2>2 DEF Sound, Applicable, Reviewed, At
    <3>2. review' \subseteq Recovering(t)
      BY <2>2, <3>1 DEF Recovering, At
    <3> QED
      BY <3>2, OverClaims DEF Ending, Confined
  <2> QED
    BY <2>1, <2>2 DEF Ending
<1> QED
  BY <1>1, <1>2, OverClaims DEF Ending, Proper

\* A step within the planning of call t: plans of file f, and the evidence.
Planning(t, f) ==
    /\ Active(t) /\ UNCHANGED <<review, plans, busy, history>>
    /\ flow'[t].kind = flow[t].kind /\ flow'[t].pc = flow[t].pc
    /\ f \in flow[t].todo /\ flow'[t].todo = flow[t].todo \ {f}
    /\ flow'[t].shown \in [Files -> Plans \cup {NoPlan}]
    /\ flow'[t].held \in [Files -> Plans \cup {NoPlan}]
    /\ \A g \in Files \ {f} : /\ evidence'[g] = evidence[g]
                              /\ flow'[t].held[g] = flow[t].held[g]
                              /\ flow'[t].shown[g] = flow[t].shown[g]
    /\ \/ At(t, "plan") /\ flow[t].kind \in {"review", "command"}
       \/ At(t, "observe") /\ flow[t].kind = "command"
    /\ Applicable(t) /\ flow'[t].held[f] # NoPlan =>
          /\ evidence'[f] = flow'[t].held[f]
          /\ flow'[t].held[f].base = flow'[t].shown[f].base
    /\ Applicable(t) /\ flow[t].kind = "review" => flow'[t].held[f] = flow'[t].shown[f]

\* Such a step is proper.
LEMMA PlanningProper ==
    ASSUME TypeOK, NEW t \in Flows, NEW f \in Files, Stage(t), Planning(t, f)
    PROVE  Proper(t)
<1> USE DEF Planning, At
<1>0. /\ flow[t].held \in [Files -> Plans \cup {NoPlan}]
      /\ flow[t].shown \in [Files -> Plans \cup {NoPlan}]
  BY Zenon DEF TypeOK, Locals
<1>1. Stage(t)' /\ BusyStep(t)
  BY DEF Stage, BusyStep, InboxCalls, Active
<1>2. f \in MayPlan(t)
  BY DEF MayPlan
<1>3. Planned(flow'[t].held) \subseteq Planned(flow[t].held) \cup {f}
  BY DEF Planned
<1>4. MayPlan(t)' \subseteq MayPlan(t)
  BY <1>2, <1>3 DEF MayPlan
<1>5. Applicable(t)' <=> Applicable(t)
  BY DEF Applicable
<1>6. Claims(t)' \subseteq Claims(t)
  BY <1>2, <1>3, <1>4, <1>5 DEF Claims
<1>7. Recovering(t)' = {}
  BY DEF Recovering
<1>8. Confined(t)
  BY <1>2, <1>4, <1>6, <1>7 DEF Confined
<1>9. ASSUME Sound(t), Applicable(t) PROVE Reviewed(t)'
  <2>1. Reviewed(t)
    BY <1>9 DEF Sound
  <2>2. flow[t].kind = "review" => flow'[t].held = flow'[t].shown
    BY <1>0, <1>9, <2>1 DEF Reviewed
  <2>3. \A g \in Planned(flow'[t].held) : /\ evidence'[g] = flow'[t].held[g]
                                          /\ flow'[t].held[g].base = flow'[t].shown[g].base
    BY <1>9, <2>1 DEF Reviewed, Planned
  <2> QED
    BY <2>2, <2>3 DEF Reviewed
<1>10. Target(t)'
  BY DEF Target
<1> QED
  BY <1>1, <1>5, <1>8, <1>9, <1>10 DEF Proper, Sound

\* The steps that save a plan, or fail to, are such steps or end the call.
LEMMA PlanningSteps ==
    ASSUME TypeOK, NEW t \in Flows, Stage(t), NEW f \in Files, NEW v \in PlanVerdicts,
           PlanFile(t, f, v) \/ PreviewFile(t, f, v) \/ Observe(t, f, v)
    PROVE  Proper(t)
<1> USE DEF workspace, state, fields, history
<1>0. /\ flow[t] \in Locals /\ PlanOf(f) \in Plans
      /\ \A q : Step(t, q) => flow'[t] = q
      /\ End(t) => flow'[t] = IdleFlow
  BY PlanTyped DEF TypeOK, Step, End
<1>1. /\ evidence \in [Files -> Plans \cup {NoPlan}]
      /\ flow[t].held \in [Files -> Plans \cup {NoPlan}]
      /\ flow[t].shown \in [Files -> Plans \cup {NoPlan}]
  BY <1>0, Zenon DEF TypeOK, Locals
<1>2. CASE PlanFile(t, f, v)
  <2> DEFINE p == IF v = "eligible" THEN PlanOf(f) ELSE NoPlan
  <2>1. flow'[t] = [flow[t] EXCEPT !.todo = Done(t, f), !.held[f] = p, !.shown[f] = p]
    BY <1>0, <1>2, Zenon DEF PlanFile
  <2>2. p \in Plans \cup {NoPlan} /\ (v = "failed" => p = NoPlan)
        /\ (p # NoPlan => p = PlanOf(f))
    BY <1>0
  <2> HIDE DEF p
  <2>3. /\ flow'[t].kind = flow[t].kind /\ flow'[t].pc = flow[t].pc
        /\ flow'[t].todo = flow[t].todo \ {f}
        /\ flow'[t].held = [flow[t].held EXCEPT ![f] = p]
        /\ flow'[t].shown = [flow[t].shown EXCEPT ![f] = p]
    BY <1>0, <2>1 DEF Locals, Done
  <2>4. /\ flow[t].kind = "review" /\ At(t, "plan") /\ f \in flow[t].todo
        /\ UNCHANGED <<review, plans, busy, history>>
        /\ evidence' = [evidence EXCEPT ![f] = IF v = "failed" THEN @ ELSE PlanOf(f)]
    BY <1>1, <1>2 DEF PlanFile, SaveEvidence
  <2>5. evidence'[f] = IF v = "failed" THEN evidence[f] ELSE PlanOf(f)
    BY <1>1, <2>4
  <2>6. Planning(t, f)
    BY <1>1, <2>2, <2>3, <2>4, <2>5 DEF Planning, Active, At
  <2> QED
    BY <2>6, PlanningProper
<1>3. CASE PreviewFile(t, f, v)
  <2>1. /\ flow[t].kind = "command" /\ At(t, "plan") /\ f \in flow[t].todo
        /\ UNCHANGED <<review, plans, busy, history>>
        /\ \A g \in Files \ {f} : evidence'[g] = evidence[g]
    BY <1>1, <1>3 DEF PreviewFile, SaveEvidence
  <2>2. ~Applicable(t)
    BY <2>1 DEF Applicable, At
  <2>3. \/ flow'[t] = [flow[t] EXCEPT !.todo = Done(t, f)]
        \/ flow'[t] = [flow[t] EXCEPT !.todo = Done(t, f), !.held[f] = PlanOf(f),
                           !.aborted = flow[t].aborted \/ v = "blocked"]
    BY <1>0, <1>3, Zenon DEF PreviewFile
  <2>4. /\ flow'[t].kind = flow[t].kind /\ flow'[t].pc = flow[t].pc
        /\ flow'[t].todo = flow[t].todo \ {f} /\ flow'[t].shown = flow[t].shown
        /\ flow'[t].held \in {flow[t].held, [flow[t].held EXCEPT ![f] = PlanOf(f)]}
    BY <1>0, <2>3 DEF Locals, Done
  <2>5. Planning(t, f)
    BY <1>0, <1>1, <2>1, <2>2, <2>4 DEF Planning, Active, At
  <2> QED
    BY <2>5, PlanningProper
<1>4. CASE Observe(t, f, v)
  <2>1. /\ flow[t].kind = "command" /\ At(t, "observe") /\ f \in flow[t].todo
        /\ UNCHANGED <<review, plans, busy, history>>
        /\ \A g \in Files \ {f} : evidence'[g] = evidence[g]
    BY <1>1, <1>4 DEF Observe, SaveEvidence, Stage, At
  <2>2. CASE v = "failed" \/ baseline[f] # flow[t].shown[f].base
    <3>1. flow'[t] = IdleFlow
      BY <1>0, <1>4, <2>2 DEF Observe
    <3>2. BusyStep(t)
      BY <2>1, <3>1, OverClaims DEF BusyStep, InboxCalls
    <3>3. f \in MayPlan(t)
      BY <2>1 DEF MayPlan, At
    <3>4. Confined(t)
      BY <2>1, <3>1, <3>3, OverClaims DEF Confined
    <3> QED
      BY <3>1, <3>2, <3>4, OverClaims DEF Proper
  <2>3. CASE ~(v = "failed" \/ baseline[f] # flow[t].shown[f].base)
    <3>1. flow'[t] = [flow[t] EXCEPT !.todo = Done(t, f), !.held[f] = PlanOf(f),
                         !.aborted = flow[t].aborted \/ v = "blocked"]
      BY <1>0, <1>4, <2>3, Zenon DEF Observe
    <3>2. /\ flow'[t].kind = flow[t].kind /\ flow'[t].pc = flow[t].pc
          /\ flow'[t].todo = flow[t].todo \ {f} /\ flow'[t].shown = flow[t].shown
          /\ flow'[t].held = [flow[t].held EXCEPT ![f] = PlanOf(f)]
      BY <1>0, <3>1 DEF Locals, Done
    <3>3. /\ evidence'[f] = PlanOf(f)
          /\ PlanOf(f).base = flow[t].shown[f].base
      BY <1>1, <1>4, <2>3 DEF Observe, SaveEvidence, PlanOf
    <3>4. Planning(t, f)
      BY <1>0, <1>1, <2>1, <3>2, <3>3 DEF Planning, Active, At
    <3> QED
      BY <3>4, PlanningProper
  <2> QED
    BY <2>2, <2>3
<1> QED
  BY <1>2, <1>3, <1>4

\* So are the end of a preview, and the steps that pass plans on.
LEMMA PassingSteps ==
    ASSUME TypeOK, NEW t \in Flows, Stage(t),
           \/ \E ok \in BOOLEAN : FinishPreview(t, ok)
           \/ FinishPlanning(t) \/ ExecutePlans(t) \/ RememberPreviews(t)
    PROVE  Proper(t)
<1> USE DEF workspace, state, fields, history, GiveBack, SetBusy
<1>0. /\ flow[t] \in Locals
      /\ \A q : Step(t, q) => flow'[t] = q
      /\ End(t) => flow'[t] = IdleFlow
  BY DEF TypeOK, Step, End
<1>1. ASSUME NEW ok \in BOOLEAN, FinishPreview(t, ok) PROVE Proper(t)
  <2>1. /\ flow[t].kind = "preview" /\ At(t, "plan") /\ ~busy' /\ Part(t)
        /\ flow'[t] = IdleFlow /\ UNCHANGED <<review, plans>>
    BY <1>0, <1>1 DEF FinishPreview, EndReview
  <2>2. BusyStep(t)
    BY <2>1, OverClaims DEF BusyStep, InboxCalls, Active, At
  <2>3. \A g \in Files : g # flow[t].file => evidence'[g] = evidence[g]
    BY <1>1 DEF FinishPreview, SaveEvidence, TypeOK
  <2>4. Confined(t)
    BY <2>1, <2>3, OverClaims DEF Confined, MayPlan
  <2> QED
    BY <2>1, <2>2, <2>4, OverClaims DEF Proper
<1>2. CASE FinishPlanning(t)
  <2>1. /\ flow[t].kind = "review" /\ At(t, "plan") /\ flow[t].todo = {}
        /\ plans' = flow[t].held /\ review' \subseteq review \cup Planned(flow[t].held)
        /\ evidence' = evidence
    BY <1>2 DEF FinishPlanning
  <2>2. MayPlan(t) = {} /\ Applicable(t)
    BY <2>1 DEF MayPlan, Applicable, At
  <2>3. CASE EndReview(t)
    <3>1. flow'[t] = IdleFlow /\ ~busy' /\ Part(t)
      BY <1>0, <2>3 DEF EndReview
    <3>2. BusyStep(t)
      BY <2>1, <3>1, OverClaims DEF BusyStep, InboxCalls, Active, At
    <3>3. Confined(t)
      BY <2>1, <2>2, <3>1, OverClaims DEF Confined
    <3> QED
      BY <3>1, <3>2, <3>3, OverClaims DEF Proper
  <2>4. CASE /\ Step(t, [flow[t] EXCEPT !.pc = "revalidate", !.todo = Planned(flow[t].held)])
             /\ UNCHANGED <<busy, viewBusy, history>>
    <3>1. /\ flow'[t].kind = "review" /\ flow'[t].pc = "revalidate"
          /\ flow'[t].held = flow[t].held /\ flow'[t].shown = flow[t].shown
      BY <1>0, <2>1, <2>4 DEF Locals
    <3>2. Stage(t)' /\ BusyStep(t)
      BY <2>1, <2>4, <3>1 DEF Stage, BusyStep, InboxCalls, Active, At
    <3>3. MayPlan(t)' = {} /\ Claims(t)' \subseteq Claims(t)
      BY <2>2, <3>1 DEF MayPlan, Claims, At, Planned
    <3>4. Confined(t)
      BY <2>1, <2>2, <3>3 DEF Confined
    <3>5. Sound(t) => Sound(t)'
      BY <2>1, <2>2, <3>1 DEF Sound, Reviewed, Target, Planned
    <3> QED
      BY <3>2, <3>4, <3>5 DEF Proper
  <2> QED
    BY <1>2, <2>3, <2>4 DEF FinishPlanning
<1>3. CASE ExecutePlans(t)
  <2>1. /\ flow[t].kind = "review" /\ At(t, "approve") /\ busy' /\ review' = {}
        /\ UNCHANGED <<plans, evidence, history>>
    BY <1>3 DEF ExecutePlans
  <2>2. /\ flow'[t].kind = "review" /\ flow'[t].pc = "apply"
        /\ flow'[t].held = flow[t].held /\ flow'[t].shown = flow[t].shown
        /\ flow'[t].todo = Planned(flow[t].held)
    BY <1>0, <1>3, <2>1, ZenonT(60) DEF ExecutePlans, Locals
  <2>3. Stage(t)' /\ BusyStep(t)
    BY <2>1, <2>2 DEF Stage, BusyStep, InboxCalls, Active, At
  <2>4. Applicable(t) /\ MayPlan(t)' = {}
    BY <2>1, <2>2 DEF Applicable, MayPlan, At
  <2>5. Claims(t)' \subseteq Claims(t) /\ Recovering(t)' \subseteq Recovering(t)
    BY <2>1, <2>2, <2>4 DEF Claims, Recovering, At, Planned
  <2>6. Confined(t)
    BY <2>1, <2>4, <2>5 DEF Confined
  <2>7. Sound(t) => Sound(t)'
    BY <2>1, <2>2, <2>4 DEF Sound, Reviewed, Target, Planned
  <2> QED
    BY <2>3, <2>6, <2>7 DEF Proper
<1>4. CASE RememberPreviews(t)
  <2>1. /\ flow[t].kind = "command" /\ At(t, "plan")
        /\ UNCHANGED <<review, plans, evidence, busy, history>>
    BY <1>4 DEF RememberPreviews
  <2>2. CASE flow'[t] = IdleFlow
    <3>1. BusyStep(t)
      BY <2>1, <2>2, OverClaims DEF BusyStep, InboxCalls
    <3>2. Confined(t)
      BY <2>1, <2>2, OverClaims DEF Confined
    <3> QED
      BY <2>2, <3>1, <3>2, OverClaims DEF Proper
  <2>3. CASE flow'[t] = [Command("observe", Planned(flow[t].held)) EXCEPT !.shown = flow[t].held]
    <3>1. /\ flow'[t].kind = "command" /\ flow'[t].pc = "observe" /\ flow'[t].held = NoPlans
          /\ flow'[t].todo = Planned(flow[t].held)
      BY <2>3, Blanks DEF Command, Locals, IdleFlow
    <3>2. Planned(NoPlans) = {}
      BY DEF Planned, NoPlans
    <3>3. Stage(t)' /\ BusyStep(t)
      BY <2>1, <3>1 DEF Stage, BusyStep, InboxCalls, Active, At
    <3>4. MayPlan(t)' \subseteq MayPlan(t)
      BY <2>1, <3>1 DEF MayPlan, At
    <3>5. Claims(t)' \subseteq Claims(t) /\ Recovering(t)' = {}
      BY <3>1, <3>2, <3>4 DEF Claims, Recovering, Planned
    <3>6. Confined(t)
      BY <2>1, <3>4, <3>5 DEF Confined
    <3>7. Sound(t)'
      BY <3>1, <3>2 DEF Sound, Reviewed, Target, Planned
    <3> QED
      BY <3>3, <3>6, <3>7 DEF Proper
  <2> QED
    BY <1>0, <1>4, <2>2, <2>3 DEF RememberPreviews
<1> QED
  BY <1>1, <1>2, <1>3, <1>4

\* Every step of a call under way is proper.
LEMMA FlowStepsProper ==
    ASSUME TypeOK, NEW t \in Flows, Stage(t), FlowStep(t)
    PROVE  Proper(t)
  BY InternalSteps, InternalProper, EndingSteps, EndingProper, PlanningSteps, PassingSteps
     DEF FlowStep

-----------------------------------------------------------------------------
(***************************************************************************)
(* The start of a call.                                                    *)
(***************************************************************************)
\* What call u relies on is in hand.
LEMMA ClaimsInHand ==
    ASSUME NEW u \in Flows, Stage(u)
    PROVE  Claims(u) \subseteq InHand /\ review \cap Files \subseteq InHand
<1>1. MayPlan(u) # {} \/ Applicable(u) => flow[u].kind # "scan"
  BY DEF MayPlan, Applicable, At, Stage
<1>2. Claims(u) \subseteq Files
  BY DEF Claims, MayPlan, Planned
<1>3. \A f \in Claims(u) : \/ f \in flow[u].todo \cup Planned(flow[u].held)
                           \/ f = flow[u].file
  BY DEF Claims, MayPlan
<1>4. \A f \in Claims(u) : flow[u].kind # "scan"
  BY <1>1 DEF Claims
<1> QED
  BY <1>2, <1>3, <1>4 DEF InHand

\* A call that starts claims files that are not in hand, or the reviewed ones.
Starting(t) ==
    /\ evidence' = evidence
    /\ ~Overlap => MayPlan(t)' \cap InHand = {}
    /\ Claims(t)' \subseteq MayPlan(t)' \cup review
    /\ \/ plans' = plans /\ review' = review /\ Recovering(t)' \subseteq review
       \/ plans' = NoPlans /\ review' = {} /\ Recovering(t)' = {}

\* What each start of a call is shown to do.
Proceeds(t) == Stage(t)' /\ BusyStep(t) /\ Starting(t) /\ (ShownInv => Sound(t)')

\* The start of a call that makes plans of the files in S.
LEMMA PlannersProceed ==
    ASSUME NEW t \in Flows, NEW S \in SUBSET Files, Free(S),
           flow'[t].kind \in {"review", "preview", "command"},
           flow'[t].pc = "plan" \/ (flow'[t].pc = "observe" /\ flow'[t].kind = "command"),
           flow'[t].held = NoPlans, MayPlan(t)' \subseteq S,
           flow'[t].kind = "review" => flow'[t].shown = NoPlans,
           UNCHANGED <<evidence, plans, review>>
    PROVE  Stage(t)' /\ Starting(t) /\ Sound(t)'
<1>1. Planned(NoPlans) = {}
  BY DEF Planned, NoPlans
<1>2. Stage(t)' /\ Target(t)'
  BY DEF Stage, Target
<1>3. Claims(t)' = MayPlan(t)' /\ Recovering(t)' = {}
  BY <1>1 DEF Claims, Recovering, Planned
<1>4. Starting(t)
  BY <1>3 DEF Starting, Free
<1>5. Reviewed(t)'
  BY <1>1 DEF Reviewed, Planned
<1> QED
  BY <1>2, <1>4, <1>5 DEF Sound

\* Whatever the user starts proceeds in this way.
LEMMA StartsProceed ==
    ASSUME TypeOK, NEW t \in Flows, UserStep(t)
    PROVE  Proceeds(t)
<1> USE DEF workspace, state, fields, history, SetBusy
<1>0. IdleFlow \in Locals /\ \A q : Step(t, q) => flow'[t] = q
  BY Blanks DEF TypeOK, Step
<1>1. Planned(NoPlans) = {} /\ IdleFlow.held = NoPlans /\ IdleFlow.shown = NoPlans
      /\ IdleFlow.todo = {}
  BY DEF Planned, NoPlans, IdleFlow
<1>2. ~Active(t) => t \notin InboxCalls
  BY DEF InboxCalls
<1>3. CASE RunScan(t)
  <2>1. flow'[t].kind = "scan" /\ flow'[t].pc = "probe"
    BY <1>0, <1>3 DEF RunScan, Disowned, TypeOK, Locals
  <2>2. /\ ~Active(t) /\ ~busy /\ busy' /\ review' = {} /\ plans' = NoPlans
        /\ UNCHANGED <<evidence, history>>
    BY <1>3 DEF RunScan, NewState
  <2>3. Stage(t)' /\ BusyStep(t)
    BY <1>2, <2>1, <2>2 DEF Stage, BusyStep, InboxCalls, Active
  <2>4. MayPlan(t)' = {} /\ ~Applicable(t)' /\ Recovering(t)' = {} /\ Target(t)'
    BY <2>1 DEF MayPlan, Applicable, Recovering, Target, At
  <2>5. Claims(t)' = {}
    BY <2>4 DEF Claims
  <2>6. Starting(t) /\ Sound(t)'
    BY <2>2, <2>4, <2>5 DEF Starting, Sound
  <2> QED
    BY <2>3, <2>6 DEF Proceeds
<1>4. ASSUME NEW S \in SUBSET Files, Free(S), NEW b \in BOOLEAN, StartReview(t, S, b)
      PROVE  Proceeds(t)
  <2>1. flow'[t] = [IdleFlow EXCEPT !.kind = "review", !.pc = "plan", !.todo = S,
                       !.straight = b, !.own = TRUE]
    BY <1>0, <1>4, Zenon DEF StartReview
  <2>2. /\ flow'[t].kind = "review" /\ flow'[t].pc = "plan" /\ flow'[t].todo = S
        /\ flow'[t].held = NoPlans /\ flow'[t].shown = NoPlans
    BY <1>0, <1>1, <2>1 DEF Locals
  <2>3. ~Active(t) /\ ~busy /\ busy' /\ UNCHANGED <<review, plans, evidence, history>>
    BY <1>4 DEF StartReview
  <2>4. BusyStep(t)
    BY <1>2, <2>2, <2>3 DEF BusyStep, InboxCalls, Active
  <2>5. MayPlan(t)' \subseteq S
    BY <1>1, <2>2 DEF MayPlan, At, Planned
  <2> QED
    BY <1>4, <2>2, <2>3, <2>4, <2>5, PlannersProceed DEF Proceeds
<1>5. ASSUME NEW f \in Files, Free({f}), PreviewResource(t, f) PROVE Proceeds(t)
  <2>1. flow'[t] = [IdleFlow EXCEPT !.kind = "preview", !.pc = "plan", !.file = f]
    BY <1>0, <1>5, Zenon DEF PreviewResource
  <2>2. /\ flow'[t].kind = "preview" /\ flow'[t].pc = "plan" /\ flow'[t].file = f
        /\ flow'[t].held = NoPlans
    BY <1>0, <1>1, <2>1 DEF Locals
  <2>3. /\ ~Active(t) /\ busy' /\ crossed' = (crossed \/ InboxCalls # {})
        /\ UNCHANGED <<review, plans, evidence, abandoned>>
    BY <1>5 DEF PreviewResource
  <2>4. BusyStep(t)
    BY <1>2, <2>2, <2>3 DEF BusyStep, InboxCalls, Active
  <2>5. MayPlan(t)' \subseteq {f}
    BY <2>2 DEF MayPlan, At
  <2> QED
    BY <1>5, <2>2, <2>3, <2>4, <2>5, PlannersProceed DEF Proceeds
<1>6. ASSUME NEW S \in SUBSET Files, Free(S), PreviewCommand(t, S) \/ ApplyCommand(t, S)
      PROVE  Proceeds(t)
  <2>1. \/ flow'[t] = Command("plan", S)
        \/ flow'[t] = [Command("observe", S) EXCEPT !.shown = previewed]
        \/ flow'[t] = [Command("plan", S) EXCEPT !.straight = TRUE]
    BY <1>0, <1>6 DEF PreviewCommand, ApplyCommand
  <2>2. \A pc : /\ Command(pc, S).kind = "command" /\ Command(pc, S).pc = pc
                /\ Command(pc, S).todo = S /\ Command(pc, S).held = NoPlans
    BY DEF Command, IdleFlow
  <2>3. /\ flow'[t].kind = "command" /\ flow'[t].pc \in {"plan", "observe"}
        /\ flow'[t].todo = S /\ flow'[t].held = NoPlans
    <3>1. Command("plan", S) \in Locals /\ Command("observe", S) \in Locals
      BY <1>0, Zenon DEF Command, Locals, CallKinds
    <3> QED
      BY <2>1, <2>2, <3>1 DEF Locals
  <2>4. ~Active(t) /\ UNCHANGED <<review, plans, evidence, busy, history>>
    BY <1>6 DEF PreviewCommand, ApplyCommand
  <2>5. BusyStep(t)
    BY <1>2, <2>3, <2>4 DEF BusyStep, InboxCalls
  <2>6. MayPlan(t)' \subseteq S
    BY <1>1, <2>3 DEF MayPlan, At, Planned
  <2> QED
    BY <1>6, <2>3, <2>4, <2>5, <2>6, PlannersProceed DEF Proceeds
<1>7. CASE ConfirmReview(t)
  <2> DEFINE h == [f \in Files |-> IF f \in review THEN plans[f] ELSE NoPlan]
  <2>1. /\ flow'[t].kind = "review" /\ flow'[t].pc = "revalidate"
        /\ flow'[t].held = h /\ flow'[t].shown = h
    BY <1>0, <1>7 DEF ConfirmReview, Locals
  <2>2. \A f \in Planned(h) : f \in review /\ h[f] = plans[f] /\ plans[f] # NoPlan
    BY DEF Planned
  <2>3. ~Active(t) /\ ~busy /\ busy' /\ UNCHANGED <<review, plans, evidence, history>>
    BY <1>7 DEF ConfirmReview
  <2> HIDE DEF h
  <2>4. Stage(t)' /\ BusyStep(t)
    BY <1>2, <2>1, <2>3 DEF Stage, BusyStep, InboxCalls, Active
  <2>5. MayPlan(t)' = {} /\ Claims(t)' \subseteq review /\ Recovering(t)' \subseteq review
    BY <2>1, <2>2 DEF MayPlan, Claims, Recovering, At, Planned
  <2>6. Starting(t)
    BY <2>3, <2>5 DEF Starting
  <2>7. ShownInv => Reviewed(t)'
    BY <2>1, <2>2, <2>3 DEF Reviewed, ShownInv, Agrees, Planned
  <2>8. Target(t)'
    BY <2>1 DEF Target
  <2> QED
    BY <2>4, <2>6, <2>7, <2>8 DEF Proceeds, Sound
<1> QED
  BY <1>3, <1>4, <1>5, <1>6, <1>7 DEF UserStep

-----------------------------------------------------------------------------
(***************************************************************************)
(* The invariant.                                                          *)
(***************************************************************************)
\* Before anything was started.
LEMMA InvariantInitial == Init => InboxInv
<1> SUFFICES ASSUME Init PROVE InboxInv
  OBVIOUS
<1>1. /\ \A t \in Flows : flow[t].pc = "idle" /\ flow[t].kind = None
      /\ review = {} /\ busy = FALSE
  BY DEF Init, IdleFlow
<1>2. InboxCalls = {}
  BY <1>1 DEF InboxCalls, Active
<1>3. StageInv /\ BusyAccounted
  BY <1>1, <1>2 DEF StageInv, Stage, None, BusyAccounted
<1>4. \A t \in Flows : MayPlan(t) = {} /\ Recovering(t) = {} /\ ~Applicable(t) /\ Target(t)
  BY <1>1 DEF MayPlan, Recovering, Applicable, Target, At
<1>5. Restrained
  BY <1>1, <1>4 DEF Restrained, ApartInv, ShownInv, ReviewedInv
<1> QED
  BY <1>3, <1>5, TypeInitial DEF InboxInv

\* Another call's plans are safe from evidence that is not theirs.
LEMMA OthersSound ==
    ASSUME NEW u \in Flows, Kept(u), Sound(u), \A f \in Claims(u) : evidence'[f] = evidence[f]
    PROVE  Sound(u)'
<1>1. Applicable(u) => Reviewed(u)'
  <2>1. Applicable(u) => \A f \in Planned(flow[u].held) : f \in Claims(u)
    BY DEF Claims
  <2> QED
    BY <2>1 DEF Sound, Reviewed, Kept, Planned
<1> QED
  BY <1>1, KeptSame DEF Sound

\* A step of a call under way keeps the invariant.
LEMMA FlowStepsRestrained ==
    ASSUME TypeOK, Restrained, NEW t \in Flows, Proper(t), \A u \in Flows \ {t} : Kept(u)
    PROVE  Restrained'
<1>1. Sound(t) /\ \A u \in Flows : Sound(u)
  BY DEF Restrained, ReviewedInv, Sound
<1>2. Confined(t) /\ Sound(t)'
  BY <1>1 DEF Proper
<1>3. \A u \in Flows : MayPlan(u)' \subseteq MayPlan(u) /\ Claims(u)' \subseteq Claims(u)
  BY <1>2, KeptSame DEF Confined
<1>4. \A u \in Flows \ {t} : \A f \in Claims(u) : f \notin MayPlan(t) /\ f \in Files
  BY DEF Restrained, ApartInv, Claims, MayPlan, Planned
<1>5. ReviewedInv'
  BY <1>1, <1>2, <1>4, OthersSound DEF Confined, ReviewedInv, Sound
<1>6. Recovering(t) # {} => MayPlan(t) = {}
  BY DEF Recovering, MayPlan, At
<1>7. \A u \in Flows : Recovering(u) \subseteq Claims(u)
  BY DEF Recovering, Claims, Applicable
<1>8. \A f \in review' : f \in review \/ (f \in Claims(t) /\ MayPlan(t) = {})
  BY <1>2, <1>6, <1>7 DEF Confined, Claims
<1>9. ApartInv'
  <2>1. ASSUME NEW u \in Flows PROVE MayPlan(u)' \cap review' = {}
    BY <1>3, <1>8 DEF Restrained, ApartInv
  <2>2. ASSUME NEW u \in Flows, NEW v \in Flows \ {u} PROVE MayPlan(u)' \cap Claims(v)' = {}
    BY <1>3 DEF Restrained, ApartInv
  <2> QED
    BY <2>1, <2>2 DEF ApartInv
<1>10. CASE /\ plans' = plans /\ Recovering(t)' \subseteq Recovering(t)
            /\ review' \subseteq review \cup Recovering(t)
  <2>1. \A f \in review : f \in Files /\ f \notin MayPlan(t)
    BY DEF Restrained, ApartInv, TypeOK
  <2>2. \A u \in Flows : \A f \in Recovering(u) : f \in Files /\ f \notin MayPlan(t)
    BY <1>4, <1>6, <1>7 DEF Recovering, Planned
  <2>3. \A f \in Files \ MayPlan(t) : Agrees(f) => Agrees(f)'
    BY <1>2, <1>10 DEF Confined, Agrees
  <2>4. \A f \in review' : Agrees(f)'
    BY <1>10, <2>1, <2>2, <2>3 DEF Restrained, ShownInv
  <2>5. \A u \in Flows : Recovering(u)' \subseteq Recovering(u)
    BY <1>10, KeptSame
  <2> QED
    BY <1>5, <1>9, <2>2, <2>3, <2>4, <2>5 DEF Restrained, ShownInv
<1>11. CASE /\ plans' = flow[t].held /\ MayPlan(t) = {} /\ Applicable(t)
            /\ review' \subseteq review \cup Planned(flow[t].held)
  <2>1. Reviewed(t)
    BY <1>1, <1>11 DEF Sound
  <2>2. \A f \in Files : Agrees(f)'
    BY <1>2, <1>11, <2>1 DEF Confined, Reviewed, Agrees, Planned
  <2>3. \A u \in Flows : Recovering(u)' \subseteq Files
    BY DEF Recovering, Planned
  <2>4. review' \subseteq Files
    BY <1>11 DEF TypeOK, Planned
  <2> QED
    BY <1>5, <1>9, <2>2, <2>3, <2>4 DEF Restrained, ShownInv
<1> QED
  BY <1>2, <1>10, <1>11 DEF Confined

\* The start of a call keeps it.
LEMMA StartsRestrained ==
    ASSUME TypeOK, StageInv, ~Overlap, Restrained, NEW t \in Flows, Proceeds(t),
           \A u \in Flows \ {t} : Kept(u)
    PROVE  Restrained'
<1>1. Starting(t) /\ Sound(t)'
  BY DEF Proceeds, Restrained
<1>2. \A u \in Flows : Claims(u) \subseteq InHand /\ MayPlan(u) \subseteq Claims(u)
  BY ClaimsInHand DEF StageInv, Claims
<1>3. review \subseteq InHand
  BY DEF InHand, TypeOK
<1>4. ReviewedInv'
  <2>1. \A u \in Flows : Sound(u)
    BY DEF Restrained, ReviewedInv, Sound
  <2> QED
    BY <1>1, <2>1, OthersSound DEF Starting, ReviewedInv, Sound
<1>5. ApartInv'
  <2>1. \A u \in Flows \ {t} : MayPlan(u)' = MayPlan(u) /\ Claims(u)' = Claims(u)
    BY KeptSame
  <2>2. MayPlan(t)' \cap InHand = {} /\ Claims(t)' \subseteq MayPlan(t)' \cup review
        /\ review' \subseteq review
    BY <1>1 DEF Starting
  <2>3. \A u \in Flows : MayPlan(u)' \cap review' = {}
    BY <1>3, <2>1, <2>2 DEF Restrained, ApartInv
  <2>4. \A u \in Flows \ {t} : /\ MayPlan(t)' \cap Claims(u)' = {}
                               /\ MayPlan(u)' \cap Claims(t)' = {}
    BY <1>2, <2>1, <2>2 DEF Restrained, ApartInv
  <2>5. \A u \in Flows \ {t} : \A v \in Flows \ {u, t} : MayPlan(u)' \cap Claims(v)' = {}
    BY <2>1 DEF Restrained, ApartInv
  <2> QED
    BY <2>3, <2>4, <2>5 DEF ApartInv
<1>6. ShownInv'
  <2>1. \A u \in Flows \ {t} : Recovering(u)' = Recovering(u)
    BY KeptSame
  <2>2. CASE plans' = plans /\ review' = review /\ Recovering(t)' \subseteq review
    <3>1. \A f : Agrees(f)' <=> Agrees(f)
      BY <1>1, <2>2 DEF Starting, Agrees
    <3> QED
      BY <2>1, <2>2, <3>1 DEF Restrained, ShownInv
  <2>3. CASE plans' = NoPlans /\ review' = {} /\ Recovering(t)' = {}
    <3>1. \A f \in Files : Agrees(f)'
      BY <2>3 DEF Agrees, NoPlans
    <3>2. \A u \in Flows : Recovering(u)' \subseteq Files
      BY DEF Recovering, Planned
    <3> QED
      BY <2>3, <3>1, <3>2 DEF ShownInv
  <2> QED
    BY <1>1, <2>2, <2>3 DEF Starting
<1> QED
  BY <1>4, <1>5, <1>6 DEF Restrained

\* Edits, recaptures, the watcher, the user's Back and Cancel, and a second
\* opening of the inbox touch neither plans under way nor their evidence.
LEMMA OutsideSteps ==
    ASSUME TypeOK, Outside \/ UNCHANGED vars
    PROVE  /\ \A t \in Flows : Kept(t)
           /\ UNCHANGED <<evidence, busy, history>>
           /\ review' \subseteq review /\ plans' \in {plans, NoPlans}
<1> USE DEF workspace, state, fields, history
<1>0. \A t \in Flows : flow[t] \in Locals
  BY DEF TypeOK
<1>1. CASE OpenWhileBusy
  <2>1. \A t \in Flows : flow'[t] = [flow[t] EXCEPT !.own = FALSE]
    BY <1>1 DEF OpenWhileBusy, Disowned
  <2>2. ASSUME NEW t \in Flows PROVE Kept(t)
    <3>1. flow[t] \in Locals
      BY <1>0
    <3> QED
      BY <2>1, <3>1 DEF Kept, Locals
  <2> QED
    BY <1>1, <2>2 DEF OpenWhileBusy, NewState
<1>2. CASE CancelScan
  <2>1. \A t \in Flows : flow'[t] = flow[t] \/ flow'[t] = [flow[t] EXCEPT !.aborted = TRUE]
    BY <1>2, Zenon DEF CancelScan, TypeOK
  <2>2. ASSUME NEW t \in Flows PROVE Kept(t)
    <3>1. flow[t] \in Locals
      BY <1>0
    <3> QED
      BY <2>1, <3>1 DEF Kept, Locals
  <2> QED
    BY <1>2, <2>2 DEF CancelScan
<1>3. CASE \/ \E f \in Files : CaptureBaseline(f) \/ \E c \in Contents : Change(f, c)
           \/ NoteWorkspaceEvent \/ Back \/ UNCHANGED vars
  BY <1>3 DEF CaptureBaseline, Change, NoteWorkspaceEvent, Back, vars, Kept
<1> QED
  BY <1>1, <1>2, <1>3 DEF Outside

\* Hence they keep the invariant.
LEMMA OutsideRestrained ==
    ASSUME TypeOK, Restrained, Outside \/ UNCHANGED vars
    PROVE  Restrained'
<1>1. /\ \A t \in Flows : Kept(t)
      /\ evidence' = evidence /\ review' \subseteq review /\ plans' \in {plans, NoPlans}
  BY OutsideSteps
<1>2. \A u \in Flows : /\ MayPlan(u)' = MayPlan(u) /\ Claims(u)' = Claims(u)
                       /\ Recovering(u)' = Recovering(u) /\ Recovering(u) \subseteq Files
  BY <1>1, KeptSame DEF Recovering, Planned
<1>3. ApartInv'
  BY <1>1, <1>2 DEF Restrained, ApartInv
<1>4. \A f \in Files : Agrees(f) => Agrees(f)'
  BY <1>1 DEF Agrees, NoPlans
<1>5. ShownInv'
  BY <1>1, <1>2, <1>4 DEF Restrained, ShownInv, TypeOK
<1>6. ReviewedInv'
  BY <1>1, OthersSound DEF Restrained, ReviewedInv, Sound
<1> QED
  BY <1>3, <1>5, <1>6 DEF Restrained

\* Every step keeps the invariant.
LEMMA InvariantInductive == InboxInv /\ [Next]_vars => InboxInv'
<1> SUFFICES ASSUME InboxInv, [Next]_vars PROVE InboxInv'
  OBVIOUS
<1>1. TypeOK /\ TypeOK' /\ StageInv /\ BusyAccounted
  BY TypeInductive DEF InboxInv
<1>2. ASSUME NEW t \in Flows, FlowStep(t) \/ UserStep(t)
      PROVE  StageInv' /\ BusyAccounted' /\ (~Overlap => Restrained')
  <2>1. \A u \in Flows \ {t} : Kept(u)
    BY <1>1, <1>2, OthersKept
  <2>2. FlowStep(t) => Proper(t)
    BY <1>1, FlowStepsProper DEF StageInv
  <2>3. UserStep(t) => Proceeds(t)
    BY <1>1, StartsProceed
  <2>4. Stage(t)' /\ BusyStep(t)
    BY <1>2, <2>2, <2>3 DEF Proper, Proceeds
  <2>5. StageInv' /\ BusyAccounted'
    BY <1>1, <2>1, <2>4, KeptSame, BusyKept DEF StageInv
  <2>6. ASSUME ~Overlap PROVE Restrained'
    <3>1. Restrained
      BY <2>6 DEF InboxInv
    <3> QED
      BY <1>1, <1>2, <2>1, <2>2, <2>3, <2>6, <3>1, FlowStepsRestrained, StartsRestrained
  <2> QED
    BY <2>5, <2>6
<1>3. ASSUME Outside \/ UNCHANGED vars
      PROVE  StageInv' /\ BusyAccounted' /\ (~Overlap => Restrained')
  <2>1. (\A t \in Flows : Kept(t)) /\ UNCHANGED <<busy, history>>
    BY <1>1, <1>3, OutsideSteps
  <2>2. InboxCalls' = InboxCalls
    BY <2>1 DEF InboxCalls, Active, Kept
  <2>3. StageInv' /\ BusyAccounted'
    BY <1>1, <2>1, <2>2, KeptSame DEF StageInv, BusyAccounted, history
  <2> QED
    BY <1>1, <1>3, <2>3, OutsideRestrained DEF InboxInv
<1> QED
  BY <1>1, <1>2, <1>3 DEF InboxInv, Next

\* Whatever the user, the engine and other programs do, the invariant holds.
LEMMA InboxInvariant == Spec => []InboxInv
  BY InvariantInitial, InvariantInductive, PTL DEF Spec

-----------------------------------------------------------------------------
(***************************************************************************)
(* The theorems.                                                           *)
(***************************************************************************)
\* The InboxState, the controller's fields and the local variables of every
\* call stay in their types, whatever overlaps.
THEOREM InboxTypesCorrect == Spec => []TypeOK
<1>1. InboxInv => TypeOK
  BY DEF InboxInv
<1> QED
  BY <1>1, InboxInvariant, PTL

\* However scans, reviews, runs, previews and commands overlap, busy is left
\* behind only by a call whose approval dialog failed, and is missing, or kept
\* by two calls, only after a preview has crossed other work.
THEOREM BusyIsAccounted == Spec => []BusyAccounted
<1>1. InboxInv => BusyAccounted
  BY DEF InboxInv
<1> QED
  BY <1>1, InboxInvariant, PTL

\* A write to a file is the engine's, for a plan of the flow that asks for it
\* whose evidence it compared with the file.
LEMMA WritesReviewed ==
    ASSUME InboxInv, ~Overlap, [Next]_vars, NEW t \in Flows, NEW f \in Files, Writes(t, f)
    PROVE  /\ disk'[f] = flow[t].shown[f].base
           /\ flow[t].kind = "review" => disk[f] = flow[t].shown[f].cur
<1>0. TypeOK /\ StageInv /\ Restrained
  BY DEF InboxInv
<1>1. PICK ok \in BOOLEAN : Execute(t, ok)
  <2>1. flow[t].pc = "execute" /\ flow'[t].pc = "apply" /\ disk' # disk
    BY DEF Writes, At
  <2>2. PICK u \in Flows : FlowStep(u) \/ UserStep(u)
    BY <1>0, <2>1, OutsideSteps DEF Next, Kept
  <2>3. u = t
    BY <1>0, <2>1, <2>2, OthersKept DEF Kept
  <2>4. FlowStep(t)
    BY <2>1, <2>2, <2>3 DEF UserStep, RunScan, ConfirmReview, StartReview, PreviewCommand,
       ApplyCommand, PreviewResource, Active
  <2>5. ASSUME UNCHANGED workspace PROVE FALSE
    BY <2>1, <2>5 DEF workspace
  <2>6. CASE \E g \in Files, v \in PlanVerdicts :
                PlanFile(t, g, v) \/ PreviewFile(t, g, v) \/ Observe(t, g, v)
    BY <2>1, <2>6 DEF PlanFile, PreviewFile, Observe
  <2>7. CASE \E b \in BOOLEAN : FinishPreview(t, b)
    BY <2>1, <2>7 DEF FinishPreview
  <2>8. CASE \E b \in BOOLEAN : Execute(t, b)
    BY <2>8
  <2> QED
    BY <2>4, <2>5, <2>6, <2>7, <2>8 DEF FlowStep, ProbeFile, Revalidate, CheckFile,
       FinishProbe, ScanError, StartAssessment, AssessFile, FinishAssessment, AssessmentFails,
       PlanningFails, FinishPlanning, ReviewIsStale, AskApproval, Decline, DialogFails,
       ExecutePlans, SkipRest, RecheckBaseline, AnswerCommand, ExecuteFails, FinishRun,
       RememberPreviews, StartRevalidation, RefuseCommand, FinishCommand, EndScan
<1>2. f = flow[t].file /\ At(t, "execute")
  BY DEF Writes
<1>3. evidence[f].cur = disk[f] /\ disk'[f] = evidence[f].base
  BY <1>0, <1>1, <1>2 DEF Execute, Admits, TypeOK
<1>4. Reviewed(t) /\ f \in Planned(flow[t].held)
  BY <1>0, <1>2 DEF Restrained, ReviewedInv, Applicable, Target, At
<1> QED
  BY <1>3, <1>4, SMTT(30) DEF Reviewed

\* A run of the inbox overwrites only the content that its review showed,
\* however people edit files and recapture baselines meanwhile, and however
\* many calls are under way beside it for other files.
THEOREM InboxWritesReviewed == ~Overlap => (Spec => InboxOverwritesReviewed)
<1> SUFFICES ASSUME ~Overlap PROVE Spec => InboxOverwritesReviewed
  OBVIOUS
<1>1. InboxInv /\ [Next]_vars =>
      [\A t \in Flows, f \in Files :
          Writes(t, f) /\ flow[t].kind = "review" => disk[f] = flow[t].shown[f].cur]_vars
  BY WritesReviewed
<1> QED
  BY <1>1, InboxInvariant, PTL DEF Spec, InboxOverwritesReviewed

\* Both ways of recovery put back the baseline that was reviewed, never one
\* captured since or recorded by a later plan.
THEOREM BaselineIsReviewed == ~Overlap => (Spec => RestoresReviewedBaseline)
<1> SUFFICES ASSUME ~Overlap PROVE Spec => RestoresReviewedBaseline
  OBVIOUS
<1>1. InboxInv /\ [Next]_vars =>
      [\A t \in Flows, f \in Files :
          Writes(t, f) => disk'[f] = flow[t].shown[f].base]_vars
  BY WritesReviewed
<1> QED
  BY <1>1, InboxInvariant, PTL DEF Spec, RestoresReviewedBaseline
==============================================================================
