----------------------- MODULE FilesystemRecoveryProofs -----------------------
(***************************************************************************)
(* What the staging protocol of the filesystem adapter guarantees, for any *)
(* number of attempts and of edits by other people, as long as the plan's  *)
(* lease keeps the attempts apart.                                         *)
(***************************************************************************)
EXTENDS FilesystemRecovery, TLAPS

\* The lease keeps attempts apart.
OneAtATime == \A a, b \in Working : a = b

\* Each operation goes through its own phases only, and none before capture.
PhaseInv ==
    /\ kind = "symlink" => Undo = "restore_deleted_file"
    /\ after = "none" => \A a \in Attempts : pc[a] = "idle"
    /\ \A a \in Attempts :
          /\ pc[a] \in {"clear", "open", "write", "swap", "post_check"} =>
                Undo \in {"restore_content", "restore_deleted_file"}
          /\ pc[a] \in {"link", "staged_check", "recheck"} => Undo = "restore_deleted_file"
          /\ pc[a] \in {"clear", "open", "write", "staged_check", "recheck", "swap"} => ~Truncated
          /\ pc[a] = "unlink" => Undo = "delete_file"
          /\ pc[a] = "rename" => Undo = "rename_back"

\* From its opening to the swap the staging path leads to the attempt's file,
\* to something a person saved there, or nowhere, what is swapped in has been
\* written, and no other name leads to a file that is still being written.
Whole(c) == c \notin {"partial", "prefix"}

WholeInv ==
    /\ \A f \in Edits \cup {AgentFile} : Whole(bytes[f])
    /\ \A n \in {"target", "moved"} : Present(n) => Whole(bytes[dir[n]])
    /\ \A a \in Attempts :
          /\ pc[a] \in {"idle", "conflict_gate", "check", "clear", "link", "open", "write"} =>
                dir["target"] # a /\ dir["moved"] # a
          /\ pc[a] \in {"open", "write", "staged_check", "recheck", "swap"} =>
                dir["staging"] \in {NoFile, a} \cup Edits
          /\ pc[a] \in {"staged_check", "recheck", "swap"} => Whole(bytes[a])

\* The staging path of an attempt nobody interfered with.
OwnStaging(a) ==
    /\ pc[a] = "open" => ~Present("staging")
    /\ pc[a] = "write" => dir["staging"] = a
    /\ pc[a] \in {"staged_check", "recheck", "swap"} => Content("staging") = "before"

\* Since the verification nobody interfered with any attempt.
RestoredInv == restored => IsUndone /\ \A a \in Attempts : OwnStaging(a)

\* Undisturbed, the target is as the agent left it or as it was before.
Observed == IF op \in {"modify", "create"} THEN "after" ELSE "missing"

CalmTarget ==
    CASE op = "modify" -> Content("target") \in {"after", "before"}
      [] op = "create" -> Content("target") \in {"after", "missing"}
      [] op = "delete" -> Content("target") \in {"missing", "before"}
      [] op = "rename" -> \/ Content("target") = "missing" /\ Content("moved") = "before"
                          \/ Content("target") = "before" /\ ~Present("moved")

CalmInv ==
    ~disturbed /\ ~Truncated =>
        /\ after \in {"none", Observed, "unreadable"}
        /\ after = "none" => Content("target") = Observed
        /\ CalmTarget
        /\ \A a \in Attempts : /\ OwnStaging(a)
                               /\ pc[a] = "post_check" => Content("target") = "before"

\* What nobody has written yet is nowhere.
FreshInv == \A e \in unused : bytes[e] = e /\ \A n \in Names : dir[n] # e

\* An edit that an attempt may still destroy was made after its comparison.
Late(a, c) == c \in Edits => c \in late[a]

Comparable(a) ==
    \/ pc[a] \in {"swap", "unlink", "rename"}
    \/ pc[a] \in {"clear", "open", "write"} /\ Undo = "restore_content"

Spares(a) ==
    /\ pc[a] \in {"idle", "conflict_gate"} => late[a] = Edits
    /\ pc[a] \in {"idle", "conflict_gate", "check", "clear", "open", "link"} =>
          bytes[a] = "partial" /\ \A n \in Names : dir[n] # a
    /\ pc[a] = "write" => Late(a, bytes[a])
    /\ pc[a] \in Staging => Late(a, Content("staging"))
    /\ pc[a] = "check" /\ Unrecorded => Late(a, Content("target"))
    /\ Comparable(a) /\ Content("target") # after => Late(a, Content("target"))

LateInv == \A a \in Attempts : Spares(a)

FilesystemInv ==
    /\ TypeOK
    /\ Exclusive => /\ OneAtATime /\ PhaseInv /\ WholeInv
                    /\ RestoredInv /\ CalmInv /\ RetryNeverBlocked
                    /\ FreshInv /\ LateInv

-------------------------------------------------------------------------------
(***************************************************************************)
(* Types.                                                                  *)
(***************************************************************************)
\* What _determine_compensation_operation makes of each kind of action.
LEMMA Operations ==
    ASSUME op \in DOMAIN Operation
    PROVE  \/ op = "modify" /\ Undo = "restore_content"
           \/ op = "create" /\ Undo = "delete_file"
           \/ op = "delete" /\ Undo = "restore_deleted_file"
           \/ op = "rename" /\ Undo = "rename_back"
  BY DEF Operation, Undo

\* A name leads to a content or to nothing.
LEMMA ContentTyped ==
    ASSUME TypeOK, NEW n \in Names
    PROVE  Content(n) \in Contents \cup {"missing"}
  BY DEF TypeOK, Content, Present

\* No content is the mark of a missing file.
LEMMA PresentMeans ==
    ASSUME TypeOK, NEW n \in Names
    PROVE  Present(n) <=> Content(n) # "missing"
  BY EditsAssumption DEF TypeOK, Content, Present, Contents

\* The initial states have the types.
LEMMA TypeInitial == Init => TypeOK
<1> SUFFICES ASSUME Init PROVE TypeOK
  OBVIOUS
<1>1. dir \in [Names -> Files \cup {NoFile}] /\ bytes \in [Files -> Contents]
  BY DEF Init, Files, Contents
<1>2. verified \in [Attempts -> BOOLEAN] /\ disturbed \in BOOLEAN /\ restored \in BOOLEAN
  BY Zenon DEF Init
<1>3. large \subseteq Edits \cup {"before", "after"}
  BY SizableAssumption DEF Init
<1> QED
  BY <1>1, <1>2, <1>3 DEF Init, TypeOK

\* Every action keeps the types.
LEMMA TypeInductive == TypeOK /\ [Next]_vars => TypeOK'
<1> SUFFICES ASSUME TypeOK, [Next]_vars PROVE TypeOK'
  OBVIOUS
<1> USE DEF TypeOK, situation, disk, control, history, Goto, Report, Gated, Discard, Unhistoric,
            Compared, Names
<1>1. ASSUME NEW n \in Names, NEW e \in Edits, EditInPlace(n, e) PROVE TypeOK'
  BY <1>1 DEF EditInPlace, Made, Touch, Present, Contents
<1>2. ASSUME NEW n \in Names, NEW e \in Edits, SaveAs(n, e) PROVE TypeOK'
  BY <1>2 DEF SaveAs, Made, Touch, Files
<1>3. ASSUME NEW n \in Names, Delete(n) PROVE TypeOK'
  BY <1>3 DEF Delete, Touch
<1>4. CASE CaptureEvidence
  BY <1>4, ContentTyped DEF CaptureEvidence, Snapshots
<1>5. ASSUME NEW a \in Attempts, StartGated(a) \/ ConflictGate(a) \/ StartDirect(a) PROVE TypeOK'
  BY <1>5 DEF StartGated, ConflictGate, StartDirect, Noted
<1>6. ASSUME NEW a \in Attempts,
             \/ CheckRestoreContent(a) \/ CheckDeleteFile(a)
             \/ CheckRestoreDeleted(a) \/ CheckRenameBack(a)
      PROVE  TypeOK'
  BY <1>6 DEF CheckRestoreContent, CheckDeleteFile, CheckRestoreDeleted, CheckRenameBack
<1>7. ASSUME NEW a \in Attempts, ClearStaging(a) PROVE TypeOK'
  BY <1>7 DEF ClearStaging, Present
<1>8. ASSUME NEW a \in Attempts, RecreateLink(a) \/ OpenStaging(a) \/ WriteStaging(a)
      PROVE  TypeOK'
  BY <1>8 DEF RecreateLink, OpenStaging, WriteStaging, Files, Contents, Captured
<1>9. ASSUME NEW a \in Attempts, CheckStaged(a) \/ RecheckTarget(a) \/ Swap(a) \/ PostCheck(a)
      PROVE  TypeOK'
  BY <1>9 DEF CheckStaged, RecheckTarget, Swap, PostCheck
<1>10. ASSUME NEW a \in Attempts,
              Unlink(a) \/ RenameBack(a) \/ InspectionFails(a) \/ Crash(a)
       PROVE  TypeOK'
  BY <1>10 DEF Unlink, RenameBack, InspectionFails, Crash
<1>io. ASSUME NEW a \in Attempts, IOFails(a) PROVE TypeOK'
  BY <1>io DEF IOFails, Files, Contents, Captured
<1>11. ASSUME NEW a \in Attempts, Verify(a) PROVE TypeOK'
  <2>1. verified' \in [Attempts -> BOOLEAN] /\ restored' \in BOOLEAN
    BY <1>11, Zenon DEF Verify
  <2> QED
    BY <1>11, <2>1 DEF Verify
<1>12. CASE UNCHANGED vars
  BY <1>12 DEF vars
<1> QED
  BY <1>1, <1>2, <1>3, <1>4, <1>5, <1>6, <1>7, <1>8, <1>9, <1>10, <1>11, <1>12, <1>io
     DEF Next, People, Engine, Execute
-------------------------------------------------------------------------------
(***************************************************************************)
(* Attempts are kept apart and run through the phases of their operation.  *)
(***************************************************************************)
\* While one attempt takes a step no other is at work.
LEMMA Solo ==
    ASSUME TypeOK, Exclusive, OneAtATime, NEW a \in Attempts, Engine(a) \/ Crash(a)
    PROVE  /\ \A b \in Attempts \ {a} : /\ pc'[b] = pc[b] /\ result'[b] = result[b]
                                        /\ pc[b] \in {"idle", "done", "dead"}
           /\ \A b \in Attempts : pc[b] \in {"idle", "done", "dead"} \/ b = a
<1> USE DEF TypeOK, Goto, Report, Gated
<1>1. Working \subseteq {a}
  <2>1. CASE MayStart(a)
    BY <2>1 DEF MayStart
  <2>2. CASE a \in Working
    BY <2>2 DEF OneAtATime
  <2>3. MayStart(a) \/ a \in Working
    <3>1. CASE Execute(a)
      BY <3>1 DEF Execute, CheckRestoreContent, CheckDeleteFile, CheckRestoreDeleted,
                  CheckRenameBack, ClearStaging, RecreateLink, OpenStaging, WriteStaging,
                  CheckStaged, RecheckTarget, Swap, PostCheck, Unlink, RenameBack, IOFails,
                  Staging, Working
    <3> QED
      BY <3>1 DEF Engine, StartGated, StartDirect, ConflictGate, Verify, InspectionFails, Crash, Working
  <2> QED
    BY <2>1, <2>2, <2>3
<1>2. \A b \in Attempts \ {a} : pc'[b] = pc[b] /\ result'[b] = result[b]
  <2>1. CASE Execute(a)
    BY <2>1 DEF Execute, CheckRestoreContent, CheckDeleteFile, CheckRestoreDeleted,
                CheckRenameBack, ClearStaging, RecreateLink, OpenStaging, WriteStaging,
                CheckStaged, RecheckTarget, Swap, PostCheck, Unlink, RenameBack, IOFails
  <2> QED
    BY <2>1 DEF Engine, StartGated, StartDirect, ConflictGate, Verify, InspectionFails, Crash
<1> QED
  BY <1>1, <1>2 DEF Working

\* People and the capture leave the attempts where they are.
LEMMA Outside ==
    ASSUME CaptureEvidence \/ People \/ UNCHANGED vars
    PROVE  UNCHANGED <<op, kind, large, pc, result, verified>>
  BY DEF CaptureEvidence, People, EditInPlace, SaveAs, Delete, Touch, vars,
         situation, control

\* What an attempt was asked to undo never changes.
LEMMA SituationFixed ==
    ASSUME NEW a \in Attempts, Engine(a) \/ Crash(a)
    PROVE  UNCHANGED <<op, kind, large, after, unused, disturbed>>
  BY DEF Engine, Crash, StartGated, StartDirect, ConflictGate, Verify, InspectionFails, Execute,
         CheckRestoreContent, CheckDeleteFile, CheckRestoreDeleted,
         CheckRenameBack, ClearStaging, RecreateLink, OpenStaging, WriteStaging,
         CheckStaged, RecheckTarget, Swap, PostCheck, Unlink, RenameBack, IOFails,
         situation, Unhistoric

\* The lease keeps keeping attempts apart.
LEMMA ApartInductive ==
    ASSUME TypeOK, Exclusive, OneAtATime, [Next]_vars
    PROVE  OneAtATime'
<1>1. ASSUME NEW a \in Attempts, Engine(a) \/ Crash(a) PROVE OneAtATime'
  <2>1. \A b \in Attempts \ {a} : pc'[b] \in {"idle", "done", "dead"}
    BY <1>1, Solo
  <2> QED
    BY <2>1 DEF OneAtATime, Working
<1>2. CASE CaptureEvidence \/ People \/ UNCHANGED vars
  BY <1>2, Outside DEF OneAtATime, Working
<1> QED
  BY <1>1, <1>2 DEF Next

\* The phases stay those of the operation.
LEMMA PhaseInductive ==
    ASSUME TypeOK, TypeOK', Exclusive, OneAtATime, PhaseInv, [Next]_vars
    PROVE  PhaseInv'
<1> USE DEF PhaseInv
<1>1. ASSUME NEW a \in Attempts, Engine(a) \/ Crash(a) PROVE PhaseInv'
  <2>1. after' # "none"
    <3>1. after # "none"
      <4>1. CASE pc[a] = "idle"
        BY <1>1, <4>1 DEF Engine, Crash, Working, StartGated, StartDirect, MayStart, Verify,
              InspectionFails, ConflictGate, Execute, CheckRestoreContent, CheckDeleteFile, CheckRestoreDeleted,
              CheckRenameBack, ClearStaging, RecreateLink, OpenStaging, WriteStaging,
              CheckStaged, RecheckTarget, Swap, PostCheck, Unlink, RenameBack, IOFails, Staging
      <4> QED
        BY <4>1
    <3> QED
      BY <1>1, <3>1, SituationFixed
  <2>2. Undo' = Undo /\ kind' = kind /\ Truncated' = Truncated
    BY <1>1, SituationFixed DEF Undo, Truncated
  <2>3. \A b \in Attempts \ {a} : pc'[b] = pc[b]
    BY <1>1, Solo
  <2>4. /\ pc'[a] \in {"clear", "open", "write", "swap", "post_check"} =>
                Undo \in {"restore_content", "restore_deleted_file"}
        /\ pc'[a] \in {"link", "staged_check", "recheck"} => Undo = "restore_deleted_file"
        /\ pc'[a] \in {"clear", "open", "write", "staged_check", "recheck", "swap"} => ~Truncated
        /\ pc'[a] = "unlink" => Undo = "delete_file"
        /\ pc'[a] = "rename" => Undo = "rename_back"
    <3> USE DEF TypeOK, Goto, Report, Gated
    <3>1. CASE CheckRestoreContent(a) \/ CheckDeleteFile(a)
               \/ CheckRestoreDeleted(a) \/ CheckRenameBack(a)
      BY <3>1 DEF CheckRestoreContent, CheckDeleteFile, CheckRestoreDeleted, CheckRenameBack
    <3>2. CASE ClearStaging(a)
      BY <3>2 DEF ClearStaging
    <3>3. CASE Execute(a)
      BY <3>1, <3>2, <3>3 DEF Execute, RecreateLink, OpenStaging, WriteStaging,
              CheckStaged, RecheckTarget, Swap, PostCheck, Unlink, RenameBack, IOFails
    <3> QED
      BY <1>1, <3>3 DEF Engine, Crash, Verify, InspectionFails, StartGated, StartDirect, ConflictGate
  <2> QED
    BY <2>1, <2>2, <2>3, <2>4
<1>2. CASE CaptureEvidence \/ People \/ UNCHANGED vars
  <2>1. after' = "none" => after = "none"
    BY <1>2 DEF CaptureEvidence, People, EditInPlace, SaveAs, Delete, Touch, vars
  <2> QED
    BY <1>2, <2>1, Outside DEF Undo, Truncated
<1> QED
  BY <1>1, <1>2 DEF Next

-------------------------------------------------------------------------------
(***************************************************************************)
(* Whole files.                                                            *)
(***************************************************************************)
\* Nothing partial reaches the target: only the attempt at work writes, into
\* its own file, and only what it has written is swapped in.
LEMMA WholeInductive ==
    ASSUME TypeOK, TypeOK', Exclusive, OneAtATime, PhaseInv, WholeInv, [Next]_vars
    PROVE  WholeInv'
<1> USE EditsAssumption DEF TypeOK, WholeInv, Whole, Present, Names
<1>1. ASSUME NEW n \in Names, NEW e \in Edits, EditInPlace(n, e) PROVE WholeInv'
  BY <1>1 DEF EditInPlace, Touch, control
<1>2. ASSUME NEW n \in Names, NEW e \in Edits, SaveAs(n, e) PROVE WholeInv'
  BY <1>2 DEF SaveAs, Touch, control, Files
<1>3. ASSUME NEW n \in Names, Delete(n) PROVE WholeInv'
  BY <1>3 DEF Delete, Touch, control
<1>4. CASE CaptureEvidence \/ UNCHANGED vars
  BY <1>4 DEF CaptureEvidence, vars, disk, control
<1>5. ASSUME NEW a \in Attempts, Engine(a) \/ Crash(a) PROVE WholeInv'
  <2> USE DEF Goto, Report, Gated, Discard
  <2>0. \A b \in Attempts \ {a} : pc'[b] \in {"idle", "done", "dead"}
    BY <1>5, Solo
  <2>1. CASE ClearStaging(a)
    BY <2>0, <2>1 DEF ClearStaging
  <2>2. CASE RecreateLink(a)
    BY <2>0, <2>2 DEF RecreateLink, Files
  <2>3. CASE OpenStaging(a)
    BY <2>0, <2>3 DEF OpenStaging, Files
  <2>4. CASE WriteStaging(a)
    BY <2>0, <2>4 DEF WriteStaging, Files, Captured, Truncated, PhaseInv
  <2>5. CASE CheckStaged(a) \/ RecheckTarget(a)
    BY <2>0, <2>5 DEF CheckStaged, RecheckTarget
  <2>6. CASE Swap(a)
    BY <2>0, <2>6 DEF Swap
  <2>7. CASE PostCheck(a) \/ Unlink(a)
    BY <2>0, <2>7 DEF PostCheck, Unlink
  <2>8. CASE RenameBack(a)
    BY <2>0, <2>8 DEF RenameBack
  <2>9. CASE \/ CheckRestoreContent(a) \/ CheckDeleteFile(a)
             \/ CheckRestoreDeleted(a) \/ CheckRenameBack(a)
    BY <2>0, <2>9 DEF CheckRestoreContent, CheckDeleteFile, CheckRestoreDeleted,
                      CheckRenameBack, disk
  <2>10. CASE StartGated(a) \/ ConflictGate(a) \/ StartDirect(a) \/ Verify(a) \/ Crash(a)
    <3>1. UNCHANGED <<dir, bytes>>
      BY <2>10 DEF StartGated, ConflictGate, StartDirect, Verify, Crash, disk
    <3>2. /\ pc'[a] \in {"conflict_gate", "check", "done", "dead"}
          /\ pc'[a] \in {"conflict_gate", "check"} => pc[a] \in {"idle", "conflict_gate"}
      BY <2>10 DEF StartGated, ConflictGate, StartDirect, Verify, Crash, MayStart
    <3>3. \A b \in Attempts \ {a} : pc'[b] = pc[b]
      BY <1>5, Solo
    <3> QED
      BY <2>0, <3>1, <3>2, <3>3
  <2>11. CASE IOFails(a)
    BY <2>0, <2>11 DEF IOFails, Files
  <2>12. CASE InspectionFails(a)
    BY <2>0, <2>12 DEF InspectionFails, disk
  <2> QED
    BY <1>5, <2>1, <2>2, <2>3, <2>4, <2>5, <2>6, <2>7, <2>8, <2>9, <2>10, <2>11, <2>12
       DEF Engine, Execute
<1> QED
  BY <1>1, <1>2, <1>3, <1>4, <1>5 DEF Next, People

-------------------------------------------------------------------------------
(***************************************************************************)
(* A verified recovery stays.                                              *)
(***************************************************************************)
\* No attempt takes back what an earlier one restored and verified.
LEMMA RestoredInductive ==
    ASSUME TypeOK, TypeOK', Exclusive, OneAtATime, PhaseInv, WholeInv, RestoredInv,
           [Next]_vars
    PROVE  RestoredInv'
<1> USE EditsAssumption DEF TypeOK, RestoredInv, OwnStaging, IsUndone, Present, Content, Names
<1>1. CASE People
  BY <1>1 DEF People, EditInPlace, SaveAs, Delete, Touch
<1>2. CASE CaptureEvidence \/ UNCHANGED vars
  BY <1>2 DEF CaptureEvidence, vars, disk, control, situation, history, Undo, BeforeHash, Captured, Truncated
<1>3. ASSUME NEW a \in Attempts, Engine(a) \/ Crash(a) PROVE RestoredInv'
  <2> USE DEF Goto, Report, Gated, Discard
  <2>0. \A b \in Attempts \ {a} : pc'[b] \in {"idle", "done", "dead"}
    BY <1>3, Solo
  <2>fixed. Undo' = Undo /\ BeforeHash' = BeforeHash /\ Truncated' = Truncated
    BY <1>3, SituationFixed DEF Undo, BeforeHash, Captured, Truncated
  <2>outside. ASSUME UNCHANGED <<bytes, restored>>,
               \A n \in {"target", "moved"} : dir'[n] = dir[n],
               pc'[a] \notin {"open", "write", "staged_check", "recheck", "swap"}
        PROVE  RestoredInv'
    BY <2>0, <2>fixed, <2>outside
  <2>1. CASE ClearStaging(a)
    BY <2>0, <2>fixed, <2>1 DEF ClearStaging, Unhistoric
  <2>2. CASE RecreateLink(a)
    BY <2>0, <2>fixed, <2>2 DEF RecreateLink, Unhistoric, PhaseInv
  <2>3. CASE OpenStaging(a)
    BY <2>0, <2>fixed, <2>3 DEF OpenStaging, Unhistoric, PhaseInv
  <2>4. CASE WriteStaging(a)
    <3>1. bytes' = [bytes EXCEPT ![a] = "before"]
      BY <2>4 DEF WriteStaging, PhaseInv, Captured, Truncated
    <3> QED
      BY <2>0, <2>fixed, <2>4, <3>1 DEF WriteStaging, Unhistoric, PhaseInv
  <2>5. CASE CheckStaged(a)
    BY <2>0, <2>fixed, <2>5 DEF CheckStaged, Unhistoric, PhaseInv
  <2>6. CASE RecheckTarget(a)
    BY <2>0, <2>fixed, <2>6 DEF RecheckTarget, PhaseInv
  <2>7. CASE Swap(a)
    BY <2>0, <2>fixed, <2>7 DEF Swap, Unhistoric, PhaseInv
  <2>8. CASE PostCheck(a)
    <3>1. /\ UNCHANGED <<bytes, restored>> /\ pc'[a] = "verify"
          /\ \A n \in {"target", "moved"} : dir'[n] = dir[n]
      BY <2>8 DEF PostCheck, Unhistoric
    <3> QED
      BY <2>outside, <3>1
  <2>9. CASE Unlink(a)
    BY <2>0, <2>fixed, <2>9 DEF Unlink, Unhistoric, PhaseInv
  <2>10. CASE RenameBack(a)
    BY <2>0, <2>fixed, <2>10 DEF RenameBack, Unhistoric, PhaseInv
  <2>11. CASE \/ CheckRestoreContent(a) \/ CheckDeleteFile(a)
             \/ CheckRestoreDeleted(a) \/ CheckRenameBack(a)
    <3>1. UNCHANGED <<dir, bytes, restored>>
      BY <2>11 DEF CheckRestoreContent, CheckDeleteFile, CheckRestoreDeleted,
                  CheckRenameBack, disk
    <3>2. pc'[a] \in {"verify", "clear", "unlink", "rename"}
      BY <2>11 DEF CheckRestoreContent, CheckDeleteFile, CheckRestoreDeleted, CheckRenameBack
    <3> QED
      BY <2>outside, <3>1, <3>2
  <2>12. CASE StartGated(a) \/ ConflictGate(a) \/ StartDirect(a) \/ Crash(a)
    <3>1. UNCHANGED <<dir, bytes, restored>>
      BY <2>12 DEF StartGated, ConflictGate, StartDirect, Crash, disk, Unhistoric
    <3>2. pc'[a] \in {"conflict_gate", "check", "done", "dead"}
      BY <2>12 DEF StartGated, ConflictGate, StartDirect, Crash
    <3> QED
      BY <2>outside, <3>1, <3>2
  <2>13. CASE Verify(a)
    BY <2>0, <2>fixed, <2>13 DEF Verify, disk
  <2>14. CASE InspectionFails(a)
    <3>1. UNCHANGED <<dir, bytes, restored>> /\ pc'[a] = "done"
      BY <2>14 DEF InspectionFails, disk
    <3> QED
      BY <2>outside, <3>1
  <2>15. CASE IOFails(a)
    <3>1. /\ \A n \in {"target", "moved"} : dir'[n] = dir[n]
          /\ restored' = restored /\ pc'[a] = "verify"
      BY <2>15 DEF IOFails
    <3>2. \A n \in {"target", "moved"} : Content(n)' = Content(n) /\ Present(n)' = Present(n)
      <4>1. CASE bytes' = bytes
        BY <3>1, <4>1
      <4>2. CASE pc[a] = "write"
        <5>1. \A f \in Files \ {a} : bytes'[f] = bytes[f]
          BY <2>15 DEF IOFails
        <5>2. dir["target"] # a /\ dir["moved"] # a
          BY <4>2 DEF WholeInv
        <5> QED
          BY <3>1, <5>1, <5>2
      <4> QED
        BY <2>15, <4>1, <4>2 DEF IOFails
    <3> HIDE DEF Content, Present
    <3> QED
      BY <2>0, <2>fixed, <3>1, <3>2
  <2> QED
    BY <1>3, <2>1, <2>2, <2>3, <2>4, <2>5, <2>6, <2>7, <2>8, <2>9, <2>10, <2>11, <2>12,
       <2>13, <2>14, <2>15
       DEF Engine, Execute
<1> QED
  BY <1>1, <1>2, <1>3 DEF Next

-------------------------------------------------------------------------------
(***************************************************************************)
(* Undisturbed attempts.                                                   *)
(***************************************************************************)
\* Failures are not forgotten.
LEMMA FailuresStay ==
    ASSUME NEW a \in Attempts, Engine(a) \/ Crash(a)
    PROVE  failed \subseteq failed'
  BY DEF Engine, Crash, StartGated, StartDirect, ConflictGate, Verify, InspectionFails, Execute,
         CheckRestoreContent, CheckDeleteFile, CheckRestoreDeleted,
         CheckRenameBack, ClearStaging, RecreateLink, OpenStaging, WriteStaging,
         CheckStaged, RecheckTarget, Swap, PostCheck, Unlink, RenameBack, IOFails,
         Unhistoric, Noted

\* What one step of an undisturbed attempt has to establish.
CalmStep(a) ==
    /\ CalmTarget' /\ OwnStaging(a)'
    /\ (pc[a] = "post_check" => Content("target") = "before")'
    /\ IsUndone => IsUndone'
    /\ SoundEvidence /\ a \notin failed' =>
          (\/ result'[a] \in {"FAILED", "BLOCKED"}
           \/ result'[a] = "GATED" /\ op \in {"modify", "create"}
           => IsUndone')

\* Every step of the attempt at work does, in an undisturbed directory.
LEMMA CalmSteps ==
    ASSUME TypeOK, TypeOK', Exclusive, OneAtATime, PhaseInv, WholeInv, CalmInv,
           RetryNeverBlocked, ~disturbed, ~Truncated, NEW a \in Attempts, Engine(a) \/ Crash(a)
    PROVE  CalmStep(a)
<1> USE EditsAssumption DEF TypeOK, Present, Content, Names, Goto, Report, Gated, Discard
<1>1. /\ UNCHANGED <<op, kind, large, after>> /\ BeforeHash = "before"
      /\ Undo' = Undo /\ BeforeHash' = BeforeHash /\ Observed' = Observed
  BY SituationFixed DEF Undo, BeforeHash, Captured, Truncated, Observed
<1>captured. Captured("before") = "before"
  BY DEF Captured, Truncated
<1>mono. a \notin failed' => a \notin failed
  BY FailuresStay
<1>2. \/ op = "modify" /\ Undo = "restore_content"
      \/ op = "create" /\ Undo = "delete_file"
      \/ op = "delete" /\ Undo = "restore_deleted_file"
      \/ op = "rename" /\ Undo = "rename_back"
  BY Operations
<1>3. CalmTarget /\ OwnStaging(a) /\ (pc[a] = "post_check" => Content("target") = "before")
  BY DEF CalmInv
<1>4. pc[a] # "idle" => after \in {Observed, "unreadable"}
  BY DEF PhaseInv, CalmInv
<1>5. SoundEvidence /\ a \notin failed' =>
         (\/ result[a] \in {"FAILED", "BLOCKED"}
          \/ result[a] = "GATED" /\ op \in {"modify", "create"}
          => IsUndone)
  BY <1>mono DEF RetryNeverBlocked
<1>6. /\ IsUndone <=> CASE op = "create" -> ~Present("target")
                        [] op = "rename" -> Content("target") = "before" /\ ~Present("moved")
                        [] OTHER -> Content("target") = "before"
      /\ IsUndone' <=> CASE op = "create" -> ~Present("target")'
                         [] op = "rename" -> Content("target")' = "before" /\ ~Present("moved")'
                         [] OTHER -> Content("target")' = "before"
  <2>1. op' = op /\ ~Truncated' /\ op \in DOMAIN Operation
    BY <1>1 DEF Truncated
  <2> QED
    BY <1>1, <1>2, <2>1 DEF IsUndone
<1>7. ASSUME UNCHANGED <<dir, bytes>>,
             pc'[a] \notin {"open", "write", "staged_check", "recheck", "swap", "post_check"},
             \/ result'[a] = result[a]
             \/ result'[a] \notin {"FAILED", "BLOCKED", "GATED"}
             \/ IsUndone
             \/ result'[a] = "GATED" /\ op \notin {"modify", "create"}
             \/ ~SoundEvidence \/ a \in failed'
      PROVE  CalmStep(a)
  BY <1>1, <1>3, <1>5, <1>6, <1>7 DEF CalmStep, CalmTarget, OwnStaging
<1>found. /\ op = "modify" => Present("target")
          /\ op \in {"modify", "create"} /\ Content("target") # "after" => IsUndone
          /\ op = "delete" /\ Present("target") => IsUndone
          /\ op = "rename" => (IF Present("moved") THEN ~Present("target") ELSE IsUndone)
  <2>1. /\ Present("target") <=> Content("target") # "missing"
        /\ Present("moved") <=> Content("moved") # "missing"
    BY PresentMeans
  <2> HIDE DEF Present, Content
  <2> QED
    BY <1>2, <1>3, <1>6, <2>1 DEF CalmTarget
<1>8. CASE StartGated(a) \/ ConflictGate(a) \/ StartDirect(a)
  <2>1. /\ UNCHANGED <<dir, bytes>>
        /\ pc'[a] \in {"conflict_gate", "check", "done"}
    BY <1>8 DEF StartGated, ConflictGate, StartDirect, disk
  <2>2. after \in {Observed, "unreadable"}
    BY <1>8, <1>4 DEF StartGated, ConflictGate, StartDirect, MayStart, CalmInv
  <2>3. \/ result'[a] = result[a]
        \/ IsUndone
        \/ result'[a] = "GATED" /\ op \notin {"modify", "create"}
        \/ ~SoundEvidence \/ a \in failed'
    <3>1. op \in {"modify", "create"} /\ Content("target") # "after" => IsUndone
      BY <1>found
    <3>2. SoundEvidence /\ op \in {"modify", "create"} => after = "after"
      BY <2>2 DEF SoundEvidence, Observed
    <3>3. \/ result'[a] = result[a] \/ a \in failed'
          \/ result'[a] = "GATED" /\ ~(NoDrift(Content("target")) /\ NoConflict(Content("target")))
      <4>1. CASE StartDirect(a)
        BY <4>1 DEF StartDirect
      <4>2. ASSUME NEW c \in Snapshots, Noted(a, c), StartGated(a) \/ ConflictGate(a),
                   \/ result'[a] = result[a]
                   \/ result'[a] = "GATED" /\ ~(NoDrift(c) /\ NoConflict(c))
            PROVE  \/ result'[a] = result[a] \/ a \in failed'
                   \/ result'[a] = "GATED"
                      /\ ~(NoDrift(Content("target")) /\ NoConflict(Content("target")))
        BY <4>2 DEF Snapshots, Noted
      <4> QED
        BY <1>8, <4>1, <4>2 DEF StartGated, ConflictGate
    <3> HIDE DEF Content
    <3> QED
      BY <3>1, <3>2, <3>3 DEF NoDrift, NoConflict
  <2> QED
    BY <1>7, <2>1, <2>3
<1>9. CASE CheckRestoreContent(a) \/ CheckDeleteFile(a)
           \/ CheckRestoreDeleted(a) \/ CheckRenameBack(a)
  <2>1. /\ UNCHANGED <<dir, bytes>>
        /\ pc'[a] \in {"verify", "clear", "unlink", "rename"}
    BY <1>9 DEF CheckRestoreContent, CheckDeleteFile, CheckRestoreDeleted, CheckRenameBack, disk
  <2>2. after \in {Observed, "unreadable"}
    BY <1>9, <1>4 DEF CheckRestoreContent, CheckDeleteFile, CheckRestoreDeleted, CheckRenameBack
  <2>3. CASE CheckRestoreContent(a)
    <3>1. \/ result'[a] = result[a]
          \/ result'[a] = "BLOCKED" /\ Content("target") # Captured(after)
      BY <1>2, <1>found, <2>3 DEF CheckRestoreContent, MatchesEvidence
    <3>2. op = "modify" /\ (SoundEvidence => Captured(after) = "after")
      BY <1>2, <2>2, <2>3 DEF CheckRestoreContent, SoundEvidence, Captured, Observed
    <3> QED
      BY <1>7, <1>found, <2>1, <3>1, <3>2
  <2>4. CASE CheckDeleteFile(a)
    <3>1. \/ result'[a] \in {result[a], "SUCCEEDED"}
          \/ result'[a] = "BLOCKED" /\ Content("target") # Captured(after)
      BY <2>4 DEF CheckDeleteFile, MatchesEvidence
    <3>2. op = "create" /\ (SoundEvidence => Captured(after) = "after")
      BY <1>2, <2>2, <2>4 DEF CheckDeleteFile, SoundEvidence, Captured, Observed
    <3> QED
      BY <1>7, <1>found, <2>1, <3>1, <3>2
  <2>5. CASE CheckRestoreDeleted(a)
    <3>1. result'[a] = result[a] \/ Present("target")
      BY <2>5 DEF CheckRestoreDeleted
    <3> QED
      BY <1>2, <1>7, <1>found, <2>1, <2>5, <3>1 DEF CheckRestoreDeleted
  <2>6. CASE CheckRenameBack(a)
    <3>1. result'[a] = result[a] \/ IsUndone
      BY <1>2, <1>found, <2>6 DEF CheckRenameBack
    <3> QED
      BY <1>7, <2>1, <3>1
  <2> QED
    BY <1>9, <2>3, <2>4, <2>5, <2>6
<1>10. CASE ClearStaging(a)
  <2>1. /\ UNCHANGED <<bytes, result>> /\ dir'["target"] = dir["target"]
        /\ dir'["moved"] = dir["moved"] /\ dir'["staging"] = NoFile
        /\ pc'[a] \in {"link", "open"}
    BY <1>10 DEF ClearStaging
  <2>2. /\ Content("target")' = Content("target") /\ Content("moved")' = Content("moved")
        /\ Present("target")' = Present("target") /\ Present("moved")' = Present("moved")
        /\ ~Present("staging")'
    BY <2>1
  <2> HIDE DEF Content, Present
  <2> QED
    BY <1>1, <1>3, <1>5, <1>6, <2>1, <2>2 DEF CalmStep, CalmTarget, OwnStaging
<1>11. CASE RecreateLink(a)
  <2>1. op = "delete" /\ pc'[a] = "verify"
    BY <1>2, <1>11 DEF RecreateLink, PhaseInv
  <2>2. Content("target")' = "before"
    <3>1. CASE Present("target")
      BY <1>6, <1>found, <1>11, <2>1, <3>1 DEF RecreateLink
    <3>2. CASE ~Present("target")
      BY <1>11, <3>2 DEF RecreateLink, Files
    <3> QED
      BY <3>1, <3>2
  <2> QED
    BY <1>1, <1>6, <2>1, <2>2 DEF CalmStep, CalmTarget, OwnStaging
<1>12. CASE OpenStaging(a)
  <2>1. Undo \in {"restore_content", "restore_deleted_file"} /\ ~Present("staging")
    BY <1>3, <1>12 DEF OpenStaging, OwnStaging, PhaseInv
  <2>2. /\ dir' = [dir EXCEPT !["staging"] = a] /\ bytes' = bytes
        /\ pc'[a] = "write" /\ result' = result
    BY <1>12, <2>1 DEF OpenStaging
  <2>3. Content("target")' = Content("target") /\ dir'["staging"] = a
    BY <2>2
  <2> QED
    BY <1>1, <1>2, <1>3, <1>5, <1>6, <2>1, <2>2, <2>3 DEF CalmStep, CalmTarget, OwnStaging
<1>13. CASE WriteStaging(a)
  <2>1. Undo \in {"restore_content", "restore_deleted_file"} /\ dir["staging"] = a
    BY <1>3, <1>13 DEF WriteStaging, OwnStaging, PhaseInv
  <2>2. /\ dir' = dir /\ bytes' = [bytes EXCEPT ![a] = "before"]
        /\ pc'[a] \in {"swap", "staged_check"} /\ result' = result
    <3>1. /\ dir' = dir /\ bytes' = [bytes EXCEPT ![a] = Captured("before")]
          /\ pc'[a] \in {"swap", "staged_check"} /\ result' = result
      BY <1>13 DEF WriteStaging
    <3> QED
      BY <1>captured, <3>1
  <2>3. Content("target")' \in {Content("target"), "before"} /\ Content("staging")' = "before"
    BY <2>1, <2>2 DEF Files
  <2> HIDE DEF Content
  <2> QED
    BY <1>1, <1>2, <1>3, <1>5, <1>6, <2>1, <2>2, <2>3 DEF CalmStep, CalmTarget, OwnStaging
<1>14. CASE CheckStaged(a)
  <2>1. op = "delete" /\ Content("staging") = "before"
    BY <1>2, <1>3, <1>14 DEF CheckStaged, OwnStaging, PhaseInv
  <2>2. UNCHANGED <<dir, bytes, result>> /\ pc'[a] = "recheck"
    BY <1>1, <1>14, <2>1 DEF CheckStaged
  <2>3. Content("target")' = Content("target") /\ Content("staging")' = "before"
    BY <2>1, <2>2
  <2> HIDE DEF Content
  <2> QED
    BY <1>1, <1>3, <1>5, <1>6, <2>1, <2>2, <2>3 DEF CalmStep, CalmTarget, OwnStaging
<1>15. CASE RecheckTarget(a)
  <2>1. op = "delete"
    BY <1>2, <1>15 DEF RecheckTarget, PhaseInv
  <2>2. /\ Content("target")' = Content("target")
        /\ ~Present("target") => UNCHANGED <<dir, bytes, result>> /\ pc'[a] = "swap"
        /\ Present("target") => IsUndone /\ pc'[a] = "verify"
    BY <1>found, <1>15, <2>1 DEF RecheckTarget
  <2>3. Content("staging") = "before"
    BY <1>3, <1>15 DEF RecheckTarget, OwnStaging
  <2> QED
    BY <1>1, <1>3, <1>5, <1>6, <2>1, <2>2, <2>3 DEF CalmStep, CalmTarget, OwnStaging
<1>16. CASE Swap(a)
  <2>1. Undo \in {"restore_content", "restore_deleted_file"} /\ Content("staging") = "before"
    BY <1>3, <1>16 DEF Swap, OwnStaging, PhaseInv
  <2>2. /\ dir' = [dir EXCEPT !["target"] = dir["staging"], !["staging"] = NoFile]
        /\ bytes' = bytes /\ pc'[a] = "post_check" /\ result' = result
    BY <1>16, <2>1 DEF Swap
  <2>3. Content("target")' = "before"
    BY <2>1, <2>2
  <2> QED
    BY <1>1, <1>2, <1>5, <1>6, <2>1, <2>2, <2>3 DEF CalmStep, CalmTarget, OwnStaging
<1>17. CASE PostCheck(a)
  <2>1. Content("target") = "before" /\ Present("target")
    BY <1>3, <1>17 DEF PostCheck
  <2>2. UNCHANGED <<dir, bytes>> /\ pc'[a] = "verify" /\ result'[a] = "SUCCEEDED"
    BY <1>1, <1>17, <2>1 DEF PostCheck
  <2> QED
    BY <1>7, <2>2
<1>18. CASE Unlink(a)
  <2>1. op = "create" /\ pc'[a] = "verify" /\ Content("target")' = "missing" /\ ~Present("target")'
    BY <1>2, <1>18 DEF Unlink, PhaseInv
  <2> HIDE DEF Content, Present
  <2> QED
    BY <1>1, <1>6, <2>1 DEF CalmStep, CalmTarget, OwnStaging
<1>19. CASE RenameBack(a)
  <2>1. op = "rename" /\ pc'[a] = "verify"
    BY <1>2, <1>19 DEF RenameBack, PhaseInv
  <2>2. CASE Present("moved")
    <3>1. Content("moved") = "before"
      BY <1>3, <2>1, <2>2 DEF CalmTarget
    <3>2. /\ dir' = [dir EXCEPT !["target"] = dir["moved"], !["moved"] = NoFile]
          /\ bytes' = bytes
      BY <1>19, <2>2 DEF RenameBack
    <3>3. Content("target")' = "before" /\ ~Present("moved")'
      BY <3>1, <3>2
    <3> HIDE DEF Content, Present
    <3> QED
      BY <1>1, <1>6, <2>1, <3>3 DEF CalmStep, CalmTarget, OwnStaging
  <2>3. CASE ~Present("moved")
    <3>1. IsUndone /\ UNCHANGED <<dir, bytes>>
      BY <1>found, <1>19, <2>1, <2>3 DEF RenameBack
    <3> QED
      BY <1>7, <2>1, <3>1
  <2> QED
    BY <2>2, <2>3
<1>20. CASE Verify(a) \/ Crash(a) \/ InspectionFails(a)
  BY <1>7, <1>20 DEF Verify, InspectionFails, Crash, disk
<1>21. CASE IOFails(a)
  <2>1. /\ \A n \in {"target", "moved"} : dir'[n] = dir[n]
        /\ a \in failed' /\ pc'[a] = "verify"
    BY <1>21 DEF IOFails
  <2>2. \A n \in {"target", "moved"} : Content(n)' = Content(n) /\ Present(n)' = Present(n)
    <3>1. CASE bytes' = bytes
      BY <2>1, <3>1
    <3>2. CASE pc[a] = "write"
      <4>1. \A f \in Files \ {a} : bytes'[f] = bytes[f]
        BY <1>21 DEF IOFails
      <4>2. dir["target"] # a /\ dir["moved"] # a
        BY <3>2 DEF WholeInv
      <4> QED
        BY <2>1, <4>1, <4>2
    <3> QED
      BY <1>21, <3>1, <3>2 DEF IOFails
  <2> HIDE DEF Content, Present
  <2> QED
    BY <1>1, <1>3, <1>6, <2>1, <2>2 DEF CalmStep, CalmTarget, OwnStaging
<1> QED
  BY <1>21, <1>8, <1>9, <1>10, <1>11, <1>12, <1>13, <1>14, <1>15, <1>16, <1>17, <1>18, <1>19, <1>20
     DEF Engine, Execute

\* An undisturbed attempt finds the directory as the agent left it or restored.
LEMMA CalmInductive ==
    ASSUME TypeOK, TypeOK', Exclusive, OneAtATime, PhaseInv, WholeInv, CalmInv,
           RetryNeverBlocked, [Next]_vars
    PROVE  CalmInv' /\ RetryNeverBlocked'
<1>1. ASSUME NEW a \in Attempts, Engine(a) \/ Crash(a), ~disturbed', ~Truncated'
      PROVE  CalmInv' /\ RetryNeverBlocked'
  <2>1. /\ UNCHANGED <<op, large, after, disturbed>> /\ Observed' = Observed
        /\ Truncated' = Truncated /\ SoundEvidence' = SoundEvidence
    BY <1>1, SituationFixed DEF Observed, Truncated, SoundEvidence
  <2>2. CalmStep(a)
    BY <1>1, <2>1, CalmSteps
  <2>3. \A b \in Attempts \ {a} : /\ pc'[b] = pc[b] /\ result'[b] = result[b]
                                  /\ pc[b] \in {"idle", "done", "dead"}
    BY <1>1, Solo
  <2>4. CalmTarget' /\ \A b \in Attempts : /\ OwnStaging(b)'
                                           /\ (pc[b] = "post_check" => Content("target") = "before")'
    <3>1. \A b \in Attempts \ {a} : OwnStaging(b)'
      BY <2>3 DEF OwnStaging
    <3> QED
      BY <2>2, <2>3, <3>1 DEF CalmStep
  <2>5. SoundEvidence => \A b \in Attempts \ failed' :
            \/ result'[b] \in {"FAILED", "BLOCKED"}
            \/ result'[b] = "GATED" /\ op \in {"modify", "create"}
            => IsUndone'
    <3>1. ASSUME SoundEvidence, NEW b \in Attempts \ {a}, b \notin failed',
                 \/ result'[b] \in {"FAILED", "BLOCKED"}
                 \/ result'[b] = "GATED" /\ op \in {"modify", "create"}
          PROVE  IsUndone'
      <4>1. IsUndone
        BY <1>1, <2>1, <2>3, <3>1, FailuresStay DEF RetryNeverBlocked
      <4> QED
        BY <2>2, <4>1 DEF CalmStep
    <3> QED
      BY <2>2, <3>1 DEF CalmStep
  <2>6. after # "none"
    <3>1. CASE pc[a] = "idle"
      BY <1>1, <3>1 DEF Engine, Crash, Working, StartGated, StartDirect, MayStart, Verify,
            InspectionFails, ConflictGate, Execute, CheckRestoreContent, CheckDeleteFile, CheckRestoreDeleted,
            CheckRenameBack, ClearStaging, RecreateLink, OpenStaging, WriteStaging,
            CheckStaged, RecheckTarget, Swap, PostCheck, Unlink, RenameBack, IOFails, Staging
    <3> QED
      BY <3>1 DEF PhaseInv
  <2> QED
    BY <1>1, <2>1, <2>4, <2>5, <2>6 DEF CalmInv, RetryNeverBlocked
<1>2. CASE CaptureEvidence
  <2>1. /\ UNCHANGED <<op, kind, large, dir, bytes, pc, result, disturbed>>
        /\ after = "none" /\ after' \in {Content("target"), "unreadable"} /\ failed' = failed
    BY <1>2 DEF CaptureEvidence, Snapshots, situation, disk, control, history
  <2>2. \A a \in Attempts : pc[a] = "idle"
    BY <2>1 DEF PhaseInv
  <2> QED
    <3>1. /\ UNCHANGED <<Undo, BeforeHash, Observed, Truncated>>
          /\ \A n \in Names : UNCHANGED <<Content(n), Present(n)>>
      BY <2>1 DEF Undo, BeforeHash, Captured, Observed, Truncated, Content, Present
    <3>2. /\ IsUndone' = IsUndone /\ (CalmTarget <=> CalmTarget')
          /\ \A a \in Attempts : OwnStaging(a)'
      BY <2>1, <2>2, <3>1 DEF IsUndone, CalmTarget, OwnStaging, Names
    <3>3. SoundEvidence' => SoundEvidence
      BY <2>1, <3>1, EditsAssumption DEF SoundEvidence, TypeOK
    <3> HIDE DEF CalmTarget, OwnStaging, IsUndone, SoundEvidence
    <3>4. RetryNeverBlocked'
      BY <2>1, <3>2, <3>3 DEF RetryNeverBlocked
    <3>5. CalmInv'
      BY <2>1, <2>2, <3>1, <3>2 DEF CalmInv, Names
    <3> QED
      BY <3>4, <3>5
<1>3. CASE People
  BY <1>3 DEF People, EditInPlace, SaveAs, Delete, Touch, CalmInv, RetryNeverBlocked
<1>4. CASE UNCHANGED vars
  BY <1>4 DEF vars, situation, disk, control, history, CalmInv, CalmTarget, OwnStaging,
              Content, Present, RetryNeverBlocked, SoundEvidence,
                Observed, IsUndone, Undo, BeforeHash, Captured, Truncated
<1>5. CASE disturbed' \/ Truncated'
  BY <1>5 DEF CalmInv, RetryNeverBlocked, SoundEvidence
<1> QED
  BY <1>1, <1>2, <1>3, <1>4, <1>5 DEF Next

-------------------------------------------------------------------------------
(***************************************************************************)
(* Edits an attempt could have seen are spared.                            *)
(***************************************************************************)
\* Only the person who writes an edit brings it into the directory.
LEMMA FreshInductive ==
    ASSUME TypeOK, TypeOK', FreshInv, [Next]_vars
    PROVE  FreshInv'
<1> USE EditsAssumption DEF TypeOK, FreshInv, Files, Names
<1>1. ASSUME NEW n \in Names, NEW e \in Edits, EditInPlace(n, e) \/ SaveAs(n, e)
      PROVE  FreshInv'
  BY <1>1 DEF EditInPlace, SaveAs, Made, Present
<1>2. ASSUME NEW n \in Names, Delete(n) PROVE FreshInv'
  BY <1>2 DEF Delete
<1>3. CASE CaptureEvidence \/ UNCHANGED vars
  BY <1>3 DEF CaptureEvidence, vars, disk, history
<1>4. ASSUME NEW a \in Attempts, Engine(a) \/ Crash(a) PROVE FreshInv'
  <2>1. unused' = unused
    BY <1>4, SituationFixed
  <2>2. ASSUME \A f \in Files \ {a} : bytes'[f] = bytes[f],
               \A n \in Names : \/ dir'[n] \in {NoFile, a}
                                \/ \E m \in Names : dir'[n] = dir[m]
        PROVE  FreshInv'
    BY <2>1, <2>2
  <2>3. CASE UNCHANGED disk
    BY <2>1, <2>3 DEF disk
  <2>4. CASE ClearStaging(a) \/ RecreateLink(a) \/ OpenStaging(a) \/ WriteStaging(a)
    BY <2>2, <2>4 DEF ClearStaging, RecreateLink, OpenStaging, WriteStaging, Discard
  <2>io. CASE IOFails(a)
    BY <2>2, <2>io DEF IOFails, Discard
  <2>5. CASE CheckStaged(a) \/ RecheckTarget(a) \/ Swap(a) \/ PostCheck(a)
    BY <2>2, <2>5 DEF CheckStaged, RecheckTarget, Swap, PostCheck, Discard
  <2>6. CASE Unlink(a) \/ RenameBack(a)
    BY <2>2, <2>6 DEF Unlink, RenameBack
  <2> QED
    BY <1>4, <2>3, <2>4, <2>5, <2>6, <2>io
       DEF Engine, Execute, StartGated, StartDirect, ConflictGate, Verify, InspectionFails, Crash,
           CheckRestoreContent, CheckDeleteFile, CheckRestoreDeleted, CheckRenameBack
<1> QED
  BY <1>1, <1>2, <1>3, <1>4 DEF Next, People

\* A person's step leaves every content alone or makes it a late one.
LEMMA PeopleAreLate ==
    ASSUME TypeOK, TypeOK', FreshInv, People, NEW a \in Attempts
    PROVE  /\ late[a] \subseteq late'[a] /\ UNCHANGED <<after, pc, op>>
           /\ \A n \in Names : Content(n)' = Content(n) \/ Late(a, Content(n))'
           /\ bytes'[a] = bytes[a] \/ Late(a, bytes[a])'
           /\ \A n \in Names : dir[n] # a => dir'[n] # a
           /\ (\A n \in Names : dir[n] # a) => bytes'[a] = bytes[a]
<1> USE EditsAssumption DEF TypeOK, Late, Content, Present, Touch, Made, control, situation
<1>1. ASSUME NEW n \in Names, Delete(n)
      PROVE  /\ UNCHANGED <<late, bytes, after, pc, op>>
             /\ dir' = [dir EXCEPT ![n] = NoFile]
  BY <1>1 DEF Delete
<1>2. ASSUME NEW n \in Names, NEW e \in Edits, EditInPlace(n, e)
      PROVE  /\ late'[a] = late[a] \cup {e} /\ UNCHANGED <<dir, after, pc, op>>
             /\ dir[n] \in Files /\ bytes' = [bytes EXCEPT ![dir[n]] = e]
  BY <1>2 DEF EditInPlace
<1>3. ASSUME NEW n \in Names, NEW e \in Edits, SaveAs(n, e)
      PROVE  /\ late'[a] = late[a] \cup {e} /\ UNCHANGED <<bytes, after, pc, op>>
             /\ dir' = [dir EXCEPT ![n] = e] /\ bytes[e] = e
  BY <1>3 DEF SaveAs, FreshInv
<1>4. CASE \E n \in Names : Delete(n)
  BY <1>1, <1>4 DEF Files
<1>5. CASE \E n \in Names, e \in Edits : EditInPlace(n, e)
  BY <1>2, <1>5 DEF Files
<1>6. CASE \E n \in Names, e \in Edits : SaveAs(n, e)
  BY <1>3, <1>6 DEF Files
<1> QED
  BY <1>4, <1>5, <1>6 DEF People

\* While one attempt works the others only wait, or are over.
LEMMA OthersSpared ==
    ASSUME TypeOK, TypeOK', Exclusive, OneAtATime, LateInv,
           NEW a \in Attempts, Engine(a) \/ Crash(a), NEW b \in Attempts \ {a}
    PROVE  Spares(b)'
<1> USE EditsAssumption DEF TypeOK
<1>1. pc'[b] = pc[b] /\ pc[b] \in {"idle", "done", "dead"}
  BY Solo
<1>2. late'[b] = late[b]
  <2>1. CASE Execute(a)
    BY <2>1 DEF Execute, CheckRestoreContent, CheckDeleteFile, CheckRestoreDeleted,
                CheckRenameBack, ClearStaging, RecreateLink, OpenStaging, WriteStaging,
                CheckStaged, RecheckTarget, Swap, PostCheck, Unlink, RenameBack, IOFails,
                Compared, Unhistoric
  <2> QED
    BY <2>1 DEF Engine, StartGated, StartDirect, ConflictGate, Verify, InspectionFails, Crash, Compared, Unhistoric
<1>3. bytes'[b] = bytes[b]
  <2>1. CASE Execute(a)
    BY <2>1 DEF Execute, CheckRestoreContent, CheckDeleteFile, CheckRestoreDeleted,
                CheckRenameBack, ClearStaging, RecreateLink, OpenStaging, WriteStaging,
                CheckStaged, RecheckTarget, Swap, PostCheck, Unlink, RenameBack, IOFails,
                disk, Files
  <2> QED
    BY <2>1 DEF Engine, StartGated, StartDirect, ConflictGate, Verify, InspectionFails, Crash, disk
<1>4. ASSUME \A n \in Names : dir[n] # b PROVE \A n \in Names : dir'[n] # b
  <2> USE <1>4 DEF Names
  <2>1. CASE ClearStaging(a) \/ RecreateLink(a) \/ OpenStaging(a) \/ WriteStaging(a)
    BY <2>1 DEF ClearStaging, RecreateLink, OpenStaging, WriteStaging, Discard
  <2>2. CASE CheckStaged(a) \/ RecheckTarget(a) \/ Swap(a) \/ PostCheck(a)
    BY <2>2 DEF CheckStaged, RecheckTarget, Swap, PostCheck, Discard
  <2>3. CASE Unlink(a) \/ RenameBack(a) \/ IOFails(a)
    BY <2>3 DEF Unlink, RenameBack, IOFails, Discard
  <2>4. CASE UNCHANGED disk
    BY <2>4 DEF disk
  <2> QED
    BY <2>1, <2>2, <2>3, <2>4
       DEF Engine, Execute, StartGated, StartDirect, ConflictGate, Verify, InspectionFails, Crash,
           CheckRestoreContent, CheckDeleteFile, CheckRestoreDeleted, CheckRenameBack
<1> QED
  BY <1>1, <1>2, <1>3, <1>4 DEF LateInv, Spares, Comparable, Staging

\* The attempt at work keeps to what it compared.
LEMMA WorkerSpares ==
    ASSUME TypeOK, TypeOK', PhaseInv, LateInv, NEW a \in Attempts, Engine(a) \/ Crash(a)
    PROVE  Spares(a)'
<1> USE EditsAssumption DEF TypeOK, Spares, Late, Staging, Unrecorded, Names, Goto, Report, Gated, Discard, Contents
<1>1. Spares(a) /\ after' = after /\ Undo' = Undo
  BY SituationFixed DEF LateInv, Undo
<1>2. \A n \in Names : UNCHANGED <<dir, bytes>> => Content(n)' = Content(n)
  BY DEF Content, Present
<1>3. CASE StartGated(a) \/ StartDirect(a)
  BY <1>1, <1>2, <1>3 DEF StartGated, StartDirect, MayStart, Unhistoric, disk, Comparable
<1>4. CASE ConflictGate(a)
  BY <1>1, <1>2, <1>4 DEF ConflictGate, NoConflict, Snapshots, Compared, disk, Comparable
<1>5. CASE CheckRestoreContent(a)
  BY <1>1, <1>2, <1>5 DEF CheckRestoreContent, MatchesEvidence, Captured, Compared, disk, Comparable
<1>6. CASE CheckDeleteFile(a)
  BY <1>1, <1>2, <1>6 DEF CheckDeleteFile, MatchesEvidence, Captured, Compared, disk, Comparable
<1>7. CASE CheckRestoreDeleted(a)
  BY <1>1, <1>2, <1>7 DEF CheckRestoreDeleted, Compared, disk, Comparable
<1>8. CASE CheckRenameBack(a)
  BY <1>1, <1>2, <1>8 DEF CheckRenameBack, BeforeHash, Captured, Truncated, Compared, disk, Comparable, Content, Present
<1>9. CASE ClearStaging(a)
  BY <1>1, <1>9 DEF ClearStaging, Unhistoric, Comparable, Content, Present
<1>10. CASE OpenStaging(a)
  BY <1>1, <1>10 DEF OpenStaging, Unhistoric, Comparable, Content, Present
<1>11. CASE WriteStaging(a)
  <2>1. Captured("before") \notin Edits
    BY DEF Captured
  <2> QED
    BY <1>1, <1>11, <2>1 DEF WriteStaging, Unhistoric, Comparable, Content, Present, Files
<1>12. CASE CheckStaged(a)
  BY <1>1, <1>2, <1>12 DEF CheckStaged, Unhistoric, Comparable
<1>13. CASE RecheckTarget(a)
  BY <1>1, <1>2, <1>13 DEF RecheckTarget, Comparable, Content, Present
<1>14. CASE Swap(a)
  BY <1>1, <1>14 DEF Swap, Unhistoric, Comparable, Content, Present
<1>15. CASE \/ RecreateLink(a) \/ PostCheck(a) \/ Unlink(a) \/ RenameBack(a) \/ IOFails(a)
           \/ Verify(a) \/ InspectionFails(a) \/ Crash(a)
  <2>1. pc'[a] \in {"verify", "done", "dead"}
    BY <1>15 DEF RecreateLink, PostCheck, Unlink, RenameBack, IOFails, Verify,
                 InspectionFails, Crash
  <2> QED
    BY <2>1 DEF Comparable
<1> QED
  BY <1>3, <1>4, <1>5, <1>6, <1>7, <1>8, <1>9, <1>10, <1>11, <1>12, <1>13, <1>14, <1>15
     DEF Engine, Execute

\* Each attempt goes on sparing the edits it could have seen.
LEMMA LateInductive ==
    ASSUME TypeOK, TypeOK', Exclusive, OneAtATime, PhaseInv, FreshInv, LateInv, [Next]_vars
    PROVE  LateInv'
<1>1. ASSUME NEW a \in Attempts, Engine(a) \/ Crash(a) PROVE LateInv'
  BY <1>1, OthersSpared, WorkerSpares DEF LateInv
<1>2. CASE CaptureEvidence
  <2>1. UNCHANGED <<op, dir, bytes, pc, late>> /\ \A a \in Attempts : pc[a] = "idle"
    BY <1>2 DEF CaptureEvidence, situation, disk, control, history, PhaseInv
  <2> QED
    BY <2>1 DEF LateInv, Spares, Comparable, Late, Staging
<1>3. ASSUME People, NEW a \in Attempts PROVE Spares(a)'
  <2>1. Spares(a)
    BY DEF LateInv
  <2>2. Undo' = Undo /\ late'[a] \in SUBSET Edits
    BY <1>3, PeopleAreLate DEF Undo, TypeOK
  <2> HIDE DEF Content, Late
  <2>3. \A n \in Names : Late(a, Content(n)) => Late(a, Content(n))'
    BY <1>3, PeopleAreLate DEF Late
  <2>4. Late(a, bytes[a]) => Late(a, bytes[a])'
    BY <1>3, PeopleAreLate DEF Late
  <2>5. {"target", "staging"} \subseteq Names
    BY DEF Names
  <2> QED
    BY <1>3, <2>1, <2>2, <2>3, <2>4, <2>5, PeopleAreLate DEF Spares, Comparable, Unrecorded
<1>4. CASE UNCHANGED vars
  BY <1>4 DEF vars, situation, disk, control, history, LateInv, Spares, Comparable, Late,
              Content, Present, Undo, Unrecorded
<1> QED
  BY <1>1, <1>2, <1>3, <1>4 DEF Next, LateInv

\* While no bytes are written a content is lost only with its last name.
LEMMA LostWithItsName ==
    ASSUME TypeOK, TypeOK', bytes' = bytes, preserved \subseteq preserved',
           NEW c \in Findable, c \notin Findable'
    PROVE  \E n \in Names : /\ Present(n) /\ Content(n) = c
                            /\ dir[n] \notin preserved'
                            /\ \A m \in Names : dir'[m] # dir[n]
<1>1. c \notin {bytes[f] : f \in preserved}
  BY DEF Findable
<1>2. PICK n \in Names : Present(n) /\ bytes[dir[n]] = c
  BY <1>1 DEF Findable
<1>3. dir[n] \notin preserved'
  BY <1>2 DEF Findable
<1>4. ASSUME NEW m \in Names, dir'[m] = dir[n] PROVE FALSE
  BY <1>2, <1>4 DEF Findable, Present
<1> QED
  BY <1>2, <1>3, <1>4 DEF Content

\* What one step of an attempt makes impossible to find came too late for it,
\* or is what the evidence recorded.
LEMMA EditsSpared ==
    ASSUME TypeOK, TypeOK', PhaseInv, LateInv, NEW a \in Attempts, Engine(a) \/ Crash(a)
    PROVE  (Findable \ Findable') \cap Edits \subseteq late[a] \cup {after}
<1> SUFFICES ASSUME NEW c \in Edits, c \in Findable, c \notin Findable'
             PROVE  c \in late[a] \cup {after}
  OBVIOUS
<1> USE EditsAssumption DEF TypeOK, Names, Goto, Report, Gated, Discard
<1>1. Spares(a)
  BY DEF LateInv
<1>2. CASE UNCHANGED disk
  BY <1>2 DEF disk, Findable, Present
<1>3. CASE ClearStaging(a)
  <2>1. PICK n \in Names : /\ Present(n) /\ dir[n] \notin preserved'
                           /\ \A m \in Names : dir'[m] # dir[n]
    BY <1>3, LostWithItsName DEF ClearStaging
  <2> QED
    BY <1>3, <2>1 DEF ClearStaging
<1>4. CASE RecreateLink(a) /\ ~Present("target")
  <2>1. /\ \A f \in Files \ {a} : bytes'[f] = bytes[f]
        /\ preserved' = preserved /\ bytes[a] = "partial"
        /\ \A n \in Names : Present(n) => dir'[n] = dir[n] /\ dir[n] # a
    BY <1>1, <1>4 DEF RecreateLink, Spares
  <2> QED
    BY <2>1 DEF Findable, Present
<1>5. CASE WriteStaging(a)
  <2>1. /\ \A f \in Files \ {a} : bytes'[f] = bytes[f]
        /\ preserved' = preserved /\ dir' = dir /\ Late(a, bytes[a])
    BY <1>1, <1>5 DEF WriteStaging, Spares
  <2>2. c = bytes[a]
    BY <2>1 DEF Findable, Present
  <2> QED
    BY <2>1, <2>2 DEF Late
<1>6. CASE /\ dir' = [dir EXCEPT !["staging"] = NoFile] /\ UNCHANGED <<bytes, preserved>>
           /\ pc[a] \in Staging
  <2>1. PICK n \in Names : /\ Present(n) /\ Content(n) = c
                           /\ \A m \in Names : dir'[m] # dir[n]
    BY <1>6, LostWithItsName
  <2>2. c = Content("staging")
    BY <1>6, <2>1
  <2> QED
    BY <1>1, <1>6, <2>2 DEF Spares, Late
<1>7. CASE OpenStaging(a) /\ ~Present("staging")
  <2>1. PICK n \in Names : /\ Present(n) /\ Content(n) = c
                           /\ \A m \in Names : dir'[m] # dir[n]
    BY <1>7, LostWithItsName DEF OpenStaging
  <2> QED
    BY <1>7, <2>1 DEF OpenStaging
<1>8. CASE Swap(a) \/ Unlink(a) \/ RenameBack(a)
  <2>1. PICK n \in Names : /\ Present(n) /\ Content(n) = c
                           /\ \A m \in Names : dir'[m] # dir[n]
    BY <1>8, LostWithItsName DEF Swap, Unlink, RenameBack, IOFails
  <2>2. c = Content("target")
    BY <1>8, <2>1 DEF Swap, Unlink, RenameBack, IOFails, Present
  <2> QED
    BY <1>1, <1>8, <2>2 DEF Swap, Unlink, RenameBack, IOFails, Spares, Comparable, Late
<1>9. CASE RecreateLink(a) \/ OpenStaging(a) \/ CheckStaged(a) \/ RecheckTarget(a) \/ PostCheck(a)
  BY <1>2, <1>4, <1>6, <1>7, <1>9
     DEF Staging, RecreateLink, OpenStaging, CheckStaged, RecheckTarget, PostCheck, disk
<1>10. CASE IOFails(a)
  <2>1. preserved' = preserved
    BY <1>10 DEF IOFails
  <2>2. CASE bytes' = bytes
    BY <1>2, <1>6, <1>10, <2>1, <2>2 DEF IOFails, disk
  <2>3. CASE pc[a] = "write"
    <3>1. /\ \A f \in Files \ {a} : bytes'[f] = bytes[f]
          /\ \A n \in Names \ {"staging"} : dir'[n] = dir[n]
          /\ dir'["staging"] \in {dir["staging"], NoFile}
      BY <1>10 DEF IOFails
    <3>2. Late(a, bytes[a]) /\ Late(a, Content("staging"))
      BY <1>1, <2>3 DEF Spares, Staging
    <3>3. c = bytes[a] \/ (Present("staging") /\ c = bytes[dir["staging"]])
      BY <2>1, <3>1 DEF Findable, Present
    <3> QED
      BY <3>2, <3>3 DEF Late, Content
  <2> QED
    BY <1>10, <2>2, <2>3 DEF IOFails
<1> QED
  BY <1>2, <1>3, <1>5, <1>8, <1>9, <1>10
     DEF Engine, Execute, StartGated, StartDirect, ConflictGate, Verify, InspectionFails, Crash,
         CheckRestoreContent, CheckDeleteFile, CheckRestoreDeleted, CheckRenameBack
-------------------------------------------------------------------------------
(***************************************************************************)
(* The theorems.                                                           *)
(***************************************************************************)
\* The agent's change, and nobody at work on it yet.
LEMMA InvariantInitial == Init => FilesystemInv
<1> SUFFICES ASSUME Init PROVE FilesystemInv
  OBVIOUS
<1> USE EditsAssumption
<1>1. TypeOK
  BY TypeInitial
<1>2. OneAtATime /\ PhaseInv /\ FreshInv
  BY Operations DEF Init, OneAtATime, Working, PhaseInv, FreshInv, Files, Names
<1>3. WholeInv
  BY DEF Init, WholeInv, Whole, Files, Names, Present
<1>4. RestoredInv
  BY DEF Init, RestoredInv
<1>5. CalmInv /\ RetryNeverBlocked
  <2>1. /\ "target" \in Names /\ "moved" \in Names /\ AgentFile \in Files /\ AgentFile # NoFile
        /\ AgentFile \notin Edits \cup Attempts
    BY DEF Names, Files, AgentFile, NoFile
  <2>2. Content("target") = Observed /\ CalmTarget
    BY <2>1 DEF Init, Observed, CalmTarget, Content, Present, Operation
  <2>3. \A a \in Attempts : OwnStaging(a) /\ pc[a] = "idle" /\ result[a] = "none"
    BY DEF Init, OwnStaging
  <2> QED
    BY <2>2, <2>3 DEF Init, CalmInv, RetryNeverBlocked
<1>6. LateInv
  BY DEF Init, LateInv, Spares, Comparable, Staging, Files, Names
<1> QED
  BY <1>1, <1>2, <1>3, <1>4, <1>5, <1>6 DEF FilesystemInv

\* The invariant is kept by every step of attempts, people and crashes.
LEMMA InvariantInductive == FilesystemInv /\ [Next]_vars => FilesystemInv'
<1> SUFFICES ASSUME FilesystemInv, [Next]_vars PROVE FilesystemInv'
  OBVIOUS
<1>1. TypeOK /\ TypeOK'
  BY TypeInductive DEF FilesystemInv
<1>2. CASE Exclusive
  <2>1. /\ OneAtATime /\ PhaseInv /\ WholeInv /\ RestoredInv /\ CalmInv /\ RetryNeverBlocked
        /\ FreshInv /\ LateInv
    BY <1>2 DEF FilesystemInv
  <2>2. OneAtATime' /\ PhaseInv' /\ WholeInv' /\ RestoredInv'
    BY <1>1, <1>2, <2>1, ApartInductive, PhaseInductive, WholeInductive, RestoredInductive
  <2>3. CalmInv' /\ RetryNeverBlocked' /\ FreshInv' /\ LateInv'
    BY <1>1, <1>2, <2>1, CalmInductive, FreshInductive, LateInductive
  <2> QED
    BY <1>1, <2>2, <2>3 DEF FilesystemInv
<1> QED
  BY <1>1, <1>2 DEF FilesystemInv

\* Whatever attempts, people and crashes do, the invariant holds.
LEMMA FilesystemInvariant == Spec => []FilesystemInv
  BY InvariantInitial, InvariantInductive, PTL DEF Spec

\* Names, contents and the progress of every attempt stay in their types, even
\* when attempts overlap.
THEOREM FilesystemTypesCorrect == Spec => []TypeOK
<1>1. FilesystemInv => TypeOK
  BY DEF FilesystemInv
<1> QED
  BY <1>1, FilesystemInvariant, PTL

\* Kept apart by the lease, killed or failing wherever they may be, attempts
\* never leave part of a file at the target (staging and atomic replace), nor
\* the prefix that a truncated snapshot holds.
THEOREM TargetStaysWhole == Exclusive => (Spec => []NoPartialTarget)
<1> SUFFICES ASSUME Exclusive PROVE Spec => []NoPartialTarget
  OBVIOUS
<1>1. FilesystemInv => NoPartialTarget
  BY DEF FilesystemInv, WholeInv, Whole, NoPartialTarget, Content, Present, Names
<1> QED
  BY <1>1, FilesystemInvariant, PTL

\* Kept apart by the lease, no later attempt takes back what an earlier one
\* restored and verify confirmed, until a person changes something.
THEOREM VerifiedRecoveryStays == Exclusive => (Spec => []VerifiedStays)
<1> SUFFICES ASSUME Exclusive PROVE Spec => []VerifiedStays
  OBVIOUS
<1>1. FilesystemInv => VerifiedStays
  BY DEF FilesystemInv, RestoredInv, VerifiedStays
<1> QED
  BY <1>1, FilesystemInvariant, PTL

\* Kept apart by the lease and undisturbed, an attempt that has sound evidence
\* and meets no failing system call is turned down only when nothing is left
\* to undo, whatever killed and failing attempts left behind.
THEOREM RetriesGetThrough == Exclusive => (Spec => []RetryNeverBlocked)
<1> SUFFICES ASSUME Exclusive PROVE Spec => []RetryNeverBlocked
  OBVIOUS
<1>1. FilesystemInv => RetryNeverBlocked
  BY DEF FilesystemInv
<1> QED
  BY <1>1, FilesystemInvariant, PTL

\* Kept apart by the lease, an attempt destroys no edit that was in place when
\* it last compared the target with its evidence, but the recorded one.
THEOREM EditsSurvive == Exclusive => (Spec => EarlierEditsSurvive)
<1> SUFFICES ASSUME Exclusive PROVE Spec => EarlierEditsSurvive
  OBVIOUS
<1>1. FilesystemInv /\ FilesystemInv' /\ [Next]_vars =>
      [\A a \in Attempts : pc'[a] # pc[a] =>
          (Findable \ Findable') \cap Edits \subseteq late[a] \cup {after}]_vars
  <2> SUFFICES ASSUME FilesystemInv, FilesystemInv', [Next]_vars,
                      NEW a \in Attempts, pc'[a] # pc[a]
               PROVE  (Findable \ Findable') \cap Edits \subseteq late[a] \cup {after}
    OBVIOUS
  <2>1. TypeOK /\ TypeOK' /\ OneAtATime /\ PhaseInv /\ LateInv
    BY DEF FilesystemInv
  <2>2. Engine(a) \/ Crash(a)
    <3>1. ASSUME NEW b \in Attempts, Engine(b) \/ Crash(b) PROVE a = b
      BY <2>1, <3>1, Solo
    <3> QED
      BY <3>1, Outside DEF Next
  <2> QED
    BY <2>1, <2>2, EditsSpared
<1> QED
  BY <1>1, FilesystemInvariant, PTL DEF Spec, EarlierEditsSurvive

===============================================================================
