-------------------------- MODULE FilesystemRecovery --------------------------
(***************************************************************************)
(* FilesystemRecoveryAdapter: attempts to undo what an agent did to one    *)
(* file, while people go on working in the same directory, any system call *)
(* may fail and attempts may be killed between any two.                    *)
(*                                                                         *)
(* A name leads to a file and a file has bytes, so that a file handle      *)
(* keeps writing to its file wherever that file has been moved.  Every     *)
(* read or write of the file system that the adapter performs is a step.   *)
(* The hash of a file stands for its bytes; a snapshot of a file above the *)
(* adapter's limit holds, and hashes, only a prefix.  Permissions and      *)
(* timestamps are left out: they are applied after the swap and decide     *)
(* nothing.                                                                *)
(***************************************************************************)
EXTENDS FiniteSets

CONSTANTS Attempts,   \* calls of execute_compensation, for the same action
          Edits,      \* what people may write, each at most once
          Sizable,    \* bound: the contents that may exceed max_file_size_bytes
          Exclusive   \* attempts do not overlap: the plan's lease is kept

ASSUME ExclusiveAssumption == Exclusive \in BOOLEAN
ASSUME SizableAssumption == Sizable \subseteq Edits \cup {"before", "after"}

VARIABLES
    op,          \* what the agent did to the target
    kind,        \* type recorded in the before-snapshot: file or symlink
    large,       \* the contents above max_file_size_bytes
    dir,         \* which file each name leads to
    bytes,       \* the content of each file
    preserved,   \* files moved aside by _clear_staging_path
    after,       \* what the after-snapshot saw, "none" before it is captured
    pc,          \* what each attempt does next
    result,      \* the execution state it reported
    verified,    \* whether verify confirmed it
    \* History variables: they record what happened and guard nothing.
    unused,      \* edits nobody has made yet
    disturbed,   \* a person changed something in the directory
    late,        \* edits made since the attempt last compared the file
    failed,      \* attempts that met a failing system call
    restored     \* a verified attempt, and nobody touched anything since

situation == <<op, kind, large>>
disk == <<dir, bytes, preserved>>
control == <<pc, result, verified>>
history == <<unused, disturbed, late, failed, restored>>
vars == <<situation, disk, after, control, history>>

NoFile == "absent"
AgentFile == "agent_file"
Files == Attempts \cup Edits \cup {AgentFile}
Names == {"target", "staging", "moved"}
Contents == Edits \cup {"before", "after", "partial", "prefix"}

\* What a person writes is told apart from everything else.
ASSUME EditsAssumption ==
    /\ Attempts \cap Edits = {}
    /\ {AgentFile, NoFile} \cap (Attempts \cup Edits) = {}
    /\ Edits \cap {"before", "after", "partial", "prefix",
                   "missing", "unreadable", "none"} = {}

\* The operations of _determine_compensation_operation, by action type.
Operation == [modify |-> "restore_content", create |-> "delete_file",
              delete |-> "restore_deleted_file", rename |-> "rename_back"]
Undo == Operation[op]

Present(n) == dir[n] # NoFile
Content(n) == IF Present(n) THEN bytes[dir[n]] ELSE "missing"

\* What a snapshot of a content holds and hashes: a prefix of a large file.
Captured(c) == IF c \in large THEN "prefix" ELSE c
BeforeHash == Captured("before")
Truncated == "before" \in large

\* A snapshot of the target; _capture_file_snapshot turns an error into one.
Snapshots == {Content("target"), "unreadable"}

\* What people wrote and can still find, under some name or moved aside.
Findable == {bytes[dir[n]] : n \in {m \in Names : Present(m)}}
            \cup {bytes[f] : f \in preserved}

Working == {a \in Attempts : pc[a] \notin {"idle", "done", "dead"}}

TypeOK ==
    /\ op \in DOMAIN Operation
    /\ kind \in {"file", "symlink"}
    /\ large \subseteq Edits \cup {"before", "after"}
    /\ dir \in [Names -> Files \cup {NoFile}]
    /\ bytes \in [Files -> Contents]
    /\ preserved \subseteq Files
    /\ after \in Contents \cup {"none", "missing", "unreadable"}
    /\ pc \in [Attempts -> {"idle", "conflict_gate", "check", "clear", "open",
                            "write", "staged_check", "recheck", "swap",
                            "post_check", "unlink", "rename", "link",
                            "verify", "done", "dead"}]
    /\ result \in [Attempts -> {"none", "SUCCEEDED", "FAILED", "BLOCKED",
                                "GATED"}]
    /\ verified \in [Attempts -> BOOLEAN]
    /\ unused \subseteq Edits
    /\ disturbed \in BOOLEAN /\ restored \in BOOLEAN
    /\ late \in [Attempts -> SUBSET Edits]
    /\ failed \subseteq Attempts

(***************************************************************************)
(* The agent has acted and the pipeline recorded the state before it.      *)
(***************************************************************************)
Init ==
    /\ op \in DOMAIN Operation
    /\ kind \in {"file", "symlink"}
    /\ large \in SUBSET Sizable
    /\ kind = "symlink" => op = "delete" /\ ~Truncated
    /\ op = "create" => ~Truncated
    /\ dir = [n \in Names |->
                 IF \/ n = "target" /\ op \in {"modify", "create"}
                    \/ n = "moved" /\ op = "rename" THEN AgentFile ELSE NoFile]
    /\ bytes = [f \in Files |-> IF f \in Edits THEN f
                                ELSE IF f \in Attempts THEN "partial"
                                ELSE IF op \in {"modify", "create"} THEN "after"
                                ELSE "before"]
    /\ preserved = {}
    /\ after = "none"
    /\ pc = [a \in Attempts |-> "idle"]
    /\ result = [a \in Attempts |-> "none"]
    /\ verified = [a \in Attempts |-> FALSE]
    /\ unused = Edits
    /\ disturbed = FALSE
    /\ late = [a \in Attempts |-> Edits]
    /\ failed = {}
    /\ restored = FALSE

(***************************************************************************)
(* People.  They write a file in place, save it under its name as a new    *)
(* file, or delete it, at any of the names.                                *)
(***************************************************************************)
Touch ==
    /\ disturbed' = TRUE
    /\ restored' = FALSE
    /\ UNCHANGED <<situation, preserved, after, control, failed>>

Made(e) == /\ unused' = unused \ {e}
           /\ late' = [a \in Attempts |-> late[a] \cup {e}]

EditInPlace(n, e) ==
    /\ Present(n) /\ e \in unused
    /\ bytes' = [bytes EXCEPT ![dir[n]] = e]
    /\ Made(e) /\ Touch
    /\ UNCHANGED dir

SaveAs(n, e) ==
    /\ e \in unused
    /\ dir' = [dir EXCEPT ![n] = e]
    /\ Made(e) /\ Touch
    /\ UNCHANGED bytes

Delete(n) ==
    /\ Present(n)
    /\ dir' = [dir EXCEPT ![n] = NoFile]
    /\ Touch
    /\ UNCHANGED <<bytes, unused, late>>

(***************************************************************************)
(* capture_recovery_evidence: the after-snapshot is what can be read of    *)
(* the target at the time of the capture.                                  *)
(***************************************************************************)
CaptureEvidence ==
    /\ after = "none"
    /\ after' \in Snapshots
    /\ UNCHANGED <<situation, disk, control, history>>

(***************************************************************************)
(* The verdicts detect_drift and check_conflicts give on a snapshot they   *)
(* take.  Snapshots are compared with sizes and times, so two large files  *)
(* are told apart.  The snapshot that check_conflicts builds for a deleted *)
(* file lacks keys every captured one has, so it equals none.              *)
(***************************************************************************)
NoDrift(c) == c = CASE op = "delete" -> "missing"
                    [] op = "rename" -> "before"
                    [] OTHER         -> after
NoConflict(c) == op # "delete" /\ c = after

Goto(a, label) == /\ pc' = [pc EXCEPT ![a] = label]
                  /\ UNCHANGED <<result, verified>>

\* execute_compensation returns; both callers go on to verify.
Report(a, state) == /\ pc' = [pc EXCEPT ![a] = "verify"]
                    /\ result' = [result EXCEPT ![a] = state]
                    /\ UNCHANGED verified

\* The caller turns the action down before execute_compensation.
Gated(a) == /\ pc' = [pc EXCEPT ![a] = "done"]
            /\ result' = [result EXCEPT ![a] = "GATED"]
            /\ UNCHANGED verified

\* The attempt has just compared the target with the evidence.
Compared(a) == late' = [late EXCEPT ![a] = {}]

MayStart(a) == /\ pc[a] = "idle" /\ after # "none"
               /\ Exclusive => Working = {}

Unhistoric == UNCHANGED <<unused, disturbed, late, failed, restored>>

\* A gate's snapshot of the target went wrong.
Noted(a, c) == failed' = IF c = "unreadable" THEN failed \cup {a} ELSE failed

\* The orchestrator and the planner ask for drift, then for conflicts.  The
\* bridge asks the other way round; its actions are all modifications, for
\* which both are the same comparison.
StartGated(a) ==
    /\ MayStart(a)
    /\ \E c \in Snapshots :
          /\ IF NoDrift(c) THEN Goto(a, "conflict_gate") ELSE Gated(a)
          /\ Noted(a, c)
    /\ UNCHANGED <<situation, disk, after, unused, disturbed, late, restored>>

ConflictGate(a) ==
    /\ pc[a] = "conflict_gate"
    /\ \E c \in Snapshots :
          /\ IF NoConflict(c) THEN Goto(a, "check") ELSE Gated(a)
          /\ IF c = "unreadable" THEN UNCHANGED late ELSE Compared(a)
          /\ Noted(a, c)
    /\ UNCHANGED <<situation, disk, after, unused, disturbed, restored>>

\* The certification probes call execute_compensation directly.
StartDirect(a) ==
    /\ MayStart(a)
    /\ Goto(a, "check")
    /\ UNCHANGED <<situation, disk, after>> /\ Unhistoric

(***************************************************************************)
(* execute_compensation: the checks each operation starts with.            *)
(***************************************************************************)
\* No hash is recorded of a target that was missing or could not be read.
Unrecorded == after \in {"missing", "unreadable"}

\* A recorded hash must be that of the whole file.
MatchesEvidence == Unrecorded \/ Content("target") = Captured(after)

CheckRestoreContent(a) ==
    /\ pc[a] = "check" /\ Undo = "restore_content"
    /\ \/ (~Present("target") \/ Truncated) /\ Report(a, "FAILED")
       \/ /\ Present("target") /\ ~Truncated
          /\ IF MatchesEvidence THEN Goto(a, "clear") ELSE Report(a, "BLOCKED")
    /\ IF Unrecorded THEN UNCHANGED late ELSE Compared(a)
    /\ UNCHANGED <<situation, disk, after, unused, disturbed, failed, restored>>

CheckDeleteFile(a) ==
    /\ pc[a] = "check" /\ Undo = "delete_file"
    /\ \/ ~Present("target") /\ Report(a, "SUCCEEDED")
       \/ /\ Present("target")
          /\ IF MatchesEvidence THEN Goto(a, "unlink") ELSE Report(a, "BLOCKED")
    /\ IF Unrecorded THEN UNCHANGED late ELSE Compared(a)
    /\ UNCHANGED <<situation, disk, after, unused, disturbed, failed, restored>>

CheckRestoreDeleted(a) ==
    /\ pc[a] = "check" /\ Undo = "restore_deleted_file"
    /\ \/ Present("target") /\ Report(a, "BLOCKED")
       \/ ~Present("target") /\ Truncated /\ Report(a, "FAILED")
       \/ ~Present("target") /\ ~Truncated /\ Goto(a, "clear")
    /\ Compared(a)
    /\ UNCHANGED <<situation, disk, after, unused, disturbed, failed, restored>>

CheckRenameBack(a) ==
    /\ pc[a] = "check" /\ Undo = "rename_back"
    /\ \/ /\ Present("moved")
          /\ IF Present("target") /\ Content("target") # BeforeHash
             THEN Report(a, "BLOCKED") ELSE Goto(a, "rename")
       \/ ~Present("moved") /\ Present("target") /\ Report(a, "SUCCEEDED")
       \/ ~Present("moved") /\ ~Present("target") /\ Report(a, "FAILED")
    /\ Compared(a)
    /\ UNCHANGED <<situation, disk, after, unused, disturbed, failed, restored>>

(***************************************************************************)
(* Staging.  An exception anywhere below unlinks whatever is at the        *)
(* staging path and reports FAILED.                                        *)
(***************************************************************************)
Discard == dir' = [dir EXCEPT !["staging"] = NoFile]

\* Variants: the leftover is deleted; or it makes the attempt fail.
ClearByUnlink(a) ==
    /\ pc[a] = "clear"
    /\ Discard
    /\ Goto(a, IF kind = "symlink" THEN "link" ELSE "open")
    /\ UNCHANGED <<situation, bytes, preserved, after>> /\ Unhistoric

ClearRefuses(a) ==
    /\ pc[a] = "clear"
    /\ IF Present("staging") THEN Report(a, "FAILED")
       ELSE Goto(a, IF kind = "symlink" THEN "link" ELSE "open")
    /\ UNCHANGED <<situation, disk, after>> /\ Unhistoric

ClearStaging(a) ==
    /\ pc[a] = "clear"
    /\ dir' = [dir EXCEPT !["staging"] = NoFile]
    /\ preserved' = IF Present("staging") THEN preserved \cup {dir["staging"]}
                    ELSE preserved
    /\ Goto(a, IF kind = "symlink" THEN "link" ELSE "open")
    /\ UNCHANGED <<situation, bytes, after>> /\ Unhistoric

\* os.symlink refuses an existing target and reports success unchecked.
RecreateLink(a) ==
    /\ pc[a] = "link"
    /\ \/ /\ ~Present("target")
          /\ dir' = [dir EXCEPT !["target"] = a]
          /\ bytes' = [bytes EXCEPT ![a] = "before"]
          /\ Report(a, "SUCCEEDED")
       \/ Present("target") /\ Discard /\ Report(a, "FAILED") /\ UNCHANGED bytes
    /\ UNCHANGED <<situation, preserved, after>> /\ Unhistoric

\* Variant: the target itself is truncated and rewritten.
OpenTarget(a) ==
    /\ pc[a] = "open"
    /\ dir' = [dir EXCEPT !["target"] = a]
    /\ Goto(a, "write")
    /\ UNCHANGED <<situation, bytes, preserved, after>> /\ Unhistoric

\* os.open with O_EXCL creates an empty file.
OpenStaging(a) ==
    /\ pc[a] = "open"
    /\ \/ /\ ~Present("staging")
          /\ dir' = [dir EXCEPT !["staging"] = a]
          /\ Goto(a, "write")
       \/ Present("staging") /\ Discard /\ Report(a, "FAILED")
    /\ UNCHANGED <<situation, bytes, preserved, after>> /\ Unhistoric

\* The bytes go to the file that was opened, under whatever name it is now.
WriteStaging(a) ==
    /\ pc[a] = "write"
    /\ bytes' = [bytes EXCEPT ![a] = Captured("before")]
    /\ Goto(a, IF Undo = "restore_content" THEN "swap" ELSE "staged_check")
    /\ UNCHANGED <<situation, dir, preserved, after>> /\ Unhistoric

CheckStaged(a) ==
    /\ pc[a] = "staged_check"
    /\ IF Content("staging") = BeforeHash
       THEN Goto(a, "recheck") /\ UNCHANGED dir
       ELSE Discard /\ Report(a, "FAILED")
    /\ UNCHANGED <<situation, bytes, preserved, after>> /\ Unhistoric

\* The target is looked at once more; of the staging path nothing is learnt.
RecheckTarget(a) ==
    /\ pc[a] = "recheck"
    /\ IF Present("target") THEN Discard /\ Report(a, "BLOCKED")
       ELSE Goto(a, "swap") /\ UNCHANGED dir
    /\ late' = [late EXCEPT ![a] = @ \cap {Content("staging")}]
    /\ UNCHANGED <<situation, bytes, preserved, after, unused, disturbed, failed, restored>>

Swap(a) ==
    /\ pc[a] = "swap"
    /\ \/ /\ Present("staging")
          /\ dir' = [dir EXCEPT !["target"] = dir["staging"], !["staging"] = NoFile]
          /\ Goto(a, "post_check")
       \/ ~Present("staging") /\ Discard /\ Report(a, "FAILED")
    /\ UNCHANGED <<situation, bytes, preserved, after>> /\ Unhistoric

PostCheck(a) ==
    /\ pc[a] = "post_check"
    /\ \/ /\ Present("target")
          /\ Report(a, IF Content("target") = BeforeHash THEN "SUCCEEDED" ELSE "FAILED")
          /\ UNCHANGED dir
       \/ ~Present("target") /\ Discard /\ Report(a, "FAILED")
    /\ UNCHANGED <<situation, bytes, preserved, after>> /\ Unhistoric

(***************************************************************************)
(* The two operations that need no staging.                                *)
(***************************************************************************)
\* Variant: a file already gone is reported under a state of its own.
UnlinkOrMissing(a) ==
    /\ pc[a] = "unlink"
    /\ dir' = [dir EXCEPT !["target"] = NoFile]
    /\ Report(a, IF Present("target") THEN "SUCCEEDED" ELSE "MISSING")
    /\ UNCHANGED <<situation, bytes, preserved, after>> /\ Unhistoric

Unlink(a) ==
    /\ pc[a] = "unlink"
    /\ dir' = [dir EXCEPT !["target"] = NoFile]
    /\ Report(a, IF Present("target") THEN "SUCCEEDED" ELSE "FAILED")
    /\ UNCHANGED <<situation, bytes, preserved, after>> /\ Unhistoric

RenameBack(a) ==
    /\ pc[a] = "rename"
    /\ \/ /\ Present("moved")
          /\ dir' = [dir EXCEPT !["target"] = dir["moved"], !["moved"] = NoFile]
          /\ Report(a, "SUCCEEDED")
       \/ ~Present("moved") /\ Report(a, "FAILED") /\ UNCHANGED dir
    /\ UNCHANGED <<situation, bytes, preserved, after>> /\ Unhistoric

(***************************************************************************)
(* A system call of execute_compensation fails: it has no effect, except   *)
(* that a write may leave part of its bytes, or all of them when the fsync *)
(* fails.  Once the staging path was cleared the handler also unlinks what *)
(* is there, if it can.                                                    *)
(***************************************************************************)
Staging == {"link", "open", "write", "staged_check", "recheck", "swap", "post_check"}

IOFails(a) ==
    /\ pc[a] \in {"check", "clear", "unlink", "rename"} \cup Staging
    /\ dir' = dir \/ (pc[a] \in Staging /\ Discard)
    /\ \/ bytes' = bytes
       \/ /\ pc[a] = "write"
          /\ \E c \in {"partial", Captured("before")} : bytes' = [bytes EXCEPT ![a] = c]
    /\ Report(a, "FAILED")
    /\ failed' = failed \cup {a}
    /\ UNCHANGED <<situation, preserved, after, unused, disturbed, late, restored>>

(***************************************************************************)
(* verify inspects the file system again; a caller reports a recovery only *)
(* when the operation succeeded and verify agrees.                         *)
(***************************************************************************)
IsUndone == CASE Undo = "delete_file" -> ~Present("target")
              [] Undo = "rename_back" -> Content("target") = BeforeHash /\ ~Present("moved")
              [] OTHER -> ~Truncated /\ Content("target") = "before"

\* Variant: the operation's own report is believed.
VerifyByReport(a) ==
    /\ pc[a] = "verify"
    /\ pc' = [pc EXCEPT ![a] = "done"]
    /\ verified' = [verified EXCEPT ![a] = result[a] = "SUCCEEDED"]
    /\ restored' = (restored \/ verified'[a])
    /\ UNCHANGED <<situation, disk, after, result, unused, disturbed, late, failed>>

Verify(a) ==
    /\ pc[a] = "verify"
    /\ pc' = [pc EXCEPT ![a] = "done"]
    /\ verified' = [verified EXCEPT ![a] = result[a] = "SUCCEEDED" /\ IsUndone]
    /\ restored' = (restored \/ verified'[a])
    /\ UNCHANGED <<situation, disk, after, result, unused, disturbed, late, failed>>

\* The file cannot be inspected: nothing is verified.
InspectionFails(a) ==
    /\ pc[a] = "verify"
    /\ Goto(a, "done")
    /\ failed' = failed \cup {a}
    /\ UNCHANGED <<situation, disk, after, unused, disturbed, late, restored>>

\* The process is killed: its handle is closed, its files stay.
Crash(a) ==
    /\ a \in Working
    /\ Goto(a, "dead")
    /\ UNCHANGED <<situation, disk, after>> /\ Unhistoric

Execute(a) ==
    \/ CheckRestoreContent(a) \/ CheckDeleteFile(a)
    \/ CheckRestoreDeleted(a) \/ CheckRenameBack(a)
    \/ ClearStaging(a) \/ RecreateLink(a) \/ OpenStaging(a) \/ WriteStaging(a)
    \/ CheckStaged(a) \/ RecheckTarget(a) \/ Swap(a) \/ PostCheck(a)
    \/ Unlink(a) \/ RenameBack(a) \/ IOFails(a)

Engine(a) == StartGated(a) \/ ConflictGate(a) \/ StartDirect(a)
             \/ Execute(a) \/ Verify(a) \/ InspectionFails(a)

People == \E n \in Names : \/ Delete(n)
                           \/ \E e \in Edits : EditInPlace(n, e) \/ SaveAs(n, e)

Next == \/ CaptureEvidence
        \/ People
        \/ \E a \in Attempts : Engine(a) \/ Crash(a)

Spec == Init /\ [][Next]_vars
-------------------------------------------------------------------------------
(***************************************************************************)
(* Properties.                                                             *)
(***************************************************************************)
\* An edit that was in place when an attempt last compared the target with
\* its evidence is never destroyed by that attempt: it stays where it is, or
\* moves with its file, or is moved aside.  Only the edit that the evidence
\* itself recorded as the state to undo may go (_clear_staging_path, and the
\* comparisons before each unlink, rename and replace).
EarlierEditsSurvive ==
    [][\A a \in Attempts : pc'[a] # pc[a] =>
          (Findable \ Findable') \cap Edits \subseteq late[a] \cup {after}]_vars

\* The target never holds part of a file, wherever an attempt is killed or
\* fails (staging and atomic replace), and however much of the original its
\* snapshot holds (_truncated_before_state_error).
NoPartialTarget == Content("target") \notin {"partial", "prefix"}

\* Once a recovery was reported as verified the target stays as it was before
\* the agent acted until a person changes it: no later attempt, repeated or
\* left over, takes it back.
VerifiedStays == restored => IsUndone

\* The snapshots hold whole files, and the one after the action was readable.
SoundEvidence == ~Truncated /\ after \notin large \cup {"unreadable"}

\* Without outside interference, and given sound evidence, an attempt whose
\* own system calls all succeed is turned down only when nothing is left to
\* undo: what killed and failing attempts leave behind blocks no retry (the
\* claim of _execute_restore_deleted_file, lines 2331-2334).  The drift and
\* conflict gates keep this only for edits and creations.
RetryNeverBlocked ==
    ~disturbed /\ SoundEvidence =>
        \A a \in Attempts \ failed :
            \/ result[a] \in {"FAILED", "BLOCKED"}
            \/ result[a] = "GATED" /\ op \in {"modify", "create"}
            => IsUndone
===============================================================================
