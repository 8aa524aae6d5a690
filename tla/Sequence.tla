------------------------------ MODULE Sequence ------------------------------
(***************************************************************************)
(* ps_sequence (tools/sequence-tools.ts): a list of tool calls in one call.*)
(* With on_error = "rollback" a failure is followed by ps_undo back to the *)
(* history state that was current before the first step, and by a second   *)
(* look at the history: only if it shows the state it should, at the place *)
(* it should be, is the document called restored.                          *)
(*                                                                         *)
(* Photoshop is the environment: every open document has a linear history  *)
(* of at most MaxStates states with a cursor in it, an edit drops what was *)
(* undone and, at the limit, the oldest state.  Scripts are executed one   *)
(* after the other, so a script that the caller has given up on may still  *)
(* edit, but no later than the next script begins.                         *)
(*                                                                         *)
(* An action is one tool call of the sequence, as Photoshop executes it,   *)
(* with the code that follows it up to the next call.                      *)
(***************************************************************************)
EXTENDS Naturals, Sequences, FiniteSets

CONSTANTS
    Docs,        \* documents that are open
    Title,       \* Title[d]: the name Photoshop shows for d
    Names,       \* names of history states, such as "Levels"
    MaxStates,   \* length of a history: the limit in Photoshop's preferences
    MaxSteps,    \* bound: steps of a sequence
    MaxEdits,    \* bound: edits made by anyone
    MaxOthers    \* bound: what a user or another call does meanwhile

ASSUME SequenceAssumption ==
    /\ Title \in [Docs -> STRING]
    /\ MaxStates \in Nat \ {0} /\ MaxSteps \in Nat \ {0}
    /\ MaxEdits \in Nat /\ MaxStates <= MaxEdits /\ MaxOthers \in Nat

\* What a step names: a tool that only edits the active document, one of
\* HISTORY_UNSAFE_TOOLS, a tool that moves the cursor or switches documents
\* without being on that list, or nothing that is registered.
Kinds == {"plain", "listed", "unlisted", "unregistered"}
Modes == {"stop", "continue", "rollback"}
Reasons == {"none", "history_evicted", "undo_failed", "cursor_moved_backward", "document_changed"}
Places == {"idle", "refused", "capturing", "stepping", "reading", "undoing", "verifying", "done"}

VARIABLES
    history,     \* history[d]: the states of d, oldest first
    cursor,      \* cursor[d]: which of them is current
    front,       \* the active document
    edits,       \* edits made so far: what numbers them
    pending,     \* Photoshop still executes a script that was given up on
    steps,       \* the steps of the call
    onError,     \* its on_error
    pc,          \* what the call awaits
    captured,    \* capturedHistory: what was read before the first step
    delta,       \* how many states are to be undone
    entries,     \* entries: what became of each step
    failedStep,  \* failedStep: the first that failed, or was skipped; or 0
    capExceeded, \* the overall time budget was used up
    rolledBack,  \* rolledBack
    reason,      \* rollbackReason
    origin,      \* history variable: what really was current at the capture
    intruded,    \* history variable: others have acted since
    again,       \* history variable: a later state has the name of the captured one
    others       \* what others have done so far

photoshop == <<history, cursor, front, edits, pending>>
call == <<steps, onError, pc, captured, delta, entries, failedStep, capExceeded, rolledBack, reason>>
ghosts == <<origin, intruded, again, others>>
vars == <<history, cursor, front, edits, pending, steps, onError, pc, captured, delta, entries,
          failedStep, capExceeded, rolledBack, reason, origin, intruded, again, others>>

-----------------------------------------------------------------------------
(* Photoshop *)

State == [edit : 1..MaxEdits, name : Names]
Current(d) == history[d][cursor[d]]

\* What ps_inspect(what='history') reports.
Snapshot == [index |-> cursor[front], name |-> Current(front).name, title |-> Title[front]]
NoSnapshot == [index |-> 0, name |-> "", title |-> ""]

\* The history with a new state after the k-th.
Extended(h, k, new) ==
    LET states == Append(SubSeq(h, 1, k), new)
    IN  IF Len(states) > MaxStates THEN Tail(states) ELSE states

Push(d, n) ==
    LET kept == Extended(history[d], cursor[d], [edit |-> edits + 1, name |-> n])
    IN  /\ edits < MaxEdits
        /\ edits' = edits + 1
        /\ history' = [history EXCEPT ![d] = kept]
        /\ cursor' = [cursor EXCEPT ![d] = Len(kept)]
        /\ again' = (again \/ (d = origin.doc /\ n = captured.name))
        /\ UNCHANGED front

\* The active document of the start has any history; the others are new.
Init ==
    /\ front \in Docs
    /\ \E n \in 1..MaxStates : \E names \in [1..n -> Names] : \E k \in 1..n :
         /\ history = [d \in Docs |-> IF d = front THEN [i \in 1..n |-> [edit |-> i, name |-> names[i]]]
                                                   ELSE <<[edit |-> 1, name |-> names[1]]>>]
         /\ cursor = [d \in Docs |-> IF d = front THEN k ELSE 1]
         /\ edits = n
    /\ pending = FALSE
    /\ steps = <<>> /\ onError = "stop" /\ pc = "idle"
    /\ captured = NoSnapshot /\ delta = 0
    /\ entries = <<>> /\ failedStep = 0 /\ capExceeded = FALSE
    /\ rolledBack = FALSE /\ reason = "none"
    /\ origin = [doc |-> front, edit |-> 0] /\ intruded = FALSE /\ again = FALSE /\ others = 0

-----------------------------------------------------------------------------
(* The call *)

\* validateSequenceArgs: before anything runs.
Refused(s, mode) ==
    \/ \E i \in DOMAIN s : s[i] = "unregistered"
    \/ mode = "rollback" /\ \E i \in DOMAIN s : s[i] = "listed"

\* runSequence, up to its first await.
Call(s, mode) ==
    /\ pc = "idle"
    /\ steps' = s /\ onError' = mode
    /\ pc' = IF Refused(s, mode) THEN "refused" ELSE IF mode = "rollback" THEN "capturing" ELSE "stepping"
    /\ UNCHANGED <<photoshop, captured, delta, entries, failedStep, capExceeded, rolledBack, reason, ghosts>>

\* A script of the call is executed: Photoshop has come to it.
Executes == ~pending

\* The state before the first step is read, or cannot be.
Capture ==
    /\ pc = "capturing" /\ Executes
    /\ captured' = Snapshot /\ pc' = "stepping"
    /\ origin' = [doc |-> front, edit |-> Current(front).edit]
    /\ intruded' = FALSE
    /\ again' = \E i \in DOMAIN history[front] : i > cursor[front] /\ history[front][i].name = Current(front).name
    /\ UNCHANGED <<photoshop, steps, onError, delta, entries, failedStep, capExceeded, rolledBack, reason, others>>

CaptureFails ==
    /\ pc = "capturing" /\ pc' = "refused"
    /\ UNCHANGED <<photoshop, steps, onError, captured, delta, entries, failedStep, capExceeded,
                   rolledBack, reason, ghosts>>

\* What the tool of a step does before it answers, in any order.
Step == Len(entries) + 1

ToolEdits(n) ==
    /\ pc = "stepping" /\ Executes
    /\ Push(front, n)
    /\ UNCHANGED <<pending, call, origin, intruded, others>>

ToolMovesCursor(k) ==
    /\ pc = "stepping" /\ Executes /\ steps[Step] \in {"listed", "unlisted"}
    /\ k \in 1..Len(history[front])
    /\ cursor' = [cursor EXCEPT ![front] = k]
    /\ UNCHANGED <<history, front, edits, pending, call, ghosts>>

ToolSwitches(d) ==
    /\ pc = "stepping" /\ Executes /\ steps[Step] \in {"listed", "unlisted"}
    /\ front' = d
    /\ UNCHANGED <<history, cursor, edits, pending, call, ghosts>>

\* Mutant: the last failure is recorded instead.
FirstIsLast(i) == i

\* Only the first failure is recorded.
First(i) == IF failedStep = 0 THEN i ELSE failedStep

\* The loop is left, with the first failure f: a rollback is to be made, or
\* the call is over.
Leave(f) == pc' = IF onError = "rollback" /\ f # 0 THEN "reading" ELSE "done"

\* The loop goes on after the steps whose entries are given, if the time
\* budget is not used up: then the next step is skipped and the loop is left.
GoesOn(done, f) ==
    \/ /\ entries' = done /\ failedStep' = f
       /\ IF Len(done) = Len(steps) THEN Leave(f) ELSE pc' = "stepping"
       /\ UNCHANGED capExceeded
    \/ /\ Len(done) < Len(steps)
       /\ entries' = Append(done, "skipped") /\ capExceeded' = TRUE
       /\ failedStep' = IF f = 0 THEN Len(done) + 1 ELSE f
       /\ Leave(Len(done) + 1)

StepSucceeds ==
    /\ pc = "stepping" /\ Executes
    /\ GoesOn(Append(entries, "ok"), failedStep)
    /\ UNCHANGED <<photoshop, steps, onError, captured, delta, rolledBack, reason, ghosts>>

\* The tool answers with an error, or throws, or is given up on while
\* Photoshop goes on with it.
StepFails ==
    /\ pc = "stepping"
    /\ IF onError = "continue"
       THEN GoesOn(Append(entries, "failed"), First(Step))
       ELSE /\ entries' = Append(entries, "failed") /\ failedStep' = First(Step)
            /\ Leave(Step)
            /\ UNCHANGED capExceeded
    /\ pending' \in {pending, TRUE}
    /\ UNCHANGED <<history, cursor, front, edits, steps, onError, captured, delta, rolledBack, reason, ghosts>>

-----------------------------------------------------------------------------
(* performRollback *)

Ends(ok, why) ==
    /\ pc' = "done" /\ rolledBack' = ok /\ reason' = why
    /\ UNCHANGED <<steps, onError, captured, delta, entries, failedStep, capExceeded>>

\* Mutant: the distance is computed without a look at which document it is.
ReadBeforeAnywhere ==
    /\ pc = "reading" /\ Executes
    /\ \/ /\ Snapshot.index < captured.index
          /\ Ends(FALSE, "cursor_moved_backward")
       \/ /\ Snapshot.index >= captured.index
          /\ delta' = Snapshot.index - captured.index
          /\ pc' = IF delta' > 0 THEN "undoing" ELSE "verifying"
          /\ UNCHANGED <<steps, onError, captured, entries, failedStep, capExceeded, rolledBack, reason>>
    /\ UNCHANGED <<photoshop, ghosts>>

\* The distance is computed from what the history shows now.
ReadBefore ==
    /\ pc = "reading" /\ Executes
    /\ \/ /\ Snapshot.title # captured.title
          /\ Ends(FALSE, "document_changed")
       \/ /\ Snapshot.title = captured.title /\ Snapshot.index < captured.index
          /\ Ends(FALSE, "cursor_moved_backward")
       \/ /\ Snapshot.title = captured.title /\ Snapshot.index >= captured.index
          /\ delta' = Snapshot.index - captured.index
          /\ pc' = IF delta' > 0 THEN "undoing" ELSE "verifying"
          /\ UNCHANGED <<steps, onError, captured, entries, failedStep, capExceeded, rolledBack, reason>>
    /\ UNCHANGED <<photoshop, ghosts>>

\* ps_undo clamps at the first state and reports success.
UndoneTo(k) == IF k > delta THEN k - delta ELSE 1

Undo ==
    /\ pc = "undoing" /\ Executes
    /\ cursor' = [cursor EXCEPT ![front] = UndoneTo(@)]
    /\ pc' = "verifying"
    /\ UNCHANGED <<history, front, edits, pending, steps, onError, captured, delta, entries,
                   failedStep, capExceeded, rolledBack, reason, ghosts>>

\* Mutant: the name at the place is not compared.
VerifiedByPlace == Snapshot.index = captured.index

Verified == Snapshot.index = captured.index /\ Snapshot.name = captured.name

Verify ==
    /\ pc = "verifying" /\ Executes
    /\ \/ Snapshot.title # captured.title /\ Ends(FALSE, "document_changed")
       \/ Snapshot.title = captured.title /\ ~Verified /\ Ends(FALSE, "history_evicted")
       \/ Snapshot.title = captured.title /\ Verified /\ Ends(TRUE, "none")
    /\ UNCHANGED <<photoshop, ghosts>>

\* A call of the rollback fails; the undo may have been executed all the same.
RollbackFails ==
    /\ \/ pc \in {"reading", "verifying"} /\ UNCHANGED cursor
       \/ pc = "undoing" /\ Executes /\ cursor' = [cursor EXCEPT ![front] = UndoneTo(@)]
       \/ pc = "undoing" /\ UNCHANGED cursor
    /\ Ends(FALSE, "undo_failed")
    /\ UNCHANGED <<history, front, edits, pending, ghosts>>

-----------------------------------------------------------------------------
(* The environment *)

\* What happens before and after the call is of no interest.
Lasts == pc \notin {"idle", "refused", "done"}

\* Photoshop goes on with what was given up on, and is through with it.
LateEdit(n) == Lasts /\ pending /\ Push(front, n) /\ UNCHANGED <<pending, call, origin, intruded, others>>
Answers == Lasts /\ pending /\ pending' = FALSE
           /\ UNCHANGED <<history, cursor, front, edits, call, ghosts>>

\* A user, or another tool call, edits or switches documents.
Intrude == Lasts /\ others < MaxOthers /\ others' = others + 1 /\ intruded' = TRUE
OtherEdits(n) == Intrude /\ Push(front, n) /\ UNCHANGED <<pending, call, origin>>
OtherSwitches(d) == Intrude /\ d # front /\ front' = d
                    /\ UNCHANGED <<history, cursor, edits, pending, call, origin, again>>

Next ==
    \/ \E n \in 1..MaxSteps : \E s \in [1..n -> Kinds], mode \in Modes : Call(s, mode)
    \/ Capture \/ CaptureFails
    \/ \E n \in Names : ToolEdits(n) \/ LateEdit(n) \/ OtherEdits(n)
    \/ \E k \in 1..MaxStates : ToolMovesCursor(k)
    \/ \E d \in Docs : ToolSwitches(d) \/ OtherSwitches(d)
    \/ StepSucceeds \/ StepFails
    \/ ReadBefore \/ Undo \/ Verify \/ RollbackFails
    \/ Answers

Spec == Init /\ [][Next]_vars

-----------------------------------------------------------------------------
(* Properties *)

\* Every history has a current state.
HistoriesOK ==
    /\ \A d \in Docs : /\ history[d] \in Seq(State)
                       /\ cursor[d] \in 1..Len(history[d])
                       /\ Len(history[d]) <= MaxStates
    /\ DOMAIN history = Docs /\ DOMAIN cursor = Docs
    /\ front \in Docs /\ edits \in 1..MaxEdits /\ pending \in BOOLEAN

\* A call that captured nothing undoes nothing.
CallOK ==
    /\ steps \in Seq(Kinds) /\ onError \in Modes /\ pc \in Places
    /\ captured = NoSnapshot \/ captured \in [index : 1..MaxStates, name : Names, title : {Title[d] : d \in Docs}]
    /\ delta \in 0..MaxStates
    /\ entries \in Seq({"ok", "failed", "skipped"}) /\ Len(entries) <= Len(steps)
    /\ failedStep \in 0..MaxSteps /\ capExceeded \in BOOLEAN
    /\ rolledBack \in BOOLEAN /\ reason \in Reasons
    /\ pc \in {"reading", "undoing", "verifying"} => captured # NoSnapshot

\* Histories and the call are well formed.
TypeOK == HistoriesOK /\ CallOK

Restored == front = origin.doc /\ Current(front).edit = origin.edit

\* A call that reports the document rolled back has restored it: the active
\* document is the one of the start, at the edit it was at, whatever the steps
\* did, failed or left unfinished, and although the history may have dropped
\* states meanwhile.  Two excuses: others acted, which the tool's description
\* rules out, and a later state with the name of the captured one: once the
\* history is shifted or rewritten, index and name cannot tell them apart.
RollbackIsTrue ==
    [][pc # "done" /\ pc' = "done" /\ rolledBack' => Restored' \/ intruded \/ again]_vars

\* A rollback never goes too far: unless others act, its undo leaves every
\* document but the captured one alone, and never reaches back behind the
\* state it is to restore.
UndoesOnlyItsOwn ==
    [][pc = "undoing" /\ cursor' # cursor /\ ~intruded =>
          /\ front = origin.doc
          /\ Current(front)'.edit >= origin.edit]_vars

\* buildMessage, and the count of steps that ran.
ranSteps == IF capExceeded THEN Len(entries) - 1 ELSE Len(entries)
Message ==
    IF capExceeded /\ failedStep # 0 THEN "over_budget"
    ELSE IF failedStep = 0 THEN "completed"
    ELSE IF onError = "continue" THEN "completed_with_failure"
    ELSE "stopped"

\* What the call says became of the steps: it is the first failure that is
\* named, all steps before it succeeded, "completed" means all ran, and only
\* steps that ran are counted.  A step named as having been too late never
\* ran, unless an earlier failure was passed over and is named instead.
ReportIsTrue ==
    pc = "done" =>
        /\ ranSteps = Cardinality({i \in DOMAIN entries : entries[i] # "skipped"})
        /\ \A i \in 1..Len(entries) : i < failedStep \/ failedStep = 0 => entries[i] = "ok"
        /\ Message \in {"completed", "completed_with_failure"} => ranSteps = Len(steps)
        /\ Message = "stopped" => failedStep = ranSteps /\ entries[failedStep] = "failed"
        /\ Message = "over_budget" =>
             entries[failedStep] = "skipped" \/ (onError = "continue" /\ entries[failedStep] = "failed")

\* Histories and the call are well formed, and what the call reports is true.
SequenceInv == TypeOK /\ ReportIsTrue

=============================================================================
