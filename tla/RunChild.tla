------------------------------ MODULE RunChild ------------------------------
(***************************************************************************)
(* One script run by a platform runner: runOnce (windows-runner.ts) writes *)
(* the script into a private directory, spawns a child process through     *)
(* runChildWithTimeout (run-child.ts), waits for it to exit and removes    *)
(* the directory again.  The hard timeout and the output cap do not settle *)
(* the promise: they kill the child, SIGTERM first and SIGKILL after a     *)
(* grace period, and the promise settles when the child has exited.        *)
(*                                                                         *)
(* A run is identified by the task it belongs to.  Which runs exist at the *)
(* same time is decided by the module that starts them (ScriptQueue).      *)
(***************************************************************************)

CONSTANT Tasks     \* the identities of the runs

VARIABLE child     \* child[t]: the state of task t's run

(***************************************************************************)
(* The phases of a run:                                                    *)
(*   idle       runOnce has not been called                                *)
(*   preparing  the directory and the script files are being written       *)
(*   alive      the child process exists                                   *)
(*   cleaning   runChildWithTimeout has settled (or the preparation has    *)
(*              failed); runOnce awaits the removal of the directory       *)
(*   settled    the promise runOnce returned has settled with outcome      *)
(***************************************************************************)
Phases   == {"idle", "preparing", "alive", "cleaning", "settled"}
Outcomes == {"none", "ok", "error", "timeout", "overflow"}

Runs == [phase      : Phases,
         signal     : {"none", "term", "kill"},  \* strongest signal sent
         timedOut   : BOOLEAN,
         overflowed : BOOLEAN,
         outcome    : Outcomes]

NewRun == [phase |-> "idle", signal |-> "none", timedOut |-> FALSE,
           overflowed |-> FALSE, outcome |-> "none"]

RunTypeOK == child \in [Tasks -> Runs]

RunInit == child = [t \in Tasks |-> NewRun]

(***************************************************************************)
(* The tasks whose run has been started and has not settled.               *)
(***************************************************************************)
Busy(t) == child[t].phase \in {"preparing", "alive", "cleaning"}

(***************************************************************************)
(* spawn() succeeded: listeners attached, kill timer armed.                *)
(***************************************************************************)
Spawn(t) ==
    /\ child[t].phase = "preparing"
    /\ child' = [child EXCEPT ![t].phase = "alive"]

(***************************************************************************)
(* TempDir.create or a write failed, spawn threw, or the child reported    *)
(* 'error' because it could not be spawned.                                *)
(***************************************************************************)
SpawnFails(t) ==
    /\ child[t].phase = "preparing"
    /\ child' = [child EXCEPT ![t].phase = "cleaning", ![t].outcome = "error"]

(***************************************************************************)
(* killNow: mark the reason and send SIGTERM.  The second call is possible *)
(* (the timeout after an overflow) and does not weaken a signal sent.      *)
(***************************************************************************)
AfterTerm(r) == IF r.signal = "none" THEN "term" ELSE r.signal

KillTimer(t) ==
    /\ child[t].phase = "alive"
    /\ ~child[t].timedOut
    /\ child' = [child EXCEPT ![t].timedOut = TRUE,
                              ![t].signal = AfterTerm(child[t])]

Overflow(t) ==
    /\ child[t].phase = "alive"
    /\ ~child[t].timedOut
    /\ ~child[t].overflowed
    /\ child' = [child EXCEPT ![t].overflowed = TRUE,
                              ![t].signal = AfterTerm(child[t])]

\* Mutant: SIGTERM once more, never SIGKILL.
EscalateToTerm(t) ==
    /\ child[t].phase = "alive"
    /\ child[t].signal = "term"
    /\ child' = [child EXCEPT ![t].signal = "term"]

(***************************************************************************)
(* The grace period is over and the child is still there.                  *)
(***************************************************************************)
Escalate(t) ==
    /\ child[t].phase = "alive"
    /\ child[t].signal = "term"
    /\ child' = [child EXCEPT ![t].signal = "kill"]

\* Mutant: only the exit code and the output decide.
ExitOutcomesByCode(r) == {"ok", "error"}

(***************************************************************************)
(* The child exits, by itself or because of a signal.  The reason recorded *)
(* by killNow decides the outcome, the timeout before the overflow; only   *)
(* without one is the output decoded, into a result or an ERROR: envelope. *)
(***************************************************************************)
ExitOutcomes(r) ==
    IF r.timedOut THEN {"timeout"}
    ELSE IF r.overflowed THEN {"overflow"}
    ELSE {"ok", "error"}

Exit(t) ==
    /\ child[t].phase = "alive"
    /\ \E o \in ExitOutcomes(child[t]) :
         child' = [child EXCEPT ![t].phase = "cleaning", ![t].outcome = o]

(***************************************************************************)
(* The steps of a started run, up to the settling of its promise, which    *)
(* belongs to whoever awaits it.                                           *)
(***************************************************************************)
RunStep(t) ==
    \/ Spawn(t)
    \/ SpawnFails(t)
    \/ KillTimer(t)
    \/ Overflow(t)
    \/ Escalate(t)
    \/ Exit(t)

=============================================================================
