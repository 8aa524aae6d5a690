------------------------- MODULE PhotoshopConnection -------------------------
(***************************************************************************)
(* The server's single handle on the local Photoshop                       *)
(* (platform/connection.ts) with the runner's launch (windows-runner.ts),  *)
(* over the shared script queue, and Photoshop itself as the environment.  *)
(* The queue appears as what ScriptQueue is shown to implement: SerialLine.*)
(*                                                                         *)
(* A call of executeScript detects the install, makes sure Photoshop runs, *)
(* waits for it to answer if an earlier script timed out, and runs its     *)
(* script.  Several calls may be in flight: nothing above the connection   *)
(* serialises tool calls, only the queue underneath it serialises scripts. *)
(*                                                                         *)
(* The JavaScript event loop drains its microtasks before the next         *)
(* callback: a call whose awaited promise has settled continues before     *)
(* any timer, child exit or new call is seen.  Runnable names such calls   *)
(* and every other step is guarded by there being none.                    *)
(***************************************************************************)
EXTENDS Naturals, FiniteSets, Sequences

CONSTANTS
    Calls,          \* the calls of executeScript
    Checkers,       \* those whose tool checks, after a timeout, whether the
                    \* work was done after all (open document, save PSD)
    MaxInFlight,    \* how many calls the clients keep in flight at a time
    HostFailures    \* what may fail for reasons of the host: the "probe" for
                    \* the process, a "launch", a "script" (its file cannot be
                    \* written, its child not be spawned, or lost)

ASSUME CallsAssumption == IsFiniteSet(Calls)
ASSUME CheckersAssumption == Checkers \subseteq Calls
ASSUME MaxInFlightAssumption == MaxInFlight \in Nat \ {0}
ASSUME HostFailuresAssumption == HostFailures \subseteq {"probe", "launch", "script"}

(***************************************************************************)
(* The scripts of a call: a readiness probe of the launch (the bound is    *)
(* one; the code polls for 5 s), the "'ready';" probe, and its own script. *)
(* The check after a timeout is a second attempt of the same kind.         *)
(***************************************************************************)
Attempts == {"first", "check"}
Kinds    == {"probe", "settle", "script"}
Scripts  == Calls \X Attempts \X Kinds

VARIABLES
    line, came, answer,     \* the script queue, see SerialLine
    found,          \* photoshopInfo is not null
    detections,     \* detect() calls in flight; detectInFlight when not 0
    latch,          \* now < runningLatchUntil
    awaiting,       \* awaitingAnswerAfterTimeout
    pc,             \* where each call is
    attempt,        \* which attempt it is on
    result,         \* what each call returned or threw
    psUp,           \* Photoshop is running
    executing,      \* the script Photoshop executes, as a set
    reply           \* what Photoshop has told the child in service

lineVars   == <<line, came, answer>>
connVars   == <<found, detections, latch, awaiting>>
callVars   == <<pc, attempt, result>>
psVars     == <<psUp, executing, reply>>
vars       == <<lineVars, connVars, callVars, psVars>>

Answers == {"ok", "error", "timeout", "overflow", "watchdog"}

Queue == INSTANCE SerialLine WITH Tasks <- Scripts

Places  == {"idle", "detecting", "probing", "launching", "settling",
             "running", "checking", "done"}
Results == {"none", "ok", "error", "timeout", "notfound", "busy"}
Replies == {"none", "answered", "lost"}

TypeOK ==
    /\ line \in Seq(Scripts)
    /\ came \in SUBSET Scripts
    /\ answer \in [Scripts -> SUBSET Answers]
    /\ found \in BOOLEAN
    /\ detections \in {0, 1}      \* never two at a time
    /\ latch \in BOOLEAN
    /\ awaiting \in BOOLEAN
    /\ pc \in [Calls -> Places]
    /\ attempt \in [Calls -> Attempts]
    /\ result \in [Calls -> Results]
    /\ psUp \in BOOLEAN
    /\ executing \in SUBSET Scripts
    /\ reply \in Replies

Init ==
    /\ Queue!Init
    /\ found = FALSE
    /\ detections = 0
    /\ latch = FALSE
    /\ awaiting = FALSE
    /\ pc = [c \in Calls |-> "idle"]
    /\ attempt = [c \in Calls |-> "first"]
    /\ result = [c \in Calls |-> "none"]
    /\ psUp \in BOOLEAN
    /\ executing = {}
    /\ reply = "none"

-----------------------------------------------------------------------------
(* The event loop *)

(***************************************************************************)
(* The script whose promise a call awaits, by where the call is.           *)
(***************************************************************************)
KindAt(place) ==
    IF place = "launching" THEN "probe"
    ELSE IF place = "settling" THEN "settle" ELSE "script"

Awaited(c) == <<c, attempt[c], KindAt(pc[c])>>

Told(c, verdicts) == answer[Awaited(c)] \cap verdicts # {}

Runnable(c) ==
    \/ pc[c] = "detecting" /\ detections = 0
    \/ pc[c] \in {"launching", "settling", "running"} /\ Told(c, Answers)

Quiet == \A c \in Calls : ~Runnable(c)

InFlight == {c \in Calls : pc[c] \notin {"idle", "done"}}

TimedOut(c) == Told(c, {"timeout", "watchdog"})

-----------------------------------------------------------------------------
(* executeScript *)

\* Mutant: a timeout is not remembered.
FailForgets(c, why) ==
    /\ pc' = [pc EXCEPT ![c] = IF /\ why = "timeout"
                                  /\ c \in Checkers
                                  /\ attempt[c] = "first"
                               THEN "checking" ELSE "done"]
    /\ result' = [result EXCEPT ![c] = why]
    /\ latch' = FALSE
    /\ UNCHANGED awaiting

(***************************************************************************)
(* The catch of executeScript: the latch is dropped, and a timeout is      *)
(* remembered for the scripts to come.  The tools that check for late      *)
(* success go on from here.                                                *)
(***************************************************************************)
Fail(c, why) ==
    /\ pc' = [pc EXCEPT ![c] = IF /\ why = "timeout"
                                  /\ c \in Checkers
                                  /\ attempt[c] = "first"
                               THEN "checking" ELSE "done"]
    /\ result' = [result EXCEPT ![c] = why]
    /\ latch' = FALSE
    /\ awaiting' = (awaiting \/ why = "timeout")

RunOwnScript(c) ==
    /\ Queue!Arrive(<<c, attempt[c], "script">>)
    /\ pc' = [pc EXCEPT ![c] = "running"]

(***************************************************************************)
(* settleAfterTimeout up to its await, or past it when nothing timed out.  *)
(***************************************************************************)
SettleOrRun(c) ==
    IF awaiting
    THEN /\ Queue!Arrive(<<c, attempt[c], "settle">>)
         /\ pc' = [pc EXCEPT ![c] = "settling"]
    ELSE RunOwnScript(c)

(***************************************************************************)
(* ensureRunning: skipped while the latch is live.                         *)
(***************************************************************************)
EnsureRunning(c) ==
    IF latch
    THEN SettleOrRun(c)
    ELSE /\ pc' = [pc EXCEPT ![c] = "probing"]
         /\ UNCHANGED lineVars

(***************************************************************************)
(* A call starts; ensureDetected shares a detection that is in flight.     *)
(***************************************************************************)
Begin(c) ==
    /\ Quiet
    /\ pc[c] = "idle"
    /\ Cardinality(InFlight) < MaxInFlight
    /\ IF found
       THEN EnsureRunning(c) /\ UNCHANGED detections
       ELSE /\ pc' = [pc EXCEPT ![c] = "detecting"]
            /\ detections' = IF detections = 0 THEN 1 ELSE detections
            /\ UNCHANGED lineVars
    /\ UNCHANGED <<found, latch, awaiting, attempt, result, psVars>>

(***************************************************************************)
(* detect() answers.  A miss, or an install useInstall rejects, is not     *)
(* cached; either way the next call may detect again.                      *)
(***************************************************************************)
DetectionEnds ==
    /\ Quiet
    /\ detections > 0
    /\ detections' = detections - 1
    /\ found' \in {found, TRUE}
    /\ UNCHANGED <<lineVars, latch, awaiting, callVars, psVars>>

Detected(c) ==
    /\ pc[c] = "detecting"
    /\ Runnable(c)
    /\ IF found
       THEN EnsureRunning(c) /\ UNCHANGED <<latch, awaiting, result>>
       ELSE Fail(c, "notfound") /\ UNCHANGED lineVars
    /\ UNCHANGED <<found, detections, attempt, psVars>>

(***************************************************************************)
(* isRunning answers.  It says "not running" when it cannot tell, too.     *)
(***************************************************************************)
SeenRunning(c) ==
    /\ Quiet
    /\ pc[c] = "probing"
    /\ psUp
    /\ latch' = TRUE
    /\ SettleOrRun(c)
    /\ UNCHANGED <<found, detections, awaiting, attempt, result, psVars>>

SeenDown(c) ==
    /\ Quiet
    /\ pc[c] = "probing"
    /\ ~psUp \/ "probe" \in HostFailures
    /\ Queue!Arrive(<<c, attempt[c], "probe">>)
    /\ pc' = [pc EXCEPT ![c] = "launching"]
    /\ UNCHANGED <<connVars, attempt, result, psVars>>

(***************************************************************************)
(* launch: the process could not be spawned.  A probe it has enqueued      *)
(* stays in the queue.                                                     *)
(***************************************************************************)
LaunchFails(c) ==
    /\ Quiet
    /\ "launch" \in HostFailures
    /\ pc[c] = "launching"
    /\ Fail(c, "error")
    /\ UNCHANGED <<lineVars, found, detections, attempt, psVars>>

\* Mutant: the readiness poll goes on until Photoshop answers.
LaunchedOnAnswer(c) ==
    /\ pc[c] = "launching"
    /\ Runnable(c)
    /\ Told(c, {"ok"})
    /\ SettleOrRun(c)
    /\ UNCHANGED <<connVars, attempt, result, psVars>>

(***************************************************************************)
(* The readiness poll ends, with an answer or at the end of its budget:    *)
(* either way the launch is over and the call goes on.                     *)
(***************************************************************************)
Launched(c) ==
    /\ pc[c] = "launching"
    /\ Runnable(c)
    /\ SettleOrRun(c)
    /\ UNCHANGED <<connVars, attempt, result, psVars>>

\* Mutant: the script runs whatever the probe said.
SettledAnyway(c) ==
    /\ pc[c] = "settling"
    /\ Runnable(c)
    /\ awaiting' = FALSE
    /\ RunOwnScript(c)
    /\ UNCHANGED <<latch, result, found, detections, attempt, psVars>>

(***************************************************************************)
(* settleAfterTimeout after its await: only a timeout of the probe refuses *)
(* the call, and leaves the flag as it is.  (The refusal's own message is  *)
(* not a timeout message.)                                                 *)
(***************************************************************************)
Settled(c) ==
    /\ pc[c] = "settling"
    /\ Runnable(c)
    /\ IF TimedOut(c)
       THEN Fail(c, "busy") /\ UNCHANGED lineVars
       ELSE /\ awaiting' = FALSE
            /\ RunOwnScript(c)
            /\ UNCHANGED <<latch, result>>
    /\ UNCHANGED <<found, detections, attempt, psVars>>

Finished(c) ==
    /\ pc[c] = "running"
    /\ Runnable(c)
    /\ IF Told(c, {"ok"})
       THEN /\ pc' = [pc EXCEPT ![c] = "done"]
            /\ result' = [result EXCEPT ![c] = "ok"]
            /\ latch' = TRUE
            /\ UNCHANGED awaiting
       ELSE Fail(c, IF TimedOut(c) THEN "timeout" ELSE "error")
    /\ UNCHANGED <<lineVars, found, detections, attempt, psVars>>

(***************************************************************************)
(* skipSettleAfterTimeout and the script that checks for late success,     *)
(* which does its own waiting.  (Building it takes a child process.)       *)
(***************************************************************************)
Check(c) ==
    /\ Quiet
    /\ pc[c] = "checking"
    /\ attempt' = [attempt EXCEPT ![c] = "check"]
    /\ awaiting' = FALSE
    /\ pc' = [pc EXCEPT ![c] = "detecting"]
    /\ UNCHANGED <<lineVars, found, detections, latch, result, psVars>>

LatchExpires ==
    /\ Quiet
    /\ latch
    /\ latch' = FALSE
    /\ UNCHANGED <<lineVars, found, detections, awaiting, callVars, psVars>>

-----------------------------------------------------------------------------
(* Photoshop (external), and the queue underneath *)

(***************************************************************************)
(* The child of the script in service has Photoshop execute it.  Photoshop *)
(* executes one script at a time; a child whose turn has not come waits.   *)
(***************************************************************************)
InFront(s) == line # <<>> /\ s = Head(line)

PsExecutes(s) ==
    /\ InFront(s)
    /\ Quiet
    /\ psUp
    /\ reply = "none"
    /\ executing = {}
    /\ executing' = {s}
    /\ UNCHANGED <<lineVars, connVars, callVars, psUp, reply>>

(***************************************************************************)
(* Photoshop finishes a script, whether or not its child is still there.   *)
(***************************************************************************)
PsFinishes ==
    /\ Quiet
    /\ executing # {}
    /\ executing' = {}
    /\ reply' = IF line # <<>> /\ Head(line) \in executing THEN "answered" ELSE reply
    /\ UNCHANGED <<lineVars, connVars, callVars, psUp>>

PsStarts ==
    /\ Quiet
    /\ ~psUp
    /\ psUp' = TRUE
    /\ UNCHANGED <<lineVars, connVars, callVars, executing, reply>>

PsQuits ==
    /\ Quiet
    /\ psUp
    /\ psUp' = FALSE
    /\ executing' = {}
    /\ reply' = IF line # <<>> /\ Head(line) \in executing THEN "lost" ELSE reply
    /\ UNCHANGED <<lineVars, connVars, callVars>>

(***************************************************************************)
(* The run of the script in service settles.  The child writes its result  *)
(* - too much of it, perhaps - only when Photoshop has answered.  It fails *)
(* when Photoshop has answered with an error, is gone, or, where           *)
(* HostFailures allows it, for a reason that says nothing of Photoshop.    *)
(* It can be killed at its timeout at any time.                            *)
(***************************************************************************)
CanEndWith(s, verdict) ==
    /\ verdict \in {"ok", "overflow"} => reply = "answered"
    /\ verdict = "error" => \/ reply # "none"
                            \/ ~psUp
                            \/ "script" \in HostFailures /\ s \notin executing
    /\ verdict # "watchdog"

RunEnds(s, verdict) ==
    /\ InFront(s)
    /\ Quiet
    /\ CanEndWith(s, verdict)
    /\ Queue!Leave(verdict)
    /\ reply' = "none"
    /\ UNCHANGED <<connVars, callVars, psUp, executing>>

(***************************************************************************)
(* The watchdog rejects before the killed child is gone.                   *)
(***************************************************************************)
WatchdogFires(s) ==
    /\ InFront(s)
    /\ Quiet
    /\ Queue!AnswerHead("watchdog")
    /\ UNCHANGED <<connVars, callVars, psVars>>

-----------------------------------------------------------------------------
CallStep(c) ==
    \/ Detected(c)
    \/ SeenRunning(c)
    \/ SeenDown(c)
    \/ Launched(c)
    \/ Settled(c)
    \/ Finished(c)
    \/ Check(c)

Next ==
    \/ DetectionEnds
    \/ LatchExpires
    \/ PsFinishes
    \/ PsStarts
    \/ PsQuits
    \/ \E c \in Calls : Begin(c) \/ CallStep(c) \/ LaunchFails(c)
    \/ \E s \in Scripts :
         \/ PsExecutes(s)
         \/ WatchdogFires(s)
         \/ \E verdict \in Answers : RunEnds(s, verdict)

(***************************************************************************)
(* Fairness: detections and process probes are bounded by timeouts of      *)
(* their own, and a run that does not end is killed at its timeout (that   *)
(* the kill works is what ScriptQueue's fairness says).  Photoshop owes    *)
(* nothing: it may execute a script, or show a dialog, for ever.           *)
(***************************************************************************)
Fairness ==
    /\ WF_vars(DetectionEnds)
    /\ \A c \in Calls : WF_vars(CallStep(c))
    /\ \A s \in Scripts : WF_vars(RunEnds(s, "timeout"))

Spec     == Init /\ [][Next]_vars
FairSpec == Spec /\ Fairness

-----------------------------------------------------------------------------
(***************************************************************************)
(* "The next script waits for Photoshop to answer first" (connection.ts):  *)
(* no call's own script is handed to a child while Photoshop is still      *)
(* executing the script of another call, which was given up on.            *)
(***************************************************************************)
ScriptsWaitForAnswer ==
    \A c, d \in Calls :
        c # d /\ InFront(<<c, "first", "script">>)
            => <<d, "first", "script">> \notin executing

(***************************************************************************)
(* A timeout is not forgotten: when all calls have returned and Photoshop  *)
(* still executes the script of one of them, the flag that makes the next  *)
(* call wait is set, however the calls that followed the timeout - settled *)
(* with an answer or not - interleaved with it.                            *)
(***************************************************************************)
TimeoutRemembered ==
    (InFlight = {} /\ \E c \in Calls : <<c, "first", "script">> \in executing)
        => awaiting

(***************************************************************************)
(* Every call returns, even when Photoshop never answers anything.         *)
(***************************************************************************)
EveryCallReturns ==
    \A c \in Calls : pc[c] # "idle" ~> pc[c] = "done"

(***************************************************************************)
(* The connection and its calls are well formed - one detection at a time  *)
(* - and a timeout is not forgotten.                                       *)
(***************************************************************************)
ConnectionInv == TypeOK /\ TimeoutRemembered

(***************************************************************************)
(* Of calls one after the other: no script is handed over while Photoshop  *)
(* executes one given up on, and no timeout is forgotten.                  *)
(***************************************************************************)
AnswersAreAwaited == ScriptsWaitForAnswer /\ TimeoutRemembered

=============================================================================
