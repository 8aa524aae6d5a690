----------------------------- MODULE ScriptQueue -----------------------------
(***************************************************************************)
(* The in-process queue of platform/script-queue.ts that every Photoshop   *)
(* script goes through, composed with the runs it starts (RunChild).       *)
(*                                                                         *)
(* enqueue pushes a task and calls processQueue, which returns at once     *)
(* when a loop is already active.  The loop shifts a task, arms its        *)
(* watchdog, awaits task.run() and settles the task's promise.  A watchdog *)
(* that fires rejects the promise only: the loop keeps awaiting the run,   *)
(* so the next script does not start beside a child that is still alive.   *)
(*                                                                         *)
(* JavaScript runs to completion between awaits: the code from one await   *)
(* to the next is one action here.                                         *)
(***************************************************************************)
EXTENDS RunChild, Sequences

VARIABLES
    queue,          \* this.queue: the tasks not yet shifted
    isProcessing,   \* this.isProcessing: a processQueue loop is active
    promise         \* promise[t]: what the caller of enqueue has been told

queueVars == <<child, queue, isProcessing, promise>>

Verdicts  == {"ok", "error", "timeout", "overflow", "watchdog"}
Promises  == {"unsent", "pending"} \cup Verdicts

QueueTypeOK ==
    /\ RunTypeOK
    /\ queue \in Seq(Tasks)
    /\ isProcessing \in BOOLEAN
    /\ promise \in [Tasks -> Promises]

QueueInit ==
    /\ RunInit
    /\ queue = <<>>
    /\ isProcessing = FALSE
    /\ promise = [t \in Tasks |-> "unsent"]

(***************************************************************************)
(* settleTask: the first of the watchdog and the run to get here decides.  *)
(***************************************************************************)
SettleTask(p, t, verdict) ==
    IF p[t] = "pending" THEN [p EXCEPT ![t] = verdict] ELSE p

\* Mutant: processQueue without its early return on isProcessing.
EnqueueAlwaysStarts(t) ==
    /\ promise[t] = "unsent"
    /\ promise' = [promise EXCEPT ![t] = "pending"]
    /\ child' = [child EXCEPT ![t].phase = "preparing"]
    /\ isProcessing' = TRUE
    /\ UNCHANGED queue

\* Mutant: the newest task goes first.
EnqueueInFront(t) ==
    /\ promise[t] = "unsent"
    /\ promise' = [promise EXCEPT ![t] = "pending"]
    /\ IF isProcessing
       THEN /\ queue' = <<t>> \o queue
            /\ UNCHANGED <<child, isProcessing>>
       ELSE /\ child' = [child EXCEPT ![t].phase = "preparing"]
            /\ isProcessing' = TRUE
            /\ UNCHANGED queue

(***************************************************************************)
(* enqueue.  With no loop active, processQueue shifts the task in the same *)
(* synchronous call and its run starts.                                    *)
(***************************************************************************)
Enqueue(t) ==
    /\ promise[t] = "unsent"
    /\ promise' = [promise EXCEPT ![t] = "pending"]
    /\ IF isProcessing
       THEN /\ queue' = Append(queue, t)
            /\ UNCHANGED <<child, isProcessing>>
       ELSE /\ child' = [child EXCEPT ![t].phase = "preparing"]
            /\ isProcessing' = TRUE
            /\ UNCHANGED queue

(***************************************************************************)
(* The watchdog armed when the run started fires before it is cleared.     *)
(***************************************************************************)
Watchdog(t) ==
    /\ Busy(t)
    /\ promise[t] = "pending"
    /\ promise' = SettleTask(promise, t, "watchdog")
    /\ UNCHANGED <<child, queue, isProcessing>>

\* Mutant: one task per processQueue, no loop.
RunSettlesOnce(t) ==
    /\ child[t].phase = "cleaning"
    /\ promise' = SettleTask(promise, t, child[t].outcome)
    /\ child' = [child EXCEPT ![t].phase = "settled"]
    /\ isProcessing' = FALSE
    /\ UNCHANGED queue

(***************************************************************************)
(* The run's promise settles and the loop goes round: the task is settled, *)
(* then the next one is shifted and its run started, or the loop ends.     *)
(***************************************************************************)
RunSettles(t) ==
    /\ child[t].phase = "cleaning"
    /\ promise' = SettleTask(promise, t, child[t].outcome)
    /\ IF queue = <<>>
       THEN /\ child' = [child EXCEPT ![t].phase = "settled"]
            /\ isProcessing' = FALSE
            /\ UNCHANGED queue
       ELSE /\ child' = [child EXCEPT ![t].phase = "settled",
                                      ![Head(queue)].phase = "preparing"]
            /\ queue' = Tail(queue)
            /\ UNCHANGED isProcessing

ChildStep(t) == RunStep(t) /\ UNCHANGED <<queue, isProcessing, promise>>

QueueStep(t) ==
    \/ Watchdog(t)
    \/ RunSettles(t)
    \/ ChildStep(t)

QueueNext == \E t \in Tasks : Enqueue(t) \/ QueueStep(t)

(***************************************************************************)
(* Fairness.  Timers fire, file operations finish and the operating system *)
(* delivers SIGKILL, so a killed child exits.  Nothing is assumed of a     *)
(* child left alone: a modal dialog in Photoshop keeps it for ever.        *)
(***************************************************************************)
KilledChildExits(t) == /\ child[t].signal = "kill"
                       /\ Exit(t)
                       /\ UNCHANGED <<queue, isProcessing, promise>>

QueueFairness ==
    \A t \in Tasks :
        /\ WF_queueVars((Spawn(t) \/ SpawnFails(t)) /\ UNCHANGED <<queue, isProcessing, promise>>)
        /\ WF_queueVars(KillTimer(t) /\ UNCHANGED <<queue, isProcessing, promise>>)
        /\ WF_queueVars(Escalate(t) /\ UNCHANGED <<queue, isProcessing, promise>>)
        /\ WF_queueVars(KilledChildExits(t))
        /\ WF_queueVars(RunSettles(t))

QueueSpec == QueueInit /\ [][QueueNext]_queueVars

FairQueueSpec == QueueSpec /\ QueueFairness

-----------------------------------------------------------------------------
(***************************************************************************)
(* The queue is "load-bearing" because Photoshop must never get two        *)
(* interleaved scripts: at most one run is between its start and its       *)
(* settling, a run whose caller has long been told "timeout" included.     *)
(***************************************************************************)
OneRunAtATime == \A t, u \in Tasks : Busy(t) /\ Busy(u) => t = u

(***************************************************************************)
(* No wake-up is lost: a task can wait in the queue only while a loop is   *)
(* awaiting somebody's run, so that it will be shifted when that settles.  *)
(***************************************************************************)
WaitersHaveALoop ==
    /\ queue # <<>> => \E t \in Tasks : Busy(t)
    /\ isProcessing <=> \E t \in Tasks : Busy(t)

(***************************************************************************)
(* A caller told that its script succeeded is never told so of a child     *)
(* that was being killed, even if that child managed to exit normally      *)
(* after the signal; and a caller who has heard anything but the           *)
(* watchdog's timeout has a child that is gone.                            *)
(***************************************************************************)
VerdictsAreHonest ==
    \A t \in Tasks :
        /\ promise[t] = "ok" => ~child[t].timedOut /\ ~child[t].overflowed
        /\ promise[t] \in Verdicts \ {"watchdog"} => child[t].phase = "settled"

(***************************************************************************)
(* What a caller has been told never changes, although the watchdog, the   *)
(* kill timer and the exit of the child all race to tell it.               *)
(***************************************************************************)
VerdictsAreFinal ==
    [][\A t \in Tasks : promise[t] \in Verdicts => promise'[t] = promise[t]]_queueVars

(***************************************************************************)
(* Every enqueued script gets an answer, even when each child hangs on a   *)
(* modal dialog until it is killed.                                        *)
(***************************************************************************)
EveryTaskAnswered ==
    \A t \in Tasks : promise[t] = "pending" ~> promise[t] \in Verdicts

(***************************************************************************)
(* The queue serves its callers one at a time in the order of their calls  *)
(* and answers each exactly once: the line of SerialLine is the task whose *)
(* run is pending, followed by the queue.                                  *)
(***************************************************************************)
InService == {t \in Tasks : Busy(t)}

Line == IF InService = {} THEN queue
        ELSE <<CHOOSE t \in Tasks : Busy(t)>> \o queue

Serial == INSTANCE SerialLine WITH
    Answers <- Verdicts,
    line    <- Line,
    came    <- {t \in Tasks : promise[t] # "unsent"},
    answer  <- [t \in Tasks |-> {promise[t]} \cap Verdicts]

ServesInOrder == Serial!Spec

(***************************************************************************)
(* The queue is well formed, and no task waits for a loop that has ended.  *)
(***************************************************************************)
QueueSound == QueueTypeOK /\ WaitersHaveALoop

=============================================================================
