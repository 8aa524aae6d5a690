---------------------- MODULE PhotoshopConnectionProofs ----------------------
(***************************************************************************)
(* Proofs about the connection to Photoshop, for any number of calls, and  *)
(* about the queue its scripts go through, for any set of tasks.  The      *)
(* connection is built on what the queue promises (SerialLine), and the    *)
(* first part shows that the queue keeps it.                               *)
(***************************************************************************)
EXTENDS PhotoshopConnection, ScriptQueue, Integers, FiniteSetTheorems, TLAPS

-----------------------------------------------------------------------------
(* The queue *)

(***************************************************************************)
(* The inductive invariant.  A queued task is there once, has not started  *)
(* and awaits its verdict; a task not enqueued yet is not there at all; a  *)
(* run has an outcome once its child is gone, and "ok" only if nobody has  *)
(* asked for the child to be killed; a verdict other than the watchdog's   *)
(* is the outcome of a run that has settled.                               *)
(***************************************************************************)
QueuedOnce ==
    \A i, j \in 1..Len(queue) : queue[i] = queue[j] => i = j

QueuedArePending ==
    \A i \in 1..Len(queue) :
        promise[queue[i]] = "pending" /\ child[queue[i]].phase = "idle"

UnsentAreIdle ==
    \A t \in Tasks : promise[t] = "unsent" => child[t].phase = "idle"

OutcomesAreHonest ==
    \A t \in Tasks :
        /\ child[t].phase \in {"idle", "preparing", "alive"} <=> child[t].outcome = "none"
        /\ child[t].outcome = "ok" => ~child[t].timedOut /\ ~child[t].overflowed

VerdictsAreOutcomes ==
    \A t \in Tasks :
        promise[t] \in Verdicts \ {"watchdog"}
            => child[t].phase = "settled" /\ promise[t] = child[t].outcome

QueueInv ==
    /\ QueueTypeOK
    /\ OneRunAtATime
    /\ WaitersHaveALoop
    /\ QueuedOnce
    /\ QueuedArePending
    /\ UnsentAreIdle
    /\ OutcomesAreHonest
    /\ VerdictsAreOutcomes

-----------------------------------------------------------------------------
(* Facts about the queue's sequences *)

LEMMA AppendToQueue ==
    ASSUME NEW q \in Seq(Tasks), NEW t \in Tasks
    PROVE  /\ Append(q, t) \in Seq(Tasks)
           /\ Len(Append(q, t)) = Len(q) + 1
           /\ Append(q, t) # <<>>
           /\ \A i \in 1..Len(q) : Append(q, t)[i] = q[i]
           /\ Append(q, t)[Len(q) + 1] = t
  OBVIOUS

LEMMA ShiftQueue ==
    ASSUME NEW q \in Seq(Tasks), q # <<>>
    PROVE  /\ Head(q) \in Tasks
           /\ Head(q) = q[1]
           /\ 1 \in 1..Len(q)
           /\ Tail(q) \in Seq(Tasks)
           /\ Len(Tail(q)) = Len(q) - 1
           /\ \A i \in 1..Len(Tail(q)) : i + 1 \in 1..Len(q) /\ Tail(q)[i] = q[i + 1]
  OBVIOUS

-----------------------------------------------------------------------------
(* The invariant holds in the beginning *)

THEOREM QueueInvInit == QueueInit => QueueInv
<1> SUFFICES ASSUME QueueInit PROVE QueueInv
  OBVIOUS
<1> USE DEF QueueInit, RunInit
<1>1. NewRun \in Runs
  BY DEF NewRun, Runs, Phases, Outcomes
<1>2. \A t \in Tasks : /\ child[t] = NewRun
                       /\ promise[t] = "unsent"
                       /\ child[t].phase = "idle"
                       /\ child[t].outcome = "none"
  BY DEF NewRun
<1>3. QueueTypeOK
  <2>1. RunTypeOK
    BY <1>1 DEF RunTypeOK
  <2>2. queue \in Seq(Tasks)
    OBVIOUS
  <2>3. promise \in [Tasks -> Promises]
    BY DEF Promises
  <2> QED
    BY <2>1, <2>2, <2>3 DEF QueueTypeOK
<1>4. \A t \in Tasks : ~Busy(t)
  BY <1>2 DEF Busy
<1>5. OneRunAtATime /\ WaitersHaveALoop
  BY <1>4 DEF OneRunAtATime, WaitersHaveALoop
<1>6. QueuedOnce /\ QueuedArePending
  BY DEF QueuedOnce, QueuedArePending
<1>7. UnsentAreIdle /\ OutcomesAreHonest
  BY <1>2 DEF UnsentAreIdle, OutcomesAreHonest
<1>8. VerdictsAreOutcomes
  BY <1>2 DEF VerdictsAreOutcomes, Verdicts
<1> QED
  BY <1>3, <1>5, <1>6, <1>7, <1>8 DEF QueueInv

-----------------------------------------------------------------------------
(* What a step does to the runs *)

(***************************************************************************)
(* The steps of a run are its own, do not start or settle it, and keep its *)
(* outcome honest.                                                         *)
(***************************************************************************)
LEMMA RunStepEffect ==
    ASSUME NEW t \in Tasks, RunTypeOK, OutcomesAreHonest, RunStep(t)
    PROVE  /\ RunTypeOK'
           /\ OutcomesAreHonest'
           /\ Busy(t) /\ Busy(t)'
           /\ \A u \in Tasks \ {t} : child'[u] = child[u]
<1> DEFINE r == child[t]
           Good(x) == /\ x \in Runs
                      /\ x.phase \in {"alive", "cleaning"}
                      /\ x.phase = "alive" <=> x.outcome = "none"
                      /\ x.outcome = "ok" => ~x.timedOut /\ ~x.overflowed
<1>1. r \in Runs
  BY DEF RunTypeOK
<1>2. /\ r.phase \in {"idle", "preparing", "alive"} <=> r.outcome = "none"
      /\ r.outcome = "ok" => ~r.timedOut /\ ~r.overflowed
  BY DEF OutcomesAreHonest
<1>3. SUFFICES /\ r.phase \in {"preparing", "alive"}
               /\ \E x : Good(x) /\ child' = [child EXCEPT ![t] = x]
  <2>1. PICK x : Good(x) /\ child' = [child EXCEPT ![t] = x]
    BY <1>3
  <2>2. /\ child' \in [Tasks -> Runs]
        /\ child'[t] = x
        /\ \A u \in Tasks \ {t} : child'[u] = child[u]
    BY <2>1 DEF RunTypeOK
  <2>3. Busy(t) /\ Busy(t)'
    BY <1>3, <2>1, <2>2 DEF Busy
  <2>4. OutcomesAreHonest'
    BY <2>1, <2>2 DEF OutcomesAreHonest
  <2> QED
    BY <2>2, <2>3, <2>4 DEF RunTypeOK
<1> HIDE DEF Good
<1>4. CASE Spawn(t)
  <2>1. Good([r EXCEPT !.phase = "alive"])
    BY <1>1, <1>2, <1>4 DEF Good, Spawn, Runs, Phases
  <2> QED
    BY <1>4, <2>1 DEF Spawn
<1>5. CASE SpawnFails(t)
  <2>1. Good([r EXCEPT !.phase = "cleaning", !.outcome = "error"])
    BY <1>1, <1>2, <1>5 DEF Good, SpawnFails, Runs, Phases, Outcomes
  <2> QED
    BY <1>5, <2>1 DEF SpawnFails
<1>6. CASE KillTimer(t)
  <2>1. Good([r EXCEPT !.timedOut = TRUE, !.signal = AfterTerm(r)])
    BY <1>1, <1>2, <1>6 DEF Good, KillTimer, Runs, AfterTerm
  <2> QED
    BY <1>6, <2>1 DEF KillTimer
<1>7. CASE Overflow(t)
  <2>1. Good([r EXCEPT !.overflowed = TRUE, !.signal = AfterTerm(r)])
    BY <1>1, <1>2, <1>7 DEF Good, Overflow, Runs, AfterTerm
  <2> QED
    BY <1>7, <2>1 DEF Overflow
<1>8. CASE Escalate(t)
  <2>1. Good([r EXCEPT !.signal = "kill"])
    BY <1>1, <1>2, <1>8 DEF Good, Escalate, Runs
  <2> QED
    BY <1>8, <2>1 DEF Escalate
<1>9. CASE Exit(t)
  <2>1. PICK o \in ExitOutcomes(r) :
             child' = [child EXCEPT ![t].phase = "cleaning", ![t].outcome = o]
    BY <1>9 DEF Exit
  <2> DEFINE x == [r EXCEPT !.phase = "cleaning", !.outcome = o]
  <2>2. Good(x)
    BY <1>1, <2>1 DEF Good, ExitOutcomes, Runs, Phases, Outcomes
  <2>3. child' = [child EXCEPT ![t] = x]
    BY <2>1 DEF RunTypeOK
  <2>4. r.phase = "alive"
    BY <1>9 DEF Exit
  <2> HIDE DEF x
  <2> QED
    BY <2>2, <2>3, <2>4
<1> QED
  BY <1>4, <1>5, <1>6, <1>7, <1>8, <1>9 DEF RunStep

(***************************************************************************)
(* A step that changes of the runs only their phase, within the phases     *)
(* before an outcome or within those after it, keeps them honest.          *)
(***************************************************************************)
Early(phase) == phase \in {"idle", "preparing", "alive"}

SamePart(r, s) ==
    /\ Early(s.phase) <=> Early(r.phase)
    /\ s.outcome = r.outcome
    /\ s.timedOut <=> r.timedOut
    /\ s.overflowed <=> r.overflowed

LEMMA OutcomesStay ==
    ASSUME OutcomesAreHonest, \A u \in Tasks : SamePart(child[u], child'[u])
    PROVE  OutcomesAreHonest'
<1> SUFFICES ASSUME NEW u \in Tasks
             PROVE  /\ child'[u].phase \in {"idle", "preparing", "alive"}
                         <=> child'[u].outcome = "none"
                    /\ child'[u].outcome = "ok" => ~child'[u].timedOut /\ ~child'[u].overflowed
  BY DEF OutcomesAreHonest
<1>1. /\ Early(child[u].phase) <=> child[u].outcome = "none"
      /\ child[u].outcome = "ok" => ~child[u].timedOut /\ ~child[u].overflowed
  BY DEF OutcomesAreHonest, Early
<1>2. /\ Early(child'[u].phase) <=> Early(child[u].phase)
      /\ child'[u].outcome = child[u].outcome
      /\ child'[u].timedOut <=> child[u].timedOut
      /\ child'[u].overflowed <=> child[u].overflowed
  BY DEF SamePart
<1> QED
  BY <1>1, <1>2 DEF Early

-----------------------------------------------------------------------------
(* The invariant is kept by each action of the queue *)

(***************************************************************************)
(* enqueue keeps the invariant: a task called for the first time is not in *)
(* the queue, and with no loop active the queue is empty and nobody runs.  *)
(***************************************************************************)
LEMMA EnqueueKeepsInv ==
    ASSUME NEW t \in Tasks, QueueInv, Enqueue(t) PROVE QueueInv'
<1> USE DEF QueueInv
<1>1. /\ child \in [Tasks -> Runs]
      /\ queue \in Seq(Tasks)
      /\ isProcessing \in BOOLEAN
      /\ promise \in [Tasks -> Promises]
  BY DEF QueueTypeOK, RunTypeOK
<1>2. /\ promise[t] = "unsent"
      /\ child[t].phase = "idle"
      /\ ~Busy(t)
  BY DEF Enqueue, UnsentAreIdle, Busy
<1>3. /\ promise' \in [Tasks -> Promises]
      /\ promise'[t] = "pending"
      /\ \A u \in Tasks \ {t} : promise'[u] = promise[u]
  BY <1>1 DEF Enqueue, Promises
<1>4. \A i \in 1..Len(queue) : queue[i] \in Tasks \ {t}
  BY <1>1, <1>2 DEF QueuedArePending
<1>5. CASE isProcessing
  <2>1. queue' = Append(queue, t) /\ UNCHANGED <<child, isProcessing>>
    BY <1>5 DEF Enqueue
  <2>2. /\ queue' \in Seq(Tasks)
        /\ Len(queue') = Len(queue) + 1
        /\ \A i \in 1..Len(queue) : queue'[i] = queue[i]
        /\ queue'[Len(queue) + 1] = t
        /\ Len(queue) \in Nat
    BY <1>1, <2>1, AppendToQueue
  <2>3. \A i \in 1..Len(queue') : i \in 1..Len(queue) \/ i = Len(queue) + 1
    BY <2>2
  <2>4. QueueTypeOK'
    BY <1>1, <1>3, <2>1, <2>2 DEF QueueTypeOK, RunTypeOK
  <2>5. OneRunAtATime' /\ WaitersHaveALoop'
    BY <1>5, <2>1 DEF OneRunAtATime, WaitersHaveALoop, Busy
  <2>6. QueuedOnce'
    <3> SUFFICES ASSUME NEW i \in 1..Len(queue'), NEW j \in 1..Len(queue'),
                        queue'[i] = queue'[j]
                 PROVE  i = j
      BY DEF QueuedOnce
    <3>1. CASE i \in 1..Len(queue) /\ j \in 1..Len(queue)
      BY <3>1, <2>2 DEF QueuedOnce
    <3>2. CASE i = Len(queue) + 1 /\ j \in 1..Len(queue)
      BY <3>2, <2>2, <1>4
    <3>3. CASE i \in 1..Len(queue) /\ j = Len(queue) + 1
      BY <3>3, <2>2, <1>4
    <3> QED
      BY <2>3, <3>1, <3>2, <3>3
  <2>7. QueuedArePending'
    <3> SUFFICES ASSUME NEW i \in 1..Len(queue')
                 PROVE  promise'[queue'[i]] = "pending" /\ child'[queue'[i]].phase = "idle"
      BY DEF QueuedArePending
    <3>1. CASE i \in 1..Len(queue)
      BY <3>1, <1>3, <1>4, <2>1, <2>2 DEF QueuedArePending
    <3>2. CASE i = Len(queue) + 1
      BY <3>2, <1>2, <1>3, <2>1, <2>2
    <3> QED
      BY <2>3, <3>1, <3>2
  <2>8. UnsentAreIdle' /\ OutcomesAreHonest' /\ VerdictsAreOutcomes'
    BY <1>3, <2>1 DEF UnsentAreIdle, OutcomesAreHonest, VerdictsAreOutcomes, Verdicts
  <2> QED
    BY <2>4, <2>5, <2>6, <2>7, <2>8
<1>6. CASE ~isProcessing
  <2>1. /\ child' = [child EXCEPT ![t].phase = "preparing"]
        /\ isProcessing' = TRUE
        /\ queue' = queue
    BY <1>6 DEF Enqueue
  <2>2. queue = <<>> /\ \A u \in Tasks : ~Busy(u)
    BY <1>6 DEF WaitersHaveALoop
  <2>3. /\ child'[t] = [child[t] EXCEPT !.phase = "preparing"]
        /\ child'[t] \in Runs
        /\ child'[t].phase = "preparing"
        /\ child'[t].outcome = child[t].outcome
        /\ child'[t].timedOut <=> child[t].timedOut
        /\ child'[t].overflowed <=> child[t].overflowed
        /\ \A u \in Tasks \ {t} : child'[u] = child[u]
    BY <1>1, <2>1 DEF Runs, Phases
  <2>4. child' \in [Tasks -> Runs]
    BY <1>1, <2>1, <2>3
  <2>5. QueueTypeOK'
    BY <1>1, <1>3, <2>1, <2>4 DEF QueueTypeOK, RunTypeOK
  <2>6. Busy(t)' /\ \A u \in Tasks \ {t} : ~Busy(u)'
    BY <2>2, <2>3 DEF Busy
  <2>7. OneRunAtATime' /\ WaitersHaveALoop'
    BY <2>1, <2>2, <2>6 DEF OneRunAtATime, WaitersHaveALoop
  <2>8. QueuedOnce' /\ QueuedArePending'
    BY <2>1, <2>2 DEF QueuedOnce, QueuedArePending
  <2>9. UnsentAreIdle' /\ OutcomesAreHonest' /\ VerdictsAreOutcomes'
    <3>1. UnsentAreIdle'
      BY <1>3, <2>3 DEF UnsentAreIdle
    <3>2. OutcomesAreHonest'
      <4>1. \A u \in Tasks : SamePart(child[u], child'[u])
        BY <1>2, <2>3 DEF SamePart, Early
      <4> QED
        BY <4>1, OutcomesStay
    <3>3. VerdictsAreOutcomes'
      BY <1>3, <2>3 DEF VerdictsAreOutcomes, Verdicts
    <3> QED
      BY <3>1, <3>2, <3>3
  <2> QED
    BY <2>5, <2>7, <2>8, <2>9
<1> QED
  BY <1>1, <1>5, <1>6

(***************************************************************************)
(* The watchdog only answers the caller of the run in service, which is    *)
(* not a queued task.                                                      *)
(***************************************************************************)
LEMMA WatchdogKeepsInv ==
    ASSUME NEW t \in Tasks, QueueInv, Watchdog(t) PROVE QueueInv'
<1> USE DEF QueueInv
<1>1. UNCHANGED <<child, queue, isProcessing>>
  BY DEF Watchdog
<1>2. /\ promise' \in [Tasks -> Promises]
      /\ promise'[t] = "watchdog"
      /\ \A u \in Tasks \ {t} : promise'[u] = promise[u]
  BY DEF Watchdog, SettleTask, QueueTypeOK, Promises, Verdicts
<1>3. QueueTypeOK'
  BY <1>1, <1>2 DEF QueueTypeOK, RunTypeOK
<1>4. OneRunAtATime' /\ WaitersHaveALoop' /\ QueuedOnce' /\ OutcomesAreHonest'
  BY <1>1 DEF OneRunAtATime, WaitersHaveALoop, Busy, QueuedOnce, OutcomesAreHonest
<1>5. \A i \in 1..Len(queue) : queue[i] \in Tasks \ {t}
  BY DEF QueueTypeOK, Watchdog, Busy, QueuedArePending
<1>6. QueuedArePending'
  BY <1>1, <1>2, <1>5 DEF QueuedArePending
<1>7. UnsentAreIdle' /\ VerdictsAreOutcomes'
  BY <1>1, <1>2 DEF UnsentAreIdle, VerdictsAreOutcomes
<1> QED
  BY <1>3, <1>4, <1>6, <1>7

(***************************************************************************)
(* A step of the child is a step of the run in service, which is neither   *)
(* queued nor unsent nor settled.                                          *)
(***************************************************************************)
LEMMA ChildStepKeepsInv ==
    ASSUME NEW t \in Tasks, QueueInv, ChildStep(t) PROVE QueueInv'
<1> USE DEF QueueInv
<1>1. UNCHANGED <<queue, isProcessing, promise>>
  BY DEF ChildStep
<1>2. /\ RunTypeOK'
      /\ OutcomesAreHonest'
      /\ Busy(t) /\ Busy(t)'
      /\ \A u \in Tasks \ {t} : child'[u] = child[u]
  BY RunStepEffect DEF ChildStep, QueueTypeOK
<1>3. \A u \in Tasks : Busy(u)' <=> Busy(u)
  BY <1>2 DEF Busy
<1>4. QueueTypeOK'
  BY <1>1, <1>2 DEF QueueTypeOK
<1>5. OneRunAtATime' /\ WaitersHaveALoop' /\ QueuedOnce'
  BY <1>1, <1>3 DEF OneRunAtATime, WaitersHaveALoop, QueuedOnce
<1>6. QueuedArePending'
  <2>1. \A i \in 1..Len(queue) : queue[i] \in Tasks \ {t}
    BY <1>2 DEF QueueTypeOK, Busy, QueuedArePending
  <2> QED
    BY <1>1, <1>2, <2>1 DEF QueuedArePending
<1>7. promise[t] # "unsent" /\ child[t].phase # "settled"
  BY <1>2 DEF Busy, UnsentAreIdle
<1>8. UnsentAreIdle' /\ VerdictsAreOutcomes'
  BY <1>1, <1>2, <1>7 DEF UnsentAreIdle, VerdictsAreOutcomes
<1> QED
  BY <1>2, <1>4, <1>5, <1>6, <1>8

(***************************************************************************)
(* When the run in service settles, its task gets the outcome unless the   *)
(* watchdog was first, and the run of the task shifted from the queue,     *)
(* which is another, takes its place.                                      *)
(***************************************************************************)
LEMMA RunSettlesKeepsInv ==
    ASSUME NEW t \in Tasks, QueueInv, RunSettles(t) PROVE QueueInv'
<1> USE DEF QueueInv
<1>1. /\ child \in [Tasks -> Runs]
      /\ queue \in Seq(Tasks)
      /\ isProcessing \in BOOLEAN
      /\ promise \in [Tasks -> Promises]
  BY DEF QueueTypeOK, RunTypeOK
<1>2. /\ child[t].phase = "cleaning"
      /\ Busy(t)
      /\ child[t].outcome \in Verdicts
      /\ promise[t] # "unsent"
      /\ isProcessing
  BY <1>1 DEF RunSettles, Busy, OutcomesAreHonest, Runs, Outcomes, Verdicts,
              UnsentAreIdle, WaitersHaveALoop
<1>3. \A u \in Tasks : Busy(u) => u = t
  BY <1>2 DEF OneRunAtATime
<1>4. /\ promise' \in [Tasks -> Promises]
      /\ promise[t] = "pending" => promise'[t] = child[t].outcome
      /\ promise[t] # "pending" => promise'[t] = promise[t]
      /\ \A u \in Tasks \ {t} : promise'[u] = promise[u]
  BY <1>1, <1>2 DEF RunSettles, SettleTask, Promises
<1>5. promise[t] \in {"pending", "watchdog"}
  BY <1>1, <1>2 DEF Promises, Verdicts, VerdictsAreOutcomes
<1>6. CASE queue = <<>>
  <2>1. /\ child' = [child EXCEPT ![t].phase = "settled"]
        /\ isProcessing' = FALSE
        /\ queue' = queue
    BY <1>6 DEF RunSettles
  <2>2. /\ child'[t] \in Runs
        /\ child'[t].phase = "settled"
        /\ child'[t].outcome = child[t].outcome
        /\ child'[t].timedOut <=> child[t].timedOut
        /\ child'[t].overflowed <=> child[t].overflowed
        /\ \A u \in Tasks \ {t} : child'[u] = child[u]
    BY <1>1, <2>1 DEF Runs, Phases
  <2>3. child' \in [Tasks -> Runs]
    BY <1>1, <2>1, <2>2
  <2>4. QueueTypeOK'
    BY <1>1, <1>4, <2>1, <2>3 DEF QueueTypeOK, RunTypeOK
  <2>5. \A u \in Tasks : ~Busy(u)'
    BY <1>3, <2>2 DEF Busy
  <2>6. OneRunAtATime' /\ WaitersHaveALoop'
    BY <1>6, <2>1, <2>5 DEF OneRunAtATime, WaitersHaveALoop
  <2>7. QueuedOnce' /\ QueuedArePending'
    BY <1>6, <2>1 DEF QueuedOnce, QueuedArePending
  <2>8. UnsentAreIdle' /\ OutcomesAreHonest' /\ VerdictsAreOutcomes'
    BY <1>2, <1>4, <1>5, <2>2
       DEF UnsentAreIdle, OutcomesAreHonest, VerdictsAreOutcomes, Verdicts
  <2> QED
    BY <2>4, <2>6, <2>7, <2>8
<1>7. CASE queue # <<>>
  <2>h. PICK h \in Tasks : h = Head(queue)
    BY <1>1, <1>7, ShiftQueue
  <2>1. /\ child' = [child EXCEPT ![t].phase = "settled", ![h].phase = "preparing"]
        /\ queue' = Tail(queue)
        /\ isProcessing' = isProcessing
    BY <1>7, <2>h DEF RunSettles
  <2>2. /\ h = queue[1]
        /\ 1 \in 1..Len(queue)
        /\ queue' \in Seq(Tasks)
        /\ Len(queue') = Len(queue) - 1
        /\ Len(queue) \in Nat
        /\ \A i \in 1..Len(queue') : i + 1 \in 1..Len(queue) /\ queue'[i] = queue[i + 1]
    BY <1>1, <1>7, <2>h, <2>1, ShiftQueue
  <2>3. /\ promise[h] = "pending"
        /\ child[h].phase = "idle"
        /\ h # t
    BY <1>2, <2>2 DEF QueuedArePending
  <2>4. \A i \in 1..Len(queue') : queue'[i] \in Tasks \ {h, t}
    <3> SUFFICES ASSUME NEW i \in 1..Len(queue') PROVE queue'[i] \in Tasks \ {h, t}
      OBVIOUS
    <3>1. i + 1 \in 1..Len(queue) /\ i + 1 # 1 /\ queue'[i] = queue[i + 1]
      BY <2>2
    <3>2. queue[i + 1] # h
      BY <3>1, <2>2 DEF QueuedOnce
    <3>3. queue[i + 1] # t
      BY <3>1, <1>2 DEF QueuedArePending
    <3> QED
      BY <1>1, <3>1, <3>2, <3>3
  <2>5. /\ child'[t] = [child[t] EXCEPT !.phase = "settled"]
        /\ child'[h] = [child[h] EXCEPT !.phase = "preparing"]
        /\ \A u \in Tasks \ {h, t} : child'[u] = child[u]
    BY <1>1, <2>1, <2>2, <2>3
  <2>6. /\ child'[t] \in Runs
        /\ child'[t].phase = "settled"
        /\ child'[t].outcome = child[t].outcome
        /\ child'[t].timedOut <=> child[t].timedOut
        /\ child'[t].overflowed <=> child[t].overflowed
    BY <1>1, <2>5 DEF Runs, Phases
  <2>7. /\ child'[h] \in Runs
        /\ child'[h].phase = "preparing"
        /\ child'[h].outcome = child[h].outcome
        /\ child'[h].timedOut <=> child[h].timedOut
        /\ child'[h].overflowed <=> child[h].overflowed
    BY <1>1, <2>h, <2>5 DEF Runs, Phases
  <2>8. child' \in [Tasks -> Runs]
    <3>1. \A u \in Tasks : child'[u] \in Runs
      BY <1>1, <2>5, <2>6, <2>7
    <3> QED
      BY <1>1, <2>1, <3>1
  <2>9. QueueTypeOK'
    BY <1>1, <1>4, <2>1, <2>2, <2>8 DEF QueueTypeOK, RunTypeOK
  <2>10. Busy(h)' /\ \A u \in Tasks \ {h} : ~Busy(u)'
    BY <1>3, <2>5, <2>6, <2>7 DEF Busy
  <2>11. OneRunAtATime' /\ WaitersHaveALoop'
    BY <1>2, <2>1, <2>2, <2>10 DEF OneRunAtATime, WaitersHaveALoop
  <2>12. QueuedOnce'
    <3> SUFFICES ASSUME NEW i \in 1..Len(queue'), NEW j \in 1..Len(queue'),
                        queue'[i] = queue'[j]
                 PROVE  i = j
      BY DEF QueuedOnce
    <3>1. queue[i + 1] = queue[j + 1] /\ i + 1 \in 1..Len(queue) /\ j + 1 \in 1..Len(queue)
      BY <2>2
    <3>2. i + 1 = j + 1
      BY <3>1 DEF QueuedOnce
    <3> QED
      BY <3>2
  <2>13. QueuedArePending'
    <3> SUFFICES ASSUME NEW i \in 1..Len(queue')
                 PROVE  promise'[queue'[i]] = "pending" /\ child'[queue'[i]].phase = "idle"
      BY DEF QueuedArePending
    <3>1. promise[queue'[i]] = "pending" /\ child[queue'[i]].phase = "idle"
      BY <2>2 DEF QueuedArePending
    <3> QED
      BY <1>4, <2>4, <2>5, <3>1
  <2>14. UnsentAreIdle'
    BY <1>2, <1>4, <2>2, <2>3, <2>5, <1>5, <1>1 DEF UnsentAreIdle, Verdicts
  <2>15. OutcomesAreHonest'
    <3>1. \A u \in Tasks : SamePart(child[u], child'[u])
      <4>1. SamePart(child[t], child'[t])
        BY <1>2, <2>6 DEF SamePart, Early
      <4>2. SamePart(child[h], child'[h])
        BY <2>3, <2>7 DEF SamePart, Early
      <4>3. \A u \in Tasks \ {h, t} : SamePart(child[u], child'[u])
        BY <2>5 DEF SamePart, Early
      <4> QED
        BY <4>1, <4>2, <4>3
    <3> QED
      BY <3>1, OutcomesStay
  <2>16. VerdictsAreOutcomes'
    <3> SUFFICES ASSUME NEW u \in Tasks, promise'[u] \in Verdicts \ {"watchdog"}
                 PROVE  child'[u].phase = "settled" /\ promise'[u] = child'[u].outcome
      BY DEF VerdictsAreOutcomes
    <3>1. CASE u = t
      BY <3>1, <1>4, <1>5, <2>6
    <3>2. CASE u = h
      BY <3>2, <1>4, <2>3 DEF Verdicts
    <3>3. CASE u \in Tasks \ {h, t}
      BY <3>3, <1>4, <2>5 DEF VerdictsAreOutcomes
    <3> QED
      BY <3>1, <3>2, <3>3
  <2> QED
    BY <2>9, <2>11, <2>12, <2>13, <2>14, <2>15, <2>16
<1> QED
  BY <1>6, <1>7

(***************************************************************************)
(* Every step of the queue, and every stuttering step, keeps the           *)
(* invariant.                                                              *)
(***************************************************************************)
THEOREM QueueInvStep == QueueInv /\ [QueueNext]_queueVars => QueueInv'
<1> SUFFICES ASSUME QueueInv, [QueueNext]_queueVars PROVE QueueInv'
  OBVIOUS
<1>1. ASSUME NEW t \in Tasks, Enqueue(t) PROVE QueueInv'
  BY <1>1, EnqueueKeepsInv
<1>2. ASSUME NEW t \in Tasks, Watchdog(t) PROVE QueueInv'
  BY <1>2, WatchdogKeepsInv
<1>3. ASSUME NEW t \in Tasks, RunSettles(t) PROVE QueueInv'
  BY <1>3, RunSettlesKeepsInv
<1>4. ASSUME NEW t \in Tasks, ChildStep(t) PROVE QueueInv'
  BY <1>4, ChildStepKeepsInv
<1>5. CASE UNCHANGED queueVars
  BY <1>5 DEF queueVars, QueueInv, QueueTypeOK, RunTypeOK, OneRunAtATime, Busy,
              WaitersHaveALoop, QueuedOnce, QueuedArePending, UnsentAreIdle,
              OutcomesAreHonest, VerdictsAreOutcomes
<1> QED
  BY <1>1, <1>2, <1>3, <1>4, <1>5 DEF QueueNext, QueueStep

-----------------------------------------------------------------------------
(* What follows for every behaviour *)

(***************************************************************************)
(* The inductive invariant holds in every reachable state.                 *)
(***************************************************************************)
THEOREM QueueSafety == QueueSpec => []QueueInv
<1>1. QueueInit => QueueInv
  BY QueueInvInit
<1>2. QueueInv /\ [QueueNext]_queueVars => QueueInv'
  BY QueueInvStep
<1> QED
  BY <1>1, <1>2, PTL DEF QueueSpec

(***************************************************************************)
(* The state of the queue stays within its types.                          *)
(***************************************************************************)
THEOREM QueueTypes == QueueSpec => []QueueTypeOK
<1>1. QueueInv => QueueTypeOK
  BY DEF QueueInv
<1> QED
  BY <1>1, QueueSafety, PTL

(***************************************************************************)
(* However many scripts are enqueued, and whatever timers fire and         *)
(* children outlive them, no two runs are in service at once.              *)
(***************************************************************************)
THEOREM ScriptsAreSerial == QueueSpec => []OneRunAtATime
<1>1. QueueInv => OneRunAtATime
  BY DEF QueueInv
<1> QED
  BY <1>1, QueueSafety, PTL

(***************************************************************************)
(* A task never waits in the queue without a loop that will come to it.    *)
(***************************************************************************)
THEOREM NoLostWakeUp == QueueSpec => []WaitersHaveALoop
<1>1. QueueInv => WaitersHaveALoop
  BY DEF QueueInv
<1> QED
  BY <1>1, QueueSafety, PTL

(***************************************************************************)
(* Both together: the queue is well formed and no task is left waiting.    *)
(***************************************************************************)
THEOREM QueueIsSound == QueueSpec => []QueueSound
<1>1. QueueTypeOK /\ WaitersHaveALoop => QueueSound
  BY DEF QueueSound
<1> QED
  BY <1>1, QueueTypes, NoLostWakeUp, PTL

(***************************************************************************)
(* "ok" is never said of a run that was being killed, and no verdict but   *)
(* the watchdog's is given before the child is gone.                       *)
(***************************************************************************)
THEOREM HonestVerdicts == QueueSpec => []VerdictsAreHonest
<1>1. QueueInv => VerdictsAreHonest
  BY DEF QueueInv, VerdictsAreHonest, VerdictsAreOutcomes, OutcomesAreHonest, Verdicts
<1> QED
  BY <1>1, QueueSafety, PTL

(***************************************************************************)
(* A verdict once given is never changed, however the watchdog and the run *)
(* race.                                                                   *)
(***************************************************************************)
THEOREM FinalVerdicts == QueueSpec => VerdictsAreFinal
<1>1. QueueInv /\ [QueueNext]_queueVars
        => [\A t \in Tasks : promise[t] \in Verdicts => promise'[t] = promise[t]]_queueVars
  <2> SUFFICES ASSUME QueueInv, QueueNext, NEW u \in Tasks, promise[u] \in Verdicts
               PROVE  promise'[u] = promise[u]
    OBVIOUS
  <2>1. PICK t \in Tasks : Enqueue(t) \/ QueueStep(t)
    BY DEF QueueNext
  <2>2. promise \in [Tasks -> Promises] /\ promise[u] \notin {"unsent", "pending"}
    BY DEF QueueInv, QueueTypeOK, Verdicts
  <2> QED
    BY <2>1, <2>2 DEF Enqueue, QueueStep, Watchdog, RunSettles, ChildStep, SettleTask
<1> QED
  BY <1>1, QueueSafety, PTL DEF QueueSpec, VerdictsAreFinal

-----------------------------------------------------------------------------
(* The queue implements the line of SerialLine *)

LEMMA LineFacts ==
    ASSUME NEW q \in Seq(Tasks), NEW t \in Tasks, NEW u \in Tasks
    PROVE  /\ <<t>> \o q # <<>>
           /\ Head(<<t>> \o q) = t
           /\ Tail(<<t>> \o q) = q
           /\ Append(<<t>> \o q, u) = <<t>> \o Append(q, u)
           /\ <<t>> \o <<>> = Append(<<>>, t)
           /\ q # <<>> => <<Head(q)>> \o Tail(q) = q
  OBVIOUS

(***************************************************************************)
(* The line is the task in service, if there is one, before the queue.     *)
(***************************************************************************)
LEMMA LineNow ==
    /\ \A t \in Tasks : OneRunAtATime /\ Busy(t) => Line = <<t>> \o queue
    /\ (\A t \in Tasks : ~Busy(t)) => Line = queue
  BY DEF OneRunAtATime, Line, InService

LEMMA LineNext ==
    /\ \A t \in Tasks : OneRunAtATime' /\ Busy(t)' => Line' = <<t>> \o queue'
    /\ (\A t \in Tasks : ~Busy(t)') => Line' = queue'
  BY DEF OneRunAtATime, Line, InService

Came   == {t \in Tasks : promise[t] # "unsent"}
Answer == [t \in Tasks |-> {promise[t]} \cap Verdicts]

(***************************************************************************)
(* Every step of the queue is an arrival, an answer to the head of the     *)
(* line, the head's leaving, or leaves the line alone.                     *)
(***************************************************************************)
LEMMA StepOfTheLine ==
    ASSUME QueueInv, QueueInv', QueueNext
    PROVE  [Serial!Next]_<<Line, Came, Answer>>
<1> USE DEF QueueInv
<1>1. /\ queue \in Seq(Tasks) /\ queue' \in Seq(Tasks)
      /\ promise \in [Tasks -> Promises] /\ promise' \in [Tasks -> Promises]
      /\ isProcessing \in BOOLEAN
      /\ child \in [Tasks -> Runs]
  BY DEF QueueTypeOK, RunTypeOK
<1>2. ASSUME NEW t \in Tasks, Enqueue(t) PROVE Serial!Arrive(t)
  <2>1. promise[t] = "unsent" /\ promise' = [promise EXCEPT ![t] = "pending"]
    BY <1>2 DEF Enqueue
  <2>2. t \notin Came /\ Came' = Came \cup {t}
    BY <1>1, <2>1 DEF Came
  <2>3. Answer' = Answer
    <3>1. \A u \in Tasks : {promise'[u]} \cap Verdicts = {promise[u]} \cap Verdicts
      BY <1>1, <2>1 DEF Verdicts
    <3> QED
      BY <3>1 DEF Answer
  <2>4. Line' = Append(Line, t)
    <3>1. CASE isProcessing
      <4>1. queue' = Append(queue, t) /\ child' = child
        BY <1>2, <3>1 DEF Enqueue
      <4>2. PICK u \in Tasks : Busy(u)
        BY <3>1 DEF WaitersHaveALoop
      <4>3. Busy(u)'
        BY <4>1, <4>2 DEF Busy
      <4>4. Line = <<u>> \o queue
        BY <4>2, LineNow
      <4>5. Line' = <<u>> \o queue'
        BY <4>3, LineNext
      <4> QED
        BY <1>1, <4>1, <4>4, <4>5, LineFacts
    <3>2. CASE ~isProcessing
      <4>1. queue = <<>> /\ \A u \in Tasks : ~Busy(u)
        BY <3>2 DEF WaitersHaveALoop
      <4>2. queue' = queue /\ child' = [child EXCEPT ![t].phase = "preparing"]
        BY <1>2, <3>2 DEF Enqueue
      <4>3. Busy(t)'
        BY <1>1, <4>2 DEF Busy, Runs
      <4> QED
        BY <1>1, <4>1, <4>2, <4>3, LineNow, LineNext, LineFacts
    <3> QED
      BY <1>1, <3>1, <3>2
  <2> QED
    BY <2>2, <2>3, <2>4 DEF Serial!Arrive, Came, Answer
<1>3. ASSUME NEW t \in Tasks, Watchdog(t) PROVE Serial!AnswerHead("watchdog")
  <2>1. /\ Busy(t) /\ promise[t] = "pending"
        /\ promise' = [promise EXCEPT ![t] = "watchdog"]
        /\ child' = child /\ queue' = queue
    BY <1>3 DEF Watchdog, SettleTask
  <2>2. Busy(t)'
    BY <2>1 DEF Busy
  <2>3. Line = <<t>> \o queue /\ Line' = <<t>> \o queue
    BY <2>1, <2>2, LineNow, LineNext
  <2>4. Line # <<>> /\ Head(Line) = t /\ Line' = Line
    BY <1>1, <2>3, LineFacts
  <2>5. Came' = Came
    BY <1>1, <2>1 DEF Came
  <2>6. Answer[t] = {} /\ Answer' = [Answer EXCEPT ![t] = {"watchdog"}]
    <3>1. {promise[t]} \cap Verdicts = {} /\ {promise'[t]} \cap Verdicts = {"watchdog"}
      BY <1>1, <2>1 DEF Verdicts
    <3>2. \A u \in Tasks \ {t} : promise'[u] = promise[u]
      BY <1>1, <2>1
    <3> QED
      BY <3>1, <3>2 DEF Answer
  <2> QED
    BY <2>4, <2>5, <2>6 DEF Serial!AnswerHead, Came, Answer
<1>4. ASSUME NEW t \in Tasks, NEW o, o = child[t].outcome, RunSettles(t)
      PROVE  o \in Verdicts /\ Serial!Leave(o)
  <2>1. /\ Busy(t) /\ child[t].phase = "cleaning"
        /\ promise' = SettleTask(promise, t, o)
    BY <1>4 DEF RunSettles, Busy
  <2>2. o \in Verdicts /\ promise[t] \in {"pending", "watchdog"}
    BY <1>1, <1>4, <2>1 DEF OutcomesAreHonest, UnsentAreIdle, VerdictsAreOutcomes,
                      Runs, Outcomes, Verdicts, Promises
  <2>3. Line = <<t>> \o queue
    BY <2>1, LineNow
  <2>4. Line # <<>> /\ Head(Line) = t /\ Tail(Line) = queue
    BY <1>1, <2>3, LineFacts
  <2>5. Line' = queue
    <3>1. CASE queue = <<>>
      <4>1. queue' = queue /\ isProcessing' = FALSE
        BY <1>4, <3>1 DEF RunSettles
      <4>2. \A u \in Tasks : ~Busy(u)'
        BY <4>1 DEF WaitersHaveALoop
      <4> QED
        BY <4>1, <4>2, LineNext
    <3>2. CASE queue # <<>>
      <4>1. PICK h \in Tasks : h = Head(queue)
        BY <1>1, <3>2, ShiftQueue
      <4>2. /\ queue' = Tail(queue)
            /\ child' = [child EXCEPT ![t].phase = "settled", ![h].phase = "preparing"]
        BY <1>4, <3>2, <4>1 DEF RunSettles
      <4>3. h = queue[1] /\ 1 \in 1..Len(queue)
        BY <1>1, <3>2, <4>1, ShiftQueue
      <4>4. h # t
        BY <2>1, <4>3 DEF QueuedArePending
      <4>5. child'[h] = [child[h] EXCEPT !.phase = "preparing"]
        BY <1>1, <4>2, <4>4
      <4>6. Busy(h)'
        BY <1>1, <4>5 DEF Busy, Runs
      <4>7. Line' = <<h>> \o queue'
        BY <4>6, LineNext
      <4> QED
        BY <1>1, <3>2, <4>1, <4>2, <4>7, LineFacts
    <3> QED
      BY <3>1, <3>2
  <2>6. /\ promise[t] = "pending" => promise' = [promise EXCEPT ![t] = o]
        /\ promise[t] # "pending" => promise' = promise
    BY <2>1 DEF SettleTask
  <2>7. Came' = Came
    BY <1>1, <2>2, <2>6 DEF Came, Verdicts
  <2>8. Answer' = IF Answer[t] = {} THEN [Answer EXCEPT ![t] = {o}] ELSE Answer
    <3>1. CASE promise[t] = "pending"
      <4>1. {promise[t]} \cap Verdicts = {} /\ {promise'[t]} \cap Verdicts = {o}
        BY <1>1, <2>2, <2>6, <3>1 DEF Verdicts
      <4>2. \A u \in Tasks \ {t} : promise'[u] = promise[u]
        BY <1>1, <2>6, <3>1
      <4> QED
        BY <4>1, <4>2 DEF Answer
    <3>2. CASE promise[t] = "watchdog"
      <4>1. {promise[t]} \cap Verdicts # {} /\ promise' = promise
        BY <2>6, <3>2 DEF Verdicts
      <4> QED
        BY <4>1 DEF Answer
    <3> QED
      BY <2>2, <3>1, <3>2
  <2> QED
    BY <2>2, <2>4, <2>5, <2>7, <2>8 DEF Serial!Leave, Came, Answer
<1>5. ASSUME NEW t \in Tasks, ChildStep(t) PROVE UNCHANGED <<Line, Came, Answer>>
  <2>1. UNCHANGED <<queue, promise>>
    BY <1>5 DEF ChildStep
  <2>2. Busy(t) /\ Busy(t)'
    BY <1>5, RunStepEffect DEF ChildStep, QueueTypeOK
  <2>3. Line = <<t>> \o queue
    BY <2>2, LineNow
  <2>4. Line' = <<t>> \o queue'
    BY <2>2, LineNext
  <2> QED
    BY <2>1, <2>3, <2>4 DEF Came, Answer
<1>6. PICK t \in Tasks : Enqueue(t) \/ QueueStep(t)
  BY DEF QueueNext
<1>7. CASE Enqueue(t)
  BY <1>2, <1>7 DEF Serial!Next
<1>8. CASE Watchdog(t)
  <2>1. "watchdog" \in Verdicts
    BY DEF Verdicts
  <2> QED
    BY <1>3, <1>8, <2>1 DEF Serial!Next
<1>9. CASE RunSettles(t)
  <2>1. PICK o : o = child[t].outcome
    OBVIOUS
  <2>2. o \in Verdicts /\ Serial!Leave(o)
    BY <1>4, <1>9, <2>1
  <2> QED
    BY <2>2 DEF Serial!Next
<1>10. CASE ChildStep(t)
  BY <1>5, <1>10
<1> QED
  BY <1>6, <1>7, <1>8, <1>9, <1>10 DEF QueueStep

(***************************************************************************)
(* The queue with its loop, its watchdogs and the child processes it       *)
(* starts serves its callers one at a time, in the order of their calls,   *)
(* and answers each exactly once.                                          *)
(***************************************************************************)
THEOREM QueueServesInOrder == QueueSpec => ServesInOrder
<1>1. QueueInit => Serial!Init
  <2> SUFFICES ASSUME QueueInit PROVE Serial!Init
    OBVIOUS
  <2>1. \A t \in Tasks : ~Busy(t) /\ promise[t] = "unsent"
    BY DEF QueueInit, RunInit, NewRun, Busy
  <2>2. Line = <<>>
    BY <2>1, LineNow DEF QueueInit
  <2>3. Came = {}
    BY <2>1 DEF Came
  <2>4. Answer = [t \in Tasks |-> {}]
    <3>1. \A t \in Tasks : {promise[t]} \cap Verdicts = {}
      BY <2>1 DEF Verdicts
    <3> QED
      BY <3>1 DEF Answer
  <2> QED
    BY <2>2, <2>3, <2>4 DEF Serial!Init, Came, Answer
<1>2. QueueInv /\ QueueInv' /\ [QueueNext]_queueVars => [Serial!Next]_Serial!vars
  <2> SUFFICES ASSUME QueueInv, QueueInv', [QueueNext]_queueVars
               PROVE  [Serial!Next]_Serial!vars
    OBVIOUS
  <2>1. CASE QueueNext
    BY <2>1, StepOfTheLine DEF Serial!vars, Came, Answer
  <2>2. CASE UNCHANGED queueVars
    BY <2>2 DEF queueVars, Serial!vars, Line, InService, Busy
  <2> QED
    BY <2>1, <2>2
<1>3. QueueSpec => []QueueInv
  BY QueueSafety
<1> QED
  BY <1>1, <1>2, <1>3, PTL DEF QueueSpec, ServesInOrder, Serial!Spec

-----------------------------------------------------------------------------
(* The connection *)

(***************************************************************************)
(* What the host may not do here.  A probe whose child could not even be   *)
(* spawned says nothing of Photoshop and yet drops the flag; and a check   *)
(* for late success that ends without running its script leaves the flag   *)
(* as it has dropped it.                                                   *)
(***************************************************************************)
HostIsKind ==
    /\ "script" \notin HostFailures
    /\ Checkers # {} => "launch" \notin HostFailures

(***************************************************************************)
(* The line holds each script once, those that came and no others, and     *)
(* only the script in service may have been answered already.              *)
(***************************************************************************)
InLine(s) == \E i \in 1..Len(line) : line[i] = s

LineOK ==
    /\ \A i, j \in 1..Len(line) : line[i] = line[j] => i = j
    /\ \A s \in Scripts : InLine(s) \/ answer[s] # {} => s \in came
    /\ \A i \in 1..Len(line) : i # 1 => answer[line[i]] = {}

(***************************************************************************)
(* Photoshop executes nothing once it has told the child in service how    *)
(* its script went, nor when it is not running.                            *)
(***************************************************************************)
HostOK == reply # "none" \/ ~psUp => executing = {}

(***************************************************************************)
(* A call past its detection has found Photoshop, and only the tools that  *)
(* check for late success make a second attempt.                           *)
(***************************************************************************)
PlacesOK ==
    \A c \in Calls :
        /\ pc[c] \in {"probing", "launching", "settling", "running", "checking"} => found
        /\ attempt[c] = "check" => found
        /\ attempt[c] = "check" \/ pc[c] = "checking" => c \in Checkers

(***************************************************************************)
(* A call awaits its own script until that has been answered.              *)
(***************************************************************************)
Own(c) == <<c, "first", "script">>

OwnRunning(c) == pc[c] = "running" /\ attempt[c] = "first"

OwnAwaited ==
    \A c \in Calls : Own(c) \in came /\ answer[Own(c)] = {} => OwnRunning(c)

(***************************************************************************)
(* When a call is told anything but a timeout, Photoshop is idle, and no   *)
(* killed child is left whose script it could still execute.               *)
(***************************************************************************)
Answered == {"ok", "error", "overflow"}

NothingLeft ==
    /\ executing = {}
    /\ \A s \in Scripts : InLine(s) => answer[s] = {}

AnswersTell ==
    \A c \in Calls :
        pc[c] \in {"launching", "settling", "running"} /\ Told(c, Answered) => NothingLeft

(***************************************************************************)
(* While the script of a call may go on in Photoshop after its answer, the *)
(* flag is set, or the call is about to set it, or the check for late      *)
(* success is on its way, and will.                                        *)
(***************************************************************************)
MayGoOn(c) ==
    \/ Own(c) \in executing
    \/ InLine(Own(c)) /\ answer[Own(c)] # {}

CheckUnderWay ==
    \E d \in Calls :
        /\ attempt[d] = "check"
        /\ pc[d] \in {"detecting", "probing", "launching", "running"}

Remembered ==
    \A c \in Calls : MayGoOn(c) => awaiting \/ OwnRunning(c) \/ CheckUnderWay

IInv ==
    /\ TypeOK
    /\ LineOK
    /\ HostOK
    /\ PlacesOK
    /\ OwnAwaited
    /\ AnswersTell
    /\ Remembered

(***************************************************************************)
(* With one call at a time: whoever has a script in the line or in         *)
(* Photoshop is alone there.                                               *)
(***************************************************************************)
OneCall == \A c, d \in InFlight : c = d

Live(c) == Own(c) \in executing \/ InLine(Own(c))

OneLive == \A c, d \in Calls : Live(c) /\ Live(d) => c = d

OneInv == IInv /\ OneCall /\ OneLive

-----------------------------------------------------------------------------
(* The line *)

(***************************************************************************)
(* A script that arrives is new, stands in the line behind those that were *)
(* there, and has no answer.                                               *)
(***************************************************************************)
LEMMA ArriveFacts ==
    ASSUME TypeOK, LineOK, NEW s \in Scripts, Queue!Arrive(s)
    PROVE  /\ line' \in Seq(Scripts)
           /\ came' = came \cup {s} /\ answer' = answer
           /\ s \notin came /\ answer[s] = {}
           /\ \A t \in Scripts : InLine(t)' <=> InLine(t) \/ t = s
           /\ LineOK'
<1> USE DEF Queue!Arrive
<1>1. line \in Seq(Scripts) /\ line' = Append(line, s) /\ answer' = answer
      /\ came' = came \cup {s} /\ s \notin came
  BY DEF TypeOK
<1>2. /\ line' \in Seq(Scripts)
      /\ Len(line) \in Nat /\ Len(line') = Len(line) + 1
      /\ line'[Len(line) + 1] = s
      /\ \A i \in 1..Len(line) : line'[i] = line[i] /\ line[i] \in Scripts
  BY <1>1
<1>3. answer[s] = {}
  BY <1>1 DEF LineOK
<1>4. ASSUME NEW t \in Scripts
      PROVE  InLine(t)' <=> InLine(t) \/ t = s
  <2>1. InLine(t)' <=> \E i \in 1..(Len(line) + 1) : line'[i] = t
    BY <1>2 DEF InLine
  <2>2. QED
    BY <2>1, <1>2 DEF InLine
<1>5. ~InLine(s)
  BY <1>1 DEF LineOK
<1>6. ASSUME NEW i \in 1..Len(line'), NEW j \in 1..Len(line'), line'[i] = line'[j]
      PROVE  i = j
  BY <1>2, <1>5, <1>6 DEF InLine, LineOK
<1>7. ASSUME NEW i \in 1..Len(line'), i # 1
      PROVE  answer'[line'[i]] = {}
  <2>1. i = Len(line) + 1 \/ (i \in 1..Len(line) /\ line'[i] = line[i])
    BY <1>2
  <2>2. QED
    BY <1>1, <1>2, <1>3, <1>7, <2>1 DEF LineOK
<1>8. ASSUME NEW t \in Scripts, InLine(t)' \/ answer'[t] # {}
      PROVE  t \in came'
  BY <1>1, <1>4, <1>8 DEF LineOK
<1>9. LineOK'
  BY <1>6, <1>7, <1>8 DEF LineOK
<1>10. QED
  BY <1>1, <1>2, <1>3, <1>4, <1>9

(***************************************************************************)
(* Only the script in service is answered, and only if it has not been;    *)
(* when it leaves, no script in the line has an answer.                    *)
(***************************************************************************)
LEMMA ServeFacts ==
    ASSUME TypeOK, LineOK, NEW v \in Answers, Queue!Leave(v) \/ Queue!AnswerHead(v)
    PROVE  /\ line # <<>> /\ Head(line) \in Scripts /\ InLine(Head(line))
           /\ line' \in Seq(Scripts) /\ came' = came
           /\ answer' \in [Scripts -> SUBSET Answers]
           /\ \A t \in Scripts : InLine(t)' => InLine(t)
           /\ \A t \in Scripts : \/ answer'[t] = answer[t]
                                 \/ InLine(t) /\ answer[t] = {} /\ answer'[t] = {v}
           /\ Queue!Leave(v) => \A t \in Scripts : InLine(t)' => answer'[t] = {}
           /\ LineOK'
<1>1. PICK h : h = Head(line)
  OBVIOUS
<1>2. /\ line \in Seq(Scripts) /\ line # <<>> /\ h \in Scripts /\ h = line[1]
      /\ Len(line) \in Nat /\ 1 \in 1..Len(line) /\ InLine(h) /\ came' = came
      /\ answer \in [Scripts -> SUBSET Answers]
  BY <1>1 DEF TypeOK, Queue!Leave, Queue!AnswerHead, InLine
<1>3. \/ answer[h] = {} /\ answer' = [answer EXCEPT ![h] = {v}]
      \/ answer[h] # {} /\ answer' = answer
  BY <1>1 DEF Queue!Leave, Queue!AnswerHead
<1>4. /\ answer' \in [Scripts -> SUBSET Answers]
      /\ answer'[h] # {}
      /\ \A t \in Scripts : t # h => answer'[t] = answer[t]
      /\ \A t \in Scripts : \/ answer'[t] = answer[t]
                            \/ InLine(t) /\ answer[t] = {} /\ answer'[t] = {v}
  BY <1>2, <1>3
<1>5. h \in came
  BY <1>2 DEF LineOK
<1>6. ASSUME NEW t \in Scripts, answer'[t] # {}
      PROVE  t \in came'
  BY <1>2, <1>4, <1>5, <1>6 DEF LineOK
<1>7. CASE Queue!Leave(v)
  <2>1. line' = Tail(line)
    BY <1>7 DEF Queue!Leave
  <2>2. /\ line' \in Seq(Scripts) /\ Len(line') = Len(line) - 1
        /\ \A i \in 1..Len(line') : i + 1 \in 1..Len(line) /\ line'[i] = line[i + 1]
                                     /\ line[i + 1] \in Scripts
    BY <2>1, <1>2
  <2>3. \A i \in 1..Len(line') : line'[i] # h /\ answer[line'[i]] = {}
    BY <2>2, <1>2 DEF LineOK
  <2>4. \A i \in 1..Len(line') : answer'[line'[i]] = {}
    BY <2>2, <2>3, <1>4
  <2>5. ASSUME NEW t \in Scripts, InLine(t)'
        PROVE  InLine(t) /\ answer'[t] = {}
    <3>1. PICK i \in 1..Len(line') : line'[i] = t
      BY <2>5 DEF InLine
    <3>2. QED
      BY <3>1, <2>2, <2>4 DEF InLine
  <2>6. ASSUME NEW i \in 1..Len(line'), NEW j \in 1..Len(line'), line'[i] = line'[j]
        PROVE  i = j
    <3>1. i + 1 \in 1..Len(line) /\ j + 1 \in 1..Len(line) /\ line[i + 1] = line[j + 1]
      BY <2>2, <2>6
    <3>2. i + 1 = j + 1
      BY <3>1 DEF LineOK
    <3>3. QED
      BY <3>2, <2>2, <1>2
  <2>7. ASSUME NEW t \in Scripts, InLine(t)'
        PROVE  t \in came'
    BY <2>5, <2>7, <1>2 DEF LineOK
  <2>8. LineOK'
    BY <2>4, <2>6, <2>7, <1>6 DEF LineOK
  <2>9. QED
    BY <2>2, <2>5, <2>8, <1>1, <1>2, <1>4
<1>8. CASE ~Queue!Leave(v)
  <2>1. line' = line
    BY <1>8 DEF Queue!AnswerHead
  <2>2. \A t \in Scripts : InLine(t)' <=> InLine(t)
    BY <2>1 DEF InLine
  <2>3. ASSUME NEW i \in 1..Len(line'), i # 1
        PROVE  answer'[line'[i]] = {}
    <3>1. i \in 1..Len(line) /\ line[i] \in Scripts /\ line[i] # h /\ answer[line[i]] = {}
      BY <2>1, <2>3, <1>2 DEF LineOK
    <3>2. QED
      BY <2>1, <3>1, <1>4
  <2>4. ASSUME NEW t \in Scripts, InLine(t)'
        PROVE  t \in came'
    BY <2>2, <2>4, <1>2 DEF LineOK
  <2>5. \A i, j \in 1..Len(line') : line'[i] = line'[j] => i = j
    BY <2>1 DEF LineOK
  <2>6. LineOK'
    BY <2>3, <2>4, <2>5, <1>6 DEF LineOK
  <2>7. QED
    BY <2>1, <2>2, <2>6, <1>1, <1>2, <1>4, <1>8
<1>9. QED
  BY <1>7, <1>8

-----------------------------------------------------------------------------
(* A call goes on *)

(***************************************************************************)
(* Where a call goes that goes on: to the probe for the process, or to a   *)
(* script, which arrives in the queue.  It waits for Photoshop only when   *)
(* the flag is set, and runs its own script only when it is not, or when   *)
(* nothing is left that Photoshop could still execute.                     *)
(***************************************************************************)
GoesOn(c) ==
    \E p \in {"probing", "launching", "settling", "running"} :
        /\ pc' = [pc EXCEPT ![c] = p]
        /\ p = "probing" => UNCHANGED lineVars
        /\ p # "probing" => Queue!Arrive(<<c, attempt[c], KindAt(p)>>)
        /\ p = "settling" => awaiting
        /\ p = "running" => ~awaiting \/ NothingLeft

(***************************************************************************)
(* ensureRunning and settleAfterTimeout are ways to go on.                 *)
(***************************************************************************)
LEMMA SettleOrRunGoesOn ==
    ASSUME NEW c \in Calls, SettleOrRun(c)
    PROVE  GoesOn(c)
<1>1. CASE awaiting
  <2>1. KindAt("settling") = "settle"
    BY DEF KindAt
  <2>2. QED
    BY <1>1, <2>1 DEF SettleOrRun, GoesOn
<1>2. CASE ~awaiting
  <2>1. KindAt("running") = "script"
    BY DEF KindAt
  <2>2. QED
    BY <1>2, <2>1 DEF SettleOrRun, RunOwnScript, GoesOn
<1>3. QED
  BY <1>1, <1>2

(***************************************************************************)
(* ensureRunning may stop at the probe for the process.                    *)
(***************************************************************************)
LEMMA EnsureRunningGoesOn ==
    ASSUME NEW c \in Calls, EnsureRunning(c)
    PROVE  GoesOn(c)
  BY SettleOrRunGoesOn DEF EnsureRunning, GoesOn

(***************************************************************************)
(* Going on keeps the invariant.  It may drop the flag when nothing is     *)
(* left that Photoshop could still execute.                                *)
(***************************************************************************)
LEMMA GoingOnKeeps ==
    ASSUME IInv, NEW c \in Calls, pc[c] # "running", GoesOn(c), found,
           UNCHANGED <<found, attempt, result, psVars>>,
           detections' \in {0, 1}, latch' \in BOOLEAN,
           awaiting' = awaiting \/ (NothingLeft /\ awaiting' \in BOOLEAN)
    PROVE  IInv'
<1> USE DEF IInv
<1>1. PICK p \in {"probing", "launching", "settling", "running"} :
        /\ pc' = [pc EXCEPT ![c] = p]
        /\ p = "probing" => UNCHANGED lineVars
        /\ p # "probing" => Queue!Arrive(<<c, attempt[c], KindAt(p)>>)
        /\ p = "settling" => awaiting
  BY DEF GoesOn
<1>2. PICK s : s = <<c, attempt[c], KindAt(p)>>
  OBVIOUS
<1>3. /\ attempt[c] \in Attempts /\ KindAt(p) \in Kinds /\ s \in Scripts
      /\ KindAt(p) = "script" => p \in {"probing", "running"}
  BY <1>2 DEF TypeOK, KindAt, Kinds, Scripts, Attempts
<1>4. /\ pc \in [Calls -> Places] /\ pc' \in [Calls -> Places] /\ pc'[c] = p
      /\ \A d \in Calls : d # c => pc'[d] = pc[d]
      /\ attempt' = attempt /\ executing' = executing /\ found' = found
  BY <1>1 DEF TypeOK, Places, psVars
<1>5. /\ line' \in Seq(Scripts) /\ came' \in SUBSET Scripts
      /\ answer' = answer
      /\ \A t \in came' : t \in came \/ (t = s /\ p # "probing")
      /\ \A t \in Scripts : InLine(t)' => InLine(t) \/ answer[t] = {}
      /\ p # "probing" => answer[s] = {}
      /\ LineOK'
  <2>1. CASE p = "probing"
    <3>1. line' = line /\ came' = came /\ answer' = answer
      BY <1>1, <2>1 DEF lineVars
    <3>2. QED
      BY <2>1, <3>1 DEF TypeOK, LineOK, InLine
  <2>2. CASE p # "probing"
    <3>1. Queue!Arrive(s)
      BY <1>1, <1>2, <2>2
    <3>2. QED
      BY <3>1, <1>3, <2>2, ArriveFacts DEF TypeOK
  <2>3. QED
    BY <2>1, <2>2
<1>6. TypeOK'
  BY <1>4, <1>5 DEF TypeOK, psVars
<1>7. HostOK'
  BY DEF HostOK, psVars
<1>8. PlacesOK'
  BY <1>1, <1>4 DEF PlacesOK
<1>9. OwnAwaited'
  <2>1. ASSUME NEW d \in Calls, Own(d) \in came', answer'[Own(d)] = {}
        PROVE  pc'[d] = "running" /\ attempt'[d] = "first"
    <3>1. CASE Own(d) \in came
      BY <1>4, <1>5, <2>1, <3>1 DEF OwnAwaited, OwnRunning
    <3>2. CASE Own(d) = s /\ p # "probing"
      BY <1>2, <1>3, <1>4, <3>2 DEF Own
    <3>3. QED
      BY <1>5, <2>1, <3>1, <3>2
  <2>2. QED
    BY <2>1 DEF OwnAwaited, OwnRunning, Own
<1>10. NothingLeft => NothingLeft'
  BY <1>4, <1>5 DEF NothingLeft
<1>11. AnswersTell'
  <2>1. ASSUME NEW d \in Calls,
               pc'[d] \in {"launching", "settling", "running"},
               answer'[<<d, attempt'[d], KindAt(pc'[d])>>] \cap Answered # {}
        PROVE  NothingLeft'
    <3>1. d # c
      BY <1>2, <1>4, <1>5, <2>1
    <3>2. QED
      BY <1>4, <1>5, <1>10, <2>1, <3>1 DEF AnswersTell, Told, Awaited
  <2>2. QED
    BY <2>1 DEF AnswersTell, Told, Awaited
<1>12. Remembered'
  <2>1. ASSUME NEW d \in Calls, MayGoOn(d)'
        PROVE  awaiting' \/ OwnRunning(d)' \/ CheckUnderWay'
    <3>1. MayGoOn(d) /\ ~NothingLeft
      <4>1. Own(d) \in Scripts
        BY DEF Own, Scripts, Attempts, Kinds
      <4>2. QED
        BY <1>4, <1>5, <2>1, <4>1 DEF MayGoOn, NothingLeft
    <3>2. CASE awaiting
      BY <3>1, <3>2
    <3>3. CASE OwnRunning(d)
      BY <1>4, <3>3 DEF OwnRunning
    <3>4. CASE CheckUnderWay
      <4>1. PICK e \in Calls : /\ attempt[e] = "check"
                               /\ pc[e] \in {"detecting", "probing", "launching", "running"}
        BY <3>4 DEF CheckUnderWay
      <4>2. CASE e = c /\ p = "settling"
        BY <1>1, <3>1, <4>2
      <4>3. CASE e # c \/ p # "settling"
        BY <1>1, <1>4, <4>1, <4>3 DEF CheckUnderWay
      <4>4. QED
        BY <4>2, <4>3
    <3>5. QED
      BY <3>1, <3>2, <3>3, <3>4 DEF Remembered
  <2>2. QED
    BY <2>1 DEF Remembered
<1>13. QED
  BY <1>5, <1>6, <1>7, <1>8, <1>9, <1>11, <1>12

-----------------------------------------------------------------------------
(* A call ends *)

(***************************************************************************)
(* A call that ends, or turns to its check, keeps the invariant: whatever  *)
(* it was the last to know of, the flag now says, or nothing is left.      *)
(***************************************************************************)
LEMMA EndingKeeps ==
    ASSUME IInv, NEW c \in Calls, NEW p \in {"done", "checking"},
           pc' = [pc EXCEPT ![c] = p],
           p = "checking" => found /\ c \in Checkers,
           pc[c] = "running" => answer[Awaited(c)] # {},
           UNCHANGED <<lineVars, found, detections, attempt, psVars>>,
           result' \in [Calls -> Results], latch' \in BOOLEAN,
           awaiting' \in BOOLEAN, awaiting => awaiting',
           \/ awaiting'
           \/ NothingLeft
           \/ /\ pc[c] # "running"
              /\ attempt[c] = "check" => pc[c] \notin {"detecting", "probing", "launching"}
    PROVE  IInv'
<1> USE DEF IInv
<1>1. /\ line' = line /\ came' = came /\ answer' = answer /\ executing' = executing
      /\ attempt' = attempt /\ found' = found /\ psUp' = psUp /\ reply' = reply
      /\ detections' = detections
  BY DEF lineVars, psVars
<1>2. /\ pc \in [Calls -> Places] /\ pc' \in [Calls -> Places] /\ pc'[c] = p
      /\ \A d \in Calls : d # c => pc'[d] = pc[d]
  BY DEF TypeOK, Places
<1>3. TypeOK'
  BY <1>1, <1>2 DEF TypeOK
<1>4. LineOK' /\ HostOK'
  BY <1>1 DEF LineOK, HostOK, InLine
<1>5. PlacesOK'
  BY <1>1, <1>2 DEF PlacesOK
<1>6. OwnAwaited'
  <2>1. ASSUME NEW d \in Calls, Own(d) \in came, answer[Own(d)] = {}
        PROVE  pc'[d] = "running" /\ attempt[d] = "first"
    <3>1. OwnRunning(d)
      BY <2>1 DEF OwnAwaited
    <3>2. d # c
      <4>1. SUFFICES ASSUME d = c PROVE FALSE
        OBVIOUS
      <4>2. KindAt("running") = "script"
        BY DEF KindAt
      <4>3. Awaited(c) = Own(c)
        BY <3>1, <4>1, <4>2 DEF OwnRunning, Awaited, Own
      <4>4. QED
        BY <2>1, <3>1, <4>1, <4>3 DEF OwnRunning
    <3>3. QED
      BY <1>2, <3>1, <3>2 DEF OwnRunning
  <2>2. QED
    BY <1>1, <2>1 DEF OwnAwaited, OwnRunning, Own
<1>7. NothingLeft' <=> NothingLeft
  BY <1>1 DEF NothingLeft, InLine
<1>8. AnswersTell'
  <2>1. ASSUME NEW d \in Calls,
               pc'[d] \in {"launching", "settling", "running"},
               answer[<<d, attempt[d], KindAt(pc'[d])>>] \cap Answered # {}
        PROVE  NothingLeft'
    BY <1>2, <1>7, <2>1 DEF AnswersTell, Told, Awaited
  <2>2. QED
    BY <1>1, <2>1 DEF AnswersTell, Told, Awaited
<1>9. Remembered'
  <2>1. ASSUME NEW d \in Calls, MayGoOn(d)'
        PROVE  awaiting' \/ OwnRunning(d)' \/ CheckUnderWay'
    <3>1. MayGoOn(d) /\ ~NothingLeft
      <4>1. Own(d) \in Scripts
        BY DEF Own, Scripts, Attempts, Kinds
      <4>2. QED
        BY <1>1, <2>1, <4>1 DEF MayGoOn, NothingLeft, InLine
    <3>2. CASE awaiting'
      BY <3>2
    <3>3. CASE ~awaiting' /\ OwnRunning(d)
      BY <1>1, <1>2, <3>1, <3>3 DEF OwnRunning
    <3>4. CASE ~awaiting' /\ CheckUnderWay
      <4>1. PICK e \in Calls : /\ attempt[e] = "check"
                               /\ pc[e] \in {"detecting", "probing", "launching", "running"}
        BY <3>4 DEF CheckUnderWay
      <4>2. e # c
        BY <3>1, <3>4, <4>1
      <4>3. QED
        BY <1>1, <1>2, <4>1, <4>2 DEF CheckUnderWay
    <3>5. QED
      BY <3>1, <3>2, <3>3, <3>4 DEF Remembered
  <2>2. QED
    BY <2>1 DEF Remembered
<1>10. QED
  BY <1>3, <1>4, <1>5, <1>6, <1>8, <1>9

(***************************************************************************)
(* The catch of executeScript is such an end.                              *)
(***************************************************************************)
LEMMA FailKeeps ==
    ASSUME IInv, NEW c \in Calls, NEW why \in Results, Fail(c, why),
           why = "timeout" => found,
           pc[c] = "running" => answer[Awaited(c)] # {},
           UNCHANGED <<lineVars, found, detections, attempt, psVars>>,
           \/ why = "timeout"
           \/ NothingLeft
           \/ /\ pc[c] # "running"
              /\ attempt[c] = "check" => pc[c] \notin {"detecting", "probing", "launching"}
    PROVE  IInv'
<1>1. PICK p \in {"done", "checking"} :
          /\ pc' = [pc EXCEPT ![c] = p]
          /\ p = "checking" => why = "timeout" /\ c \in Checkers
  BY DEF Fail
<1>2. /\ result' \in [Calls -> Results] /\ latch' \in BOOLEAN
      /\ awaiting' \in BOOLEAN /\ (awaiting => awaiting') /\ (why = "timeout" => awaiting')
  BY DEF Fail, IInv, TypeOK
<1>3. QED
  BY <1>1, <1>2, EndingKeeps

-----------------------------------------------------------------------------
(* Photoshop and the queue *)

(***************************************************************************)
(* While no call has news, no call has been told anything.                 *)
(***************************************************************************)
LEMMA QuietFacts ==
    ASSUME Quiet, TypeOK, NEW c \in Calls,
           pc[c] \in {"launching", "settling", "running"}
    PROVE  answer[Awaited(c)] = {} /\ Awaited(c) \in Scripts
<1>1. Awaited(c) \in Scripts
  BY DEF Awaited, KindAt, Scripts, TypeOK, Kinds
<1>2. answer[Awaited(c)] \subseteq Answers
  BY <1>1 DEF TypeOK
<1>3. QED
  BY <1>1, <1>2 DEF Quiet, Runnable, Told

(***************************************************************************)
(* Photoshop starting, quitting, executing and finishing.                  *)
(***************************************************************************)
LEMMA PhotoshopKeeps ==
    ASSUME IInv, Quiet, UNCHANGED <<lineVars, connVars, callVars>>,
           PsFinishes \/ PsStarts \/ PsQuits \/ \E s \in Scripts : PsExecutes(s)
    PROVE  IInv'
<1> USE DEF IInv
<1>1. /\ line' = line /\ came' = came /\ answer' = answer /\ found' = found
      /\ attempt' = attempt /\ pc' = pc /\ result' = result /\ awaiting' = awaiting
      /\ latch' = latch /\ detections' = detections
  BY DEF lineVars, connVars, callVars
<1>2. /\ psUp' \in BOOLEAN /\ executing' \in SUBSET Scripts /\ reply' \in Replies
      /\ HostOK'
  BY DEF TypeOK, Replies, HostOK, PsFinishes, PsStarts, PsQuits, PsExecutes
<1>3. TypeOK' /\ LineOK' /\ PlacesOK' /\ OwnAwaited'
  BY <1>1, <1>2 DEF TypeOK, LineOK, InLine, PlacesOK, OwnAwaited, OwnRunning, Own
<1>4. AnswersTell'
  <2>1. \A c \in Calls : pc[c] \in {"launching", "settling", "running"} => Awaited(c)' = Awaited(c)
                          /\ answer'[Awaited(c)] = {}
    BY <1>1, QuietFacts DEF Awaited
  <2>2. QED
    BY <1>1, <2>1 DEF AnswersTell, Told
<1>5. Remembered'
  <2>1. ASSUME NEW c \in Calls, MayGoOn(c)'
        PROVE  awaiting \/ OwnRunning(c) \/ CheckUnderWay
    <3>1. CASE MayGoOn(c)
      BY <3>1 DEF Remembered
    <3>2. CASE ~MayGoOn(c)
      <4>1. PICK s \in Scripts : PsExecutes(s) /\ s = Own(c)
        BY <1>1, <2>1, <3>2 DEF MayGoOn, InLine, PsFinishes, PsStarts, PsQuits, PsExecutes
      <4>2. line \in Seq(Scripts) /\ line # <<>> /\ Own(c) = line[1] /\ 1 \in 1..Len(line)
        BY <4>1 DEF PsExecutes, InFront, TypeOK
      <4>3. InLine(Own(c))
        BY <4>2 DEF InLine
      <4>4. Own(c) \in came /\ answer[Own(c)] = {}
        BY <3>2, <4>1, <4>3 DEF LineOK, MayGoOn
      <4>5. QED
        BY <4>4 DEF OwnAwaited
    <3>3. QED
      BY <3>1, <3>2
  <2>2. QED
    BY <1>1, <2>1 DEF Remembered, OwnRunning, CheckUnderWay
<1>6. QED
  BY <1>2, <1>3, <1>4, <1>5

(***************************************************************************)
(* The queue answers the script in service.                                *)
(***************************************************************************)
LEMMA ServingKeeps ==
    ASSUME IInv, HostIsKind, NEW s \in Scripts, NEW v \in Answers,
           RunEnds(s, v) \/ (v = "watchdog" /\ WatchdogFires(s))
    PROVE  IInv'
<1> USE DEF IInv
<1>1. /\ Quiet /\ InFront(s)
      /\ Queue!Leave(v) \/ Queue!AnswerHead(v)
      /\ v # "watchdog" => Queue!Leave(v)
      /\ v \in Answered => executing = {}
      /\ reply' \in {"none", reply}
  BY DEF RunEnds, WatchdogFires, CanEndWith, HostOK, HostIsKind, Answered, psVars
<1>2. /\ executing' = executing /\ found' = found /\ psUp' = psUp
      /\ attempt' = attempt /\ pc' = pc /\ result' = result /\ awaiting' = awaiting
      /\ latch' = latch /\ detections' = detections
  BY DEF RunEnds, WatchdogFires, connVars, callVars, psVars
<1>3. /\ line # <<>> /\ Head(line) \in Scripts /\ InLine(Head(line))
      /\ line' \in Seq(Scripts) /\ came' = came
      /\ answer' \in [Scripts -> SUBSET Answers]
      /\ \A t \in Scripts : InLine(t)' => InLine(t)
      /\ \A t \in Scripts : \/ answer'[t] = answer[t]
                            \/ InLine(t) /\ answer[t] = {} /\ answer'[t] = {v}
      /\ Queue!Leave(v) => \A t \in Scripts : InLine(t)' => answer'[t] = {}
      /\ LineOK'
  BY <1>1, ServeFacts
<1>4. TypeOK'
  BY <1>1, <1>2, <1>3 DEF TypeOK, Replies
<1>5. HostOK' /\ PlacesOK'
  BY <1>1, <1>2 DEF HostOK, PlacesOK
<1>6. OwnAwaited'
  <2>1. \A c \in Calls : Own(c) \in Scripts
    BY DEF Own, Scripts, Attempts, Kinds
  <2>2. \A c \in Calls : Own(c) \in came /\ answer'[Own(c)] = {} => OwnRunning(c)
    BY <1>3, <2>1 DEF OwnAwaited
  <2>3. QED
    BY <1>2, <1>3, <2>2 DEF OwnAwaited, OwnRunning, Own
<1>7. AnswersTell'
  <2>1. ASSUME NEW c \in Calls, pc[c] \in {"launching", "settling", "running"},
               answer'[Awaited(c)] \cap Answered # {}
        PROVE  NothingLeft'
    <3>1. answer[Awaited(c)] = {} /\ Awaited(c) \in Scripts
      BY <1>1, <2>1, QuietFacts
    <3>2. answer'[Awaited(c)] = {v}
      BY <1>3, <2>1, <3>1
    <3>3. v \in Answered /\ v # "watchdog"
      BY <2>1, <3>2 DEF Answered
    <3>4. QED
      BY <1>1, <1>2, <1>3, <3>3 DEF NothingLeft
  <2>2. \A c \in Calls : Awaited(c)' = Awaited(c)
    BY <1>2 DEF Awaited
  <2>3. QED
    BY <1>2, <2>1, <2>2 DEF AnswersTell, Told, Answered
<1>8. Remembered'
  <2>1. ASSUME NEW c \in Calls, MayGoOn(c)'
        PROVE  awaiting \/ OwnRunning(c) \/ CheckUnderWay
    <3>1. CASE MayGoOn(c)
      BY <3>1 DEF Remembered
    <3>2. CASE ~MayGoOn(c)
      <4>1. Own(c) \in Scripts
        BY DEF Own, Scripts, Attempts, Kinds
      <4>2. InLine(Own(c)) /\ answer[Own(c)] = {}
        BY <1>2, <1>3, <2>1, <3>2, <4>1 DEF MayGoOn
      <4>3. Own(c) \in came
        BY <4>1, <4>2 DEF LineOK
      <4>4. QED
        BY <4>2, <4>3 DEF OwnAwaited
    <3>3. QED
      BY <3>1, <3>2
  <2>2. QED
    BY <1>2, <2>1 DEF Remembered, OwnRunning, CheckUnderWay
<1>9. QED
  BY <1>3, <1>4, <1>5, <1>6, <1>7, <1>8

-----------------------------------------------------------------------------
(* The invariant *)

(***************************************************************************)
(* It holds in the beginning, when no call has begun.                      *)
(***************************************************************************)
LEMMA InitInv == Init => IInv
<1> SUFFICES ASSUME Init PROVE IInv
  OBVIOUS
<1> USE DEF Init, Queue!Init
<1>1. line \in Seq(Scripts) /\ line = <<>> /\ came = {} /\ executing = {}
      /\ \A s \in Scripts : answer[s] = {}
  OBVIOUS
<1>2. TypeOK
  BY <1>1 DEF TypeOK, Places, Results, Replies, Attempts
<1>3. LineOK
  BY <1>1 DEF LineOK, InLine
<1>4. HostOK /\ PlacesOK /\ OwnAwaited
  BY <1>1 DEF HostOK, PlacesOK, OwnAwaited
<1>5. AnswersTell
  BY DEF AnswersTell
<1>6. Remembered
  BY <1>1 DEF Remembered, MayGoOn, InLine
<1>7. QED
  BY <1>2, <1>3, <1>4, <1>5, <1>6 DEF IInv

(***************************************************************************)
(* A call that enters its detection, at its beginning or for its check.    *)
(***************************************************************************)
LEMMA DetectingKeeps ==
    ASSUME IInv, NEW c \in Calls, NEW a \in Attempts,
           pc[c] \in {"idle", "checking"},
           pc' = [pc EXCEPT ![c] = "detecting"], attempt' = [attempt EXCEPT ![c] = a],
           a = "check" => found /\ c \in Checkers,
           UNCHANGED <<lineVars, found, latch, result, psVars>>,
           detections' \in {0, 1},
           awaiting' = awaiting \/ (awaiting' = FALSE /\ a = "check"),
           a = attempt[c] \/ a = "check"
    PROVE  IInv'
<1> USE DEF IInv
<1>1. /\ line' = line /\ came' = came /\ answer' = answer /\ executing' = executing
      /\ found' = found /\ psUp' = psUp /\ reply' = reply /\ latch' = latch
      /\ result' = result
  BY DEF lineVars, psVars
<1>2. /\ pc \in [Calls -> Places] /\ pc' \in [Calls -> Places] /\ pc'[c] = "detecting"
      /\ attempt \in [Calls -> Attempts] /\ attempt' \in [Calls -> Attempts]
      /\ attempt'[c] = a
      /\ \A d \in Calls : d # c => pc'[d] = pc[d] /\ attempt'[d] = attempt[d]
  BY DEF TypeOK, Places
<1>3. TypeOK'
  BY <1>1, <1>2 DEF TypeOK
<1>4. LineOK' /\ HostOK'
  BY <1>1 DEF LineOK, HostOK, InLine
<1>5. PlacesOK'
  BY <1>1, <1>2 DEF PlacesOK
<1>6. OwnAwaited'
  <2>1. ASSUME NEW d \in Calls, Own(d) \in came, answer[Own(d)] = {}
        PROVE  pc'[d] = "running" /\ attempt'[d] = "first"
    BY <1>2, <2>1 DEF OwnAwaited, OwnRunning
  <2>2. QED
    BY <1>1, <2>1 DEF OwnAwaited, OwnRunning, Own
<1>7. NothingLeft' <=> NothingLeft
  BY <1>1 DEF NothingLeft, InLine
<1>8. AnswersTell'
  <2>1. ASSUME NEW d \in Calls,
               pc'[d] \in {"launching", "settling", "running"},
               answer[<<d, attempt'[d], KindAt(pc'[d])>>] \cap Answered # {}
        PROVE  NothingLeft'
    BY <1>2, <1>7, <2>1 DEF AnswersTell, Told, Awaited
  <2>2. QED
    BY <1>1, <2>1 DEF AnswersTell, Told, Awaited
<1>9. Remembered'
  <2>1. ASSUME NEW d \in Calls, MayGoOn(d)'
        PROVE  awaiting' \/ OwnRunning(d)' \/ CheckUnderWay'
    <3>1. MayGoOn(d)
      BY <1>1, <2>1 DEF MayGoOn, InLine
    <3>2. CASE a = "check"
      BY <1>2, <3>2 DEF CheckUnderWay
    <3>3. CASE a # "check" /\ OwnRunning(d)
      BY <1>2, <3>3 DEF OwnRunning
    <3>4. CASE a # "check" /\ CheckUnderWay
      BY <1>2, <3>4 DEF CheckUnderWay
    <3>5. CASE a # "check" /\ awaiting
      BY <3>5
    <3>6. QED
      BY <3>1, <3>2, <3>3, <3>4, <3>5 DEF Remembered
  <2>2. QED
    BY <2>1 DEF Remembered
<1>10. QED
  BY <1>3, <1>4, <1>5, <1>6, <1>8, <1>9

(***************************************************************************)
(* A detection that ends, and a latch that expires, concern no script.     *)
(***************************************************************************)
LEMMA ClockKeeps ==
    ASSUME IInv, UNCHANGED <<lineVars, awaiting, callVars, psVars>>,
           found' \in {found, TRUE}, detections' \in {0, 1}, latch' \in BOOLEAN
    PROVE  IInv'
<1> USE DEF IInv
<1>1. /\ line' = line /\ came' = came /\ answer' = answer /\ executing' = executing
      /\ psUp' = psUp /\ reply' = reply /\ result' = result /\ pc' = pc
      /\ attempt' = attempt /\ awaiting' = awaiting
  BY DEF lineVars, psVars, callVars
<1>2. TypeOK' /\ LineOK' /\ HostOK' /\ PlacesOK'
  BY <1>1 DEF TypeOK, LineOK, InLine, HostOK, PlacesOK
<1>3. OwnAwaited' /\ AnswersTell'
  BY <1>1 DEF OwnAwaited, OwnRunning, Own, AnswersTell, Told, Awaited, NothingLeft, InLine,
              Answered
<1>4. Remembered'
  BY <1>1 DEF Remembered, MayGoOn, OwnRunning, CheckUnderWay, Own, InLine
<1>5. QED
  BY <1>2, <1>3, <1>4

(***************************************************************************)
(* A step of a call.                                                       *)
(***************************************************************************)
LEMMA CallKeeps ==
    ASSUME IInv, HostIsKind, NEW c \in Calls, Begin(c) \/ CallStep(c) \/ LaunchFails(c)
    PROVE  IInv'
<1>1. /\ detections \in {0, 1} /\ latch \in BOOLEAN /\ awaiting \in BOOLEAN
      /\ attempt[c] \in Attempts /\ result \in [Calls -> Results]
      /\ attempt \in [Calls -> Attempts]
  BY DEF IInv, TypeOK
<1>2. pc[c] \in {"probing", "launching", "settling", "running", "checking"} => found
  BY DEF IInv, PlacesOK
<1>3. attempt[c] = "check" => found /\ c \in Checkers
  BY DEF IInv, PlacesOK
<1>4. pc[c] \in {"launching", "settling", "running"} /\ Told(c, Answered) => NothingLeft
  BY DEF IInv, AnswersTell
<1>5. pc[c] \in {"settling", "running"} /\ Runnable(c) /\ ~TimedOut(c) => NothingLeft
  BY <1>4 DEF Runnable, TimedOut, Told, Answers, Answered
<1>6. pc[c] = "running" /\ Runnable(c) => answer[Awaited(c)] # {}
  BY DEF Runnable, Told
<1>7. CASE Begin(c)
  <2>1. CASE found
    BY <1>1, <1>7, <2>1, EnsureRunningGoesOn, GoingOnKeeps DEF Begin
  <2>2. CASE ~found
    <3>1. attempt' = [attempt EXCEPT ![c] = attempt[c]]
      BY <1>1, <1>7 DEF Begin
    <3>2. detections' \in {0, 1}
      BY <1>1, <1>7, <2>2 DEF Begin
    <3>3. QED
      BY <1>1, <1>3, <1>7, <2>2, <3>1, <3>2, DetectingKeeps DEF Begin
  <2>3. QED
    BY <2>1, <2>2
<1>8. CASE Detected(c)
  <2>1. CASE found
    BY <1>1, <1>8, <2>1, EnsureRunningGoesOn, GoingOnKeeps DEF Detected
  <2>2. CASE ~found
    BY <1>3, <1>8, <2>2, FailKeeps DEF Detected, Results
  <2>3. QED
    BY <2>1, <2>2
<1>9. CASE SeenRunning(c)
  BY <1>1, <1>2, <1>9, SettleOrRunGoesOn, GoingOnKeeps DEF SeenRunning
<1>10. CASE SeenDown(c)
  <2>1. KindAt("launching") = "probe"
    BY DEF KindAt
  <2>2. GoesOn(c)
    BY <1>10, <2>1 DEF SeenDown, GoesOn
  <2>3. QED
    BY <1>1, <1>2, <1>10, <2>2, GoingOnKeeps DEF SeenDown, connVars
<1>11. CASE Launched(c)
  BY <1>1, <1>2, <1>11, SettleOrRunGoesOn, GoingOnKeeps DEF Launched, connVars
<1>12. CASE Settled(c)
  <2>1. CASE TimedOut(c)
    BY <1>12, <2>1, FailKeeps DEF Settled, Results
  <2>2. CASE ~TimedOut(c)
    <3>1. GoesOn(c)
      <4>1. KindAt("running") = "script"
        BY DEF KindAt
      <4>2. QED
        BY <1>5, <1>12, <2>2, <4>1 DEF Settled, RunOwnScript, GoesOn
    <3>2. QED
      BY <1>1, <1>2, <1>5, <1>12, <2>2, <3>1, GoingOnKeeps DEF Settled
  <2>3. QED
    BY <2>1, <2>2
<1>13. CASE Finished(c)
  <2>1. CASE Told(c, {"ok"})
    <3>1. NothingLeft
      BY <1>4, <1>13, <2>1 DEF Finished, Told, Answered
    <3>2. result' \in [Calls -> Results]
      BY <1>1, <1>13, <2>1 DEF Finished, Results
    <3>3. QED
      BY <1>1, <1>6, <1>13, <2>1, <3>1, <3>2, EndingKeeps DEF Finished
  <2>2. CASE ~Told(c, {"ok"})
    <3>1. PICK why \in {"timeout", "error"} :
              Fail(c, why) /\ (why = "timeout" <=> TimedOut(c))
      BY <1>13, <2>2 DEF Finished
    <3>2. QED
      BY <1>2, <1>5, <1>6, <1>13, <3>1, FailKeeps DEF Finished, Results
  <2>3. QED
    BY <2>1, <2>2
<1>14. CASE Check(c)
  <2>1. found /\ c \in Checkers
    BY <1>14 DEF IInv, PlacesOK, Check
  <2>2. QED
    BY <1>1, <1>14, <2>1, DetectingKeeps DEF Check, Attempts
<1>15. CASE LaunchFails(c)
  <2>1. attempt[c] # "check"
    BY <1>3, <1>15 DEF LaunchFails, HostIsKind
  <2>2. QED
    BY <1>15, <2>1, FailKeeps DEF LaunchFails, Results
<1>16. QED
  BY <1>7, <1>8, <1>9, <1>10, <1>11, <1>12, <1>13, <1>14, <1>15 DEF CallStep

(***************************************************************************)
(* Every step keeps the invariant.                                         *)
(***************************************************************************)
LEMMA StepInv == IInv /\ HostIsKind /\ [Next]_vars => IInv'
<1> SUFFICES ASSUME IInv, HostIsKind, [Next]_vars PROVE IInv'
  OBVIOUS
<1>1. detections \in {0, 1} /\ latch \in BOOLEAN /\ found \in BOOLEAN
  BY DEF IInv, TypeOK
<1>2. CASE DetectionEnds
  <2>1. detections' \in {0, 1} /\ latch' \in BOOLEAN
    BY <1>1, <1>2 DEF DetectionEnds
  <2>2. QED
    BY <1>2, <2>1, ClockKeeps DEF DetectionEnds
<1>3. CASE LatchExpires
  BY <1>1, <1>3, ClockKeeps DEF LatchExpires
<1>4. CASE PsFinishes \/ PsStarts \/ PsQuits \/ \E s \in Scripts : PsExecutes(s)
  <2>1. Quiet /\ UNCHANGED <<lineVars, connVars, callVars>>
    BY <1>4 DEF PsFinishes, PsStarts, PsQuits, PsExecutes
  <2>2. QED
    BY <1>4, <2>1, PhotoshopKeeps
<1>5. ASSUME NEW c \in Calls, Begin(c) \/ CallStep(c) \/ LaunchFails(c)
      PROVE  IInv'
  BY <1>5, CallKeeps
<1>6. ASSUME NEW s \in Scripts, NEW v \in Answers, RunEnds(s, v)
      PROVE  IInv'
  BY <1>6, ServingKeeps
<1>7. ASSUME NEW s \in Scripts, WatchdogFires(s)
      PROVE  IInv'
  <2>1. "watchdog" \in Answers
    BY DEF Answers
  <2>2. QED
    BY <1>7, <2>1, ServingKeeps
<1>8. CASE UNCHANGED vars
  BY <1>1, <1>8, ClockKeeps DEF vars, connVars
<1>9. QED
  BY <1>2, <1>3, <1>4, <1>5, <1>6, <1>7, <1>8 DEF Next

(***************************************************************************)
(* Of any number of calls at once, on a host that loses no script: the     *)
(* flag of a timeout that Photoshop may still be busy with is never        *)
(* dropped unnoticed, however the calls interleave (platform/connection.ts)*)
(***************************************************************************)
THEOREM TimeoutsAreRemembered ==
    ASSUME HostIsKind
    PROVE  Spec => []ConnectionInv
<1>1. IInv => ConnectionInv
  <2>1. SUFFICES ASSUME IInv, InFlight = {}, NEW c \in Calls, Own(c) \in executing
                 PROVE  awaiting
    BY DEF ConnectionInv, TimeoutRemembered, IInv, Own
  <2>2. \A d \in Calls : pc[d] \in {"idle", "done"}
    BY <2>1 DEF InFlight
  <2>3. QED
    BY <2>1, <2>2 DEF IInv, Remembered, MayGoOn, OwnRunning, CheckUnderWay
<1>2. QED
  BY <1>1, InitInv, StepInv, HostIsKind, PTL DEF Spec

-----------------------------------------------------------------------------
(* One call at a time *)

(***************************************************************************)
(* What a step of a call may move: the call goes on with a script of its   *)
(* own, or moves to another place and leaves the queue alone.              *)
(***************************************************************************)
LEMMA CallStepShape ==
    ASSUME IInv, NEW c \in Calls, Begin(c) \/ CallStep(c) \/ LaunchFails(c)
    PROVE  /\ executing' = executing
           /\ pc[c] # "done"
           /\ pc[c] = "idle" => Cardinality(InFlight) < MaxInFlight
           /\ \/ GoesOn(c) /\ pc[c] # "running" /\ attempt' = attempt
              \/ /\ UNCHANGED lineVars
                 /\ \E p \in Places : pc' = [pc EXCEPT ![c] = p]
<1>1. pc[c] = "settling" /\ Runnable(c) /\ ~TimedOut(c) => NothingLeft
  BY DEF IInv, AnswersTell, Runnable, TimedOut, Told, Answers, Answered
<1>2. KindAt("running") = "script" /\ KindAt("launching") = "probe"
  BY DEF KindAt
<1>3. \A why \in Results : Fail(c, why) => \E p \in Places : pc' = [pc EXCEPT ![c] = p]
  BY DEF Fail, Places
<1>4. CASE Begin(c)
  <2>1. CASE found
    BY <1>4, <2>1, EnsureRunningGoesOn DEF Begin, psVars
  <2>2. CASE ~found
    BY <1>4, <2>2 DEF Begin, psVars, Places
  <2>3. QED
    BY <2>1, <2>2
<1>5. CASE Detected(c)
  <2>1. CASE found
    BY <1>5, <2>1, EnsureRunningGoesOn DEF Detected, psVars
  <2>2. CASE ~found
    BY <1>3, <1>5, <2>2 DEF Detected, psVars, Results
  <2>3. QED
    BY <2>1, <2>2
<1>6. CASE SeenRunning(c) \/ Launched(c)
  BY <1>6, SettleOrRunGoesOn DEF SeenRunning, Launched, psVars
<1>7. CASE SeenDown(c)
  <2>1. GoesOn(c)
    BY <1>2, <1>7 DEF SeenDown, GoesOn
  <2>2. QED
    BY <1>7, <2>1 DEF SeenDown, psVars
<1>8. CASE Settled(c)
  <2>1. CASE TimedOut(c)
    BY <1>3, <1>8, <2>1 DEF Settled, psVars, Results
  <2>2. CASE ~TimedOut(c)
    <3>1. GoesOn(c)
      BY <1>1, <1>2, <1>8, <2>2 DEF Settled, RunOwnScript, GoesOn
    <3>2. QED
      BY <1>8, <2>2, <3>1 DEF Settled, psVars
  <2>3. QED
    BY <2>1, <2>2
<1>9. CASE Finished(c)
  <2>1. CASE Told(c, {"ok"})
    BY <1>9, <2>1 DEF Finished, psVars, Places
  <2>2. CASE ~Told(c, {"ok"})
    BY <1>3, <1>9, <2>2 DEF Finished, psVars, Results
  <2>3. QED
    BY <2>1, <2>2
<1>10. CASE Check(c)
  BY <1>10 DEF Check, psVars, Places
<1>11. CASE LaunchFails(c)
  BY <1>3, <1>11 DEF LaunchFails, psVars, Results
<1>12. QED
  BY <1>4, <1>5, <1>6, <1>7, <1>8, <1>9, <1>10, <1>11 DEF CallStep

(***************************************************************************)
(* When a call that is alone runs its own script, no other is in the way.  *)
(***************************************************************************)
LEMMA AloneWhenItRuns ==
    ASSUME IInv, NEW c \in Calls, pc[c] # "running", attempt[c] = "first",
           \A d \in InFlight : d = c,
           ~awaiting \/ NothingLeft
    PROVE  \A d \in Calls : ~Live(d)
<1>1. ASSUME NEW d \in Calls PROVE ~OwnRunning(d)
  BY DEF OwnRunning, InFlight
<1>2. ~CheckUnderWay
  BY DEF CheckUnderWay, InFlight
<1>3. ASSUME NEW d \in Calls, Live(d) PROVE FALSE
  <2>1. Own(d) \in Scripts
    BY DEF Own, Scripts, Attempts, Kinds
  <2>2. ~MayGoOn(d)
    <3>1. CASE ~awaiting
      BY <1>1, <1>2, <3>1 DEF IInv, Remembered
    <3>2. CASE NothingLeft
      BY <2>1, <3>2 DEF NothingLeft, MayGoOn
    <3>3. QED
      BY <3>1, <3>2
  <2>3. InLine(Own(d)) /\ answer[Own(d)] = {}
    BY <1>3, <2>2 DEF Live, MayGoOn
  <2>4. Own(d) \in came
    BY <2>1, <2>3 DEF IInv, LineOK
  <2>5. QED
    BY <1>1, <2>3, <2>4 DEF IInv, OwnAwaited
<1>4. QED
  BY <1>3

(***************************************************************************)
(* With one call at a time, every step leaves at most one of the calls'    *)
(* own scripts in the line and in Photoshop together.                      *)
(***************************************************************************)
LEMMA OneStep ==
    OneInv /\ HostIsKind /\ MaxInFlight = 1 /\ [Next]_vars => OneInv'
<1> SUFFICES ASSUME OneInv, HostIsKind, MaxInFlight = 1, [Next]_vars PROVE OneInv'
  OBVIOUS
<1> USE DEF OneInv
<1>1. IInv'
  BY StepInv
<1>2. \A d \in Calls : Own(d) \in Scripts
  BY DEF Own, Scripts, Attempts, Kinds
<1>3. ASSUME NEW c \in Calls, Begin(c) \/ CallStep(c) \/ LaunchFails(c)
      PROVE  OneCall' /\ OneLive'
  <2>1. /\ executing' = executing
        /\ pc[c] # "done"
        /\ pc[c] = "idle" => Cardinality(InFlight) < MaxInFlight
        /\ \/ GoesOn(c) /\ pc[c] # "running" /\ attempt' = attempt
           \/ /\ UNCHANGED lineVars
              /\ \E p \in Places : pc' = [pc EXCEPT ![c] = p]
    BY <1>3, CallStepShape
  <2>2. pc \in [Calls -> Places]
    BY DEF IInv, TypeOK
  <2>3. \A d \in InFlight : d = c
    <3>1. CASE pc[c] = "idle"
      <4>1. IsFiniteSet(InFlight) /\ Cardinality(InFlight) \in Nat
        BY CallsAssumption, FS_Subset, FS_CardinalityType DEF InFlight
      <4>2. InFlight = {}
        BY <2>1, <3>1, <4>1, FS_EmptySet
      <4>3. QED
        BY <4>2
    <3>2. CASE pc[c] # "idle"
      BY <2>1, <3>2 DEF OneCall, InFlight
    <3>3. QED
      BY <3>1, <3>2
  <2>4. \A d \in Calls : d # c => pc'[d] = pc[d]
    BY <2>1, <2>2 DEF GoesOn
  <2>5. OneCall'
    BY <2>3, <2>4 DEF OneCall, InFlight
  <2>6. CASE UNCHANGED lineVars
    <3>1. \A d \in Calls : Own(d) \in executing' \/ InLine(Own(d))' => Live(d)
      BY <2>1, <2>6 DEF Live, InLine, lineVars
    <3>2. QED
      BY <2>5, <3>1 DEF OneLive, Live, Own
  <2>7. CASE GoesOn(c) /\ pc[c] # "running" /\ attempt' = attempt /\ ~UNCHANGED lineVars
    <3>1. PICK p \in {"launching", "settling", "running"} :
              /\ Queue!Arrive(<<c, attempt[c], KindAt(p)>>)
              /\ p = "running" => ~awaiting \/ NothingLeft
      BY <2>7 DEF GoesOn
    <3>2. PICK s \in Scripts : s = <<c, attempt[c], KindAt(p)>>
      <4>1. attempt[c] \in Attempts /\ KindAt(p) \in Kinds
        BY DEF IInv, TypeOK, Kinds, KindAt
      <4>2. QED
        BY <4>1 DEF Scripts
    <3>3. \A t \in Scripts : InLine(t)' <=> InLine(t) \/ t = s
      BY <3>1, <3>2, ArriveFacts DEF IInv
    <3>4. CASE p = "running" /\ attempt[c] = "first"
      <4>1. \A d \in Calls : ~Live(d)
        BY <2>3, <2>7, <3>1, <3>4, AloneWhenItRuns
      <4>2. \A d \in Calls : d # c => Own(d) # s
        BY <3>2 DEF Own
      <4>3. ASSUME NEW d \in Calls, Own(d) \in executing' \/ InLine(Own(d))'
            PROVE  d = c
        BY <1>2, <2>1, <3>3, <4>1, <4>2, <4>3 DEF Live
      <4>4. QED
        BY <2>5, <4>3 DEF OneLive, Live, Own
    <3>5. CASE ~(p = "running" /\ attempt[c] = "first")
      <4>1. \A d \in Calls : Own(d) # s
        BY <3>2, <3>5 DEF Own, KindAt
      <4>2. \A d \in Calls : Own(d) \in executing' \/ InLine(Own(d))' => Live(d)
        BY <1>2, <2>1, <3>3, <4>1 DEF Live
      <4>3. QED
        BY <2>5, <4>2 DEF OneLive, Live, Own
    <3>6. QED
      BY <3>4, <3>5
  <2>8. QED
    BY <2>1, <2>5, <2>6, <2>7
<1>4. ASSUME pc' = pc,
             \A d \in Calls : Own(d) \in executing' \/ InLine(Own(d))' => Live(d)
      PROVE  OneCall' /\ OneLive'
  BY <1>4 DEF OneCall, InFlight, OneLive, Live, Own
<1>5. ASSUME NEW s \in Scripts, PsExecutes(s)
      PROVE  OneCall' /\ OneLive'
  <2>1. line \in Seq(Scripts) /\ line # <<>> /\ s = line[1] /\ 1 \in 1..Len(line)
    BY <1>5 DEF PsExecutes, InFront, IInv, TypeOK
  <2>2. InLine(s)
    BY <2>1 DEF InLine
  <2>3. pc' = pc /\ line' = line /\ executing' = {s}
    BY <1>5 DEF PsExecutes, callVars, lineVars
  <2>4. QED
    BY <1>4, <2>2, <2>3 DEF Live, InLine
<1>6. ASSUME NEW s \in Scripts, NEW v \in Answers,
             RunEnds(s, v) \/ (v = "watchdog" /\ WatchdogFires(s))
      PROVE  OneCall' /\ OneLive'
  <2>1. /\ pc' = pc /\ executing' = executing
        /\ Queue!Leave(v) \/ Queue!AnswerHead(v)
    BY <1>6 DEF RunEnds, WatchdogFires, callVars, psVars
  <2>2. \A t \in Scripts : InLine(t)' => InLine(t)
    BY <2>1, ServeFacts DEF IInv
  <2>3. QED
    BY <1>2, <1>4, <2>1, <2>2 DEF Live
<1>7. CASE DetectionEnds \/ LatchExpires \/ PsFinishes \/ PsStarts \/ PsQuits \/ UNCHANGED vars
  <2>1. pc' = pc /\ line' = line /\ executing' \in {{}, executing}
    BY <1>7 DEF DetectionEnds, LatchExpires, PsFinishes, PsStarts, PsQuits, vars, callVars,
                lineVars, psVars
  <2>2. QED
    BY <1>1, <1>4, <2>1 DEF Live, InLine
<1>8. \A s \in Scripts : WatchdogFires(s) => OneCall' /\ OneLive'
  BY <1>6 DEF Answers
<1>9. QED
  BY <1>1, <1>3, <1>5, <1>6, <1>7, <1>8 DEF Next

(***************************************************************************)
(* Of calls one after the other, on such a host: no script is handed over  *)
(* while Photoshop still executes one that was given up on                 *)
(* (settleAfterTimeout).                                                   *)
(***************************************************************************)
THEOREM ScriptsWaitTheirTurn ==
    ASSUME HostIsKind, MaxInFlight = 1
    PROVE  Spec => []AnswersAreAwaited
<1>1. Init => OneInv
  <2>1. SUFFICES ASSUME Init PROVE OneInv
    OBVIOUS
  <2>2. InFlight = {} /\ executing = {} /\ line = <<>>
    BY <2>1 DEF Init, InFlight, Queue!Init
  <2>3. QED
    BY <2>1, <2>2, InitInv DEF OneInv, OneCall, OneLive, Live, InLine
<1>2. OneInv => AnswersAreAwaited
  <2>1. SUFFICES ASSUME OneInv PROVE ScriptsWaitForAnswer /\ TimeoutRemembered
    BY DEF AnswersAreAwaited
  <2>2. ASSUME NEW c \in Calls, NEW d \in Calls, c # d, InFront(Own(c)), Own(d) \in executing
        PROVE  FALSE
    <3>1. line \in Seq(Scripts) /\ line # <<>> /\ Own(c) = line[1] /\ 1 \in 1..Len(line)
      BY <2>1, <2>2 DEF InFront, OneInv, IInv, TypeOK
    <3>2. QED
      BY <2>1, <2>2, <3>1 DEF OneInv, OneLive, Live, InLine
  <2>3. ASSUME InFlight = {}, NEW c \in Calls, Own(c) \in executing
        PROVE  awaiting
    <3>1. \A d \in Calls : pc[d] \in {"idle", "done"}
      BY <2>3 DEF InFlight
    <3>2. QED
      BY <2>1, <2>3, <3>1 DEF OneInv, IInv, Remembered, MayGoOn, OwnRunning, CheckUnderWay
  <2>4. QED
    BY <2>2, <2>3 DEF ScriptsWaitForAnswer, TimeoutRemembered, Own
<1>3. QED
  BY <1>1, <1>2, OneStep, HostIsKind, PTL DEF Spec

=============================================================================
