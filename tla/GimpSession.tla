----------------------------- MODULE GimpSession -----------------------------
(***************************************************************************)
(* The driver of one headless GIMP (backends/gimp/session.ts): it starts   *)
(* the process, exchanges request and response files with the bridge that  *)
(* runs in it, kills and replaces it when it dies or does not answer, and  *)
(* shuts it down.  The processes and the bridge's serve loop are part of   *)
(* the model.                                                              *)
(*                                                                         *)
(* Start attempts are numbered; attempt n spawns process n and works in    *)
(* the session directory n (mkdtemp makes a new one each time).            *)
(*                                                                         *)
(* The code between two awaits is one action.  A call whose turn has come, *)
(* or whose start has succeeded, continues in a microtask, that is before  *)
(* any timer, event or new call: the other actions wait until it is Quiet. *)
(***************************************************************************)
EXTENDS Naturals, FiniteSets, Sequences

CONSTANTS
    Calls,      \* the calls of GimpSession.call
    Opens,      \* those whose operation is 'open'
    Ping        \* the ping #startFresh sends for itself

ASSUME CallsAssumption == IsFiniteSet(Calls)
ASSUME OpensAssumption == Opens \subseteq Calls
ASSUME PingAssumption  == Ping \notin Calls

Senders == Calls \cup {Ping}

VARIABLES
    state,          \* sessionState
    shut,           \* how far #shutdownOnce is; shuttingDown unless "no"
    deadGeneration,
    lastFailure, stickyError, unobservedStartFailure,
    everReady, restartNoticePending,
    attempt,        \* where the attempt behind startPromise is
    starts,         \* how many attempts there have been
    proc, dir,      \* this.proc, this.sessionDir: an attempt's number, or 0
    nextId,
    queue,          \* the calls that have not returned, in their order
    pc, result,     \* where a call is, what it returned or threw
    generation,     \* myGeneration: deadGeneration when the call was issued
    ticket,         \* where a sender has put its request
    process,        \* the operating system's processes
    exited,         \* those for which hasExited holds, their event delivered
    killed,         \* those that live and were sent a kill
    dirs,           \* the session directories that exist
    requests, responses     \* the files in them

lifeVars == <<state, deadGeneration, lastFailure, stickyError>>
saidVars == <<unobservedStartFailure, everReady, restartNoticePending>>
startVars == <<attempt, starts, proc, dir, nextId>>
callVars == <<queue, pc, result, generation>>
osVars == <<process, exited, killed>>
fileVars == <<dirs, requests, responses>>
vars == <<lifeVars, saidVars, startVars, shut, callVars, ticket, osVars, fileVars>>

(***************************************************************************)
(* What a call may come back with.  A failed start is "start", or "sticky" *)
(* when no new start could succeed (no such binary, no Python, an old      *)
(* GIMP); "restarted" is the generic message of a session that died.       *)
(***************************************************************************)
Kinds == {"none", "ok", "failed", "noimage", "lostimage", "starting",
          "timeout", "restarted", "start", "sticky", "closed"}
Told(kind)     == [kind |-> kind, start |-> 0]
Failed(kind, n) == [kind |-> kind, start |-> n]
Nothing        == Told("none")
Messages       == [kind : Kinds, start : Nat]

Numbers == 1..Cardinality(Calls)      \* a call begins one attempt at most
NoTicket == [proc |-> 0, dir |-> 0, id |-> 0]

TypeOK ==
    /\ state \in {"idle", "starting", "ready", "dead", "closed"}
    /\ shut \in {"no", "stopping", "confirming", "done"}
    /\ deadGeneration \in 0..starts      \* no attempt dies twice
    /\ {lastFailure, stickyError, unobservedStartFailure} \subseteq Messages
    /\ everReady \in BOOLEAN
    /\ restartNoticePending \in BOOLEAN
    /\ attempt \in {"none", "killing", "booting", "pinging"}
    /\ {starts, proc, dir} \subseteq {0} \cup Numbers
    /\ nextId \in Nat
    /\ queue \in Seq(Calls)
    /\ pc \in [Calls -> {"unissued", "queued", "waiting", "joined", "sending", "done"}]
    /\ result \in [Calls -> Messages]
    /\ generation \in [Calls -> Nat]
    /\ ticket \in [Senders -> [proc : Nat, dir : Nat, id : Nat]]
    /\ process \in [Numbers -> {"none", "unspawned", "booting", "serving", "ended"}]
    /\ exited \subseteq Numbers
    /\ killed \subseteq Numbers
    /\ dirs \subseteq Numbers
    /\ requests \subseteq [dir : Numbers, id : Nat, by : Senders]
    /\ responses \subseteq [dir : Numbers, id : Nat, by : Senders, says : Kinds]

Init ==
    /\ state = "idle"
    /\ shut = "no"
    /\ deadGeneration = 0
    /\ lastFailure = Told("restarted")
    /\ stickyError = Nothing
    /\ unobservedStartFailure = Nothing
    /\ everReady = FALSE
    /\ restartNoticePending = FALSE
    /\ attempt = "none"
    /\ starts = 0
    /\ proc = 0
    /\ dir = 0
    /\ nextId = 1
    /\ queue = <<>>
    /\ pc = [c \in Calls |-> "unissued"]
    /\ result = [c \in Calls |-> Nothing]
    /\ generation = [c \in Calls |-> 0]
    /\ ticket = [s \in Senders |-> NoTicket]
    /\ process = [p \in Numbers |-> "none"]
    /\ exited = {}
    /\ killed = {}
    /\ dirs = {}
    /\ requests = {}
    /\ responses = {}

-----------------------------------------------------------------------------
(* Helpers *)

Quiet == queue # <<>> => pc[Head(queue)] \notin {"queued", "joined"}

HasTurn(c, place) == queue # <<>> /\ c = Head(queue) /\ pc[c] = place

ShuttingDown == shut # "no"

Open == ~ShuttingDown /\ state # "closed"           \* #assertOpen does not throw

(***************************************************************************)
(* killTree of a process that has ended does nothing.                      *)
(***************************************************************************)
Lives(p) == process[p] \in {"booting", "serving"}
Kill(p)  == killed' = IF Lives(p) THEN killed \cup {p} ELSE killed

(***************************************************************************)
(* #removeSessionDir: the files go with the directory.                     *)
(***************************************************************************)
RemoveDir(d, made) ==
    /\ dirs' = (dirs \ {d}) \cup made
    /\ requests' = {r \in requests : r.dir # d}
    /\ responses' = {r \in responses : r.dir # d}

(***************************************************************************)
(* #markDead, which "dead" and "closed" sessions ignore.                   *)
(***************************************************************************)
MarkDead(why) ==
    IF state \in {"dead", "closed"}
    THEN UNCHANGED <<state, deadGeneration, lastFailure>>
    ELSE /\ state' = "dead"
         /\ deadGeneration' = deadGeneration + 1
         /\ lastFailure' = why

RememberSticky(why) ==
    stickyError' = IF why.kind = "sticky" THEN why ELSE stickyError

(***************************************************************************)
(* The call at the head returns, and the next one's turn comes.            *)
(***************************************************************************)
Return(c, message) ==
    /\ pc' = [pc EXCEPT ![c] = "done"]
    /\ result' = [result EXCEPT ![c] = message]
    /\ queue' = Tail(queue)
    /\ UNCHANGED generation

(***************************************************************************)
(* #startFresh rejects.  Its waiter sees that; without one the reason is   *)
(* kept for the next call.                                                 *)
(***************************************************************************)
Waiting(c) == HasTurn(c, "waiting")

\* Mutant: the failure of an attempt nobody waits for is dropped.
AttemptRejectsSilently(why) ==
    /\ attempt' = "none"
    /\ IF \E c \in Calls : Waiting(c)
       THEN \E c \in Calls : Waiting(c) /\ Return(c, why)
       ELSE UNCHANGED callVars
    /\ UNCHANGED <<unobservedStartFailure, starts, proc, everReady, restartNoticePending>>

AttemptRejects(why) ==
    /\ attempt' = "none"
    /\ IF \E c \in Calls : Waiting(c)
       THEN /\ \E c \in Calls : Waiting(c) /\ Return(c, why)
            /\ UNCHANGED unobservedStartFailure
       ELSE /\ unobservedStartFailure' = why
            /\ UNCHANGED callVars
    /\ UNCHANGED <<starts, proc, everReady, restartNoticePending>>

\* Mutant: the request id is not advanced.
WriteRequestSameId(s) ==
    /\ ticket' = [ticket EXCEPT ![s] = [proc |-> proc, dir |-> dir, id |-> nextId]]
    /\ nextId' = nextId
    /\ requests' = requests \cup {[dir |-> dir, id |-> nextId, by |-> s]}

(***************************************************************************)
(* #send up to its first await: the request file, under the next id.       *)
(***************************************************************************)
WriteRequest(s) ==
    /\ ticket' = [ticket EXCEPT ![s] = [proc |-> proc, dir |-> dir, id |-> nextId]]
    /\ nextId' = nextId + 1
    /\ requests' = requests \cup {[dir |-> dir, id |-> nextId, by |-> s]}

(***************************************************************************)
(* What #send finds when it polls.                                         *)
(***************************************************************************)
Response(s) == {r \in responses : r.dir = ticket[s].dir /\ r.id = ticket[s].id}
ProcessLost(s) == ticket[s].proc \in exited \/ state = "dead"

-----------------------------------------------------------------------------
(* call and #dispatch *)

Issue(c) ==
    /\ Quiet
    /\ pc[c] = "unissued"
    /\ pc' = [pc EXCEPT ![c] = "queued"]
    /\ generation' = [generation EXCEPT ![c] = deadGeneration]
    /\ queue' = Append(queue, c)
    /\ UNCHANGED <<result, lifeVars, saidVars, startVars, shut, ticket, osVars, fileVars>>

(***************************************************************************)
(* The reasons for which #dispatch, and #joinOrStart before it begins an   *)
(* attempt, refuse the call.                                               *)
(***************************************************************************)
\* Mutant: no generation check.
NeverStale(c) == FALSE

Stale(c) == state = "dead" /\ generation[c] < deadGeneration

MustStart == state # "ready" /\ attempt = "none"

Refuse(c) ==
    /\ HasTurn(c, "queued")
    /\ \/ /\ ~Open
          /\ Return(c, Told("closed"))
          /\ UNCHANGED unobservedStartFailure
       \/ /\ Open
          /\ stickyError # Nothing
          /\ Return(c, stickyError)
          /\ UNCHANGED unobservedStartFailure
       \/ /\ Open
          /\ stickyError = Nothing
          /\ Stale(c)
          /\ Return(c, lastFailure)
          /\ UNCHANGED unobservedStartFailure
       \/ /\ Open
          /\ stickyError = Nothing
          /\ ~Stale(c)
          /\ MustStart
          /\ unobservedStartFailure # Nothing
          /\ Return(c, unobservedStartFailure)
          /\ unobservedStartFailure' = Nothing
    /\ UNCHANGED <<lifeVars, everReady, restartNoticePending, startVars, shut,
                   ticket, osVars, fileVars>>

Admitted(c) == HasTurn(c, "queued") /\ Open /\ stickyError = Nothing /\ ~Stale(c)

(***************************************************************************)
(* #joinOrStart joins the attempt under way.                               *)
(***************************************************************************)
Join(c) ==
    /\ Admitted(c)
    /\ state # "ready"
    /\ attempt # "none"
    /\ pc' = [pc EXCEPT ![c] = "waiting"]
    /\ UNCHANGED <<queue, result, generation, lifeVars, saidVars, startVars, shut,
                   ticket, osVars, fileVars>>

(***************************************************************************)
(* The part of #startFresh between the wait for the stale process and the  *)
(* wait for readiness, which is synchronous.  The spawn throws, fails with *)
(* an 'error' event to come, or yields a process; before it, preparing the *)
(* directory may fail.                                                     *)
(***************************************************************************)
Launched(n) ==
    /\ state' = "starting"
    /\ attempt' = "booting"
    /\ proc' = n
    /\ dir' = n
    /\ nextId' = 1
    /\ RemoveDir(dir, {n})
    /\ \E outcome \in {"booting", "unspawned"} : process' = [process EXCEPT ![n] = outcome]
    /\ UNCHANGED <<deadGeneration, lastFailure, stickyError>>

NotLaunched(n, why, prepared) ==
    /\ state' = "dead"
    /\ deadGeneration' = deadGeneration + 1
    /\ lastFailure' = why
    /\ RememberSticky(why)
    /\ dir' = IF prepared THEN n ELSE dir
    /\ nextId' = IF prepared THEN 1 ELSE nextId
    /\ RemoveDir(dir, IF prepared THEN {n} ELSE {})

NotLaunchedReasons(n) ==
    {<<Failed("start", n), FALSE>>, <<Failed("start", n), TRUE>>, <<Failed("sticky", n), TRUE>>}

(***************************************************************************)
(* #joinOrStart begins an attempt.  A process that has not exited is       *)
(* killed and waited for first.                                            *)
(***************************************************************************)
Start(c) ==
    /\ Admitted(c)
    /\ MustStart
    /\ unobservedStartFailure = Nothing
    /\ starts' = starts + 1
    /\ \/ /\ proc # 0 /\ proc \notin exited
          /\ Kill(proc)
          /\ attempt' = "killing"
          /\ pc' = [pc EXCEPT ![c] = "waiting"]
          /\ UNCHANGED <<queue, result, generation, lifeVars, proc, dir, nextId, process,
                         fileVars>>
       \/ /\ proc = 0 \/ proc \in exited
          /\ Launched(starts')
          /\ pc' = [pc EXCEPT ![c] = "waiting"]
          /\ UNCHANGED <<queue, result, generation, killed>>
       \/ /\ proc = 0 \/ proc \in exited
          /\ \E failure \in NotLaunchedReasons(starts') :
               /\ NotLaunched(starts', failure[1], failure[2])
               /\ Return(c, failure[1])
          /\ UNCHANGED <<attempt, proc, process, killed>>
    /\ UNCHANGED <<saidVars, shut, ticket, exited>>

(***************************************************************************)
(* CALL_READY_WAIT_MS is over for the waiting call; the attempt goes on.   *)
(***************************************************************************)
GiveUp(c) ==
    /\ Waiting(c)
    /\ Return(c, Told("starting"))
    /\ UNCHANGED <<lifeVars, saidVars, startVars, shut, ticket, osVars, fileVars>>

(***************************************************************************)
(* #send, when the session is ready or the start waited for has succeeded. *)
(* A session already known to be lost fails the call at once.              *)
(***************************************************************************)
Send(c) ==
    /\ \/ HasTurn(c, "joined")
       \/ Admitted(c) /\ state = "ready"
    /\ WriteRequest(c)
    /\ IF proc \in exited
       THEN /\ MarkDead(Told("restarted"))
            /\ Return(c, Told("restarted"))
       ELSE /\ pc' = [pc EXCEPT ![c] = "sending"]
            /\ UNCHANGED <<queue, result, generation, state, deadGeneration, lastFailure>>
    /\ UNCHANGED <<stickyError, saidVars, attempt, starts, proc, dir, shut, osVars,
                   dirs, responses>>

\* Mutant: any success clears the restart notice, not only an open.
AnsweredForgetful(c) ==
    /\ HasTurn(c, "sending")
    /\ \E r \in Response(c) :
         /\ responses' = responses \ {r}
         /\ Return(c, Told(IF r.says = "noimage" /\ restartNoticePending
                           THEN "lostimage" ELSE r.says))
         /\ restartNoticePending' = FALSE
    /\ UNCHANGED <<lifeVars, unobservedStartFailure, everReady, startVars, shut,
                   ticket, osVars, dirs, requests>>

(***************************************************************************)
(* The poll finds the response file.  It can turn out to be unreadable.    *)
(***************************************************************************)
Answered(c) ==
    /\ HasTurn(c, "sending")
    /\ \E r \in Response(c) :
         \/ /\ responses' = responses \ {r}
            /\ IF r.says = "noimage" /\ restartNoticePending
               THEN /\ Return(c, Told("lostimage"))
                    /\ restartNoticePending' = FALSE
               ELSE /\ Return(c, Told(r.says))
                    /\ restartNoticePending' =
                         (restartNoticePending /\ ~(c \in Opens /\ r.says = "ok"))
         \/ /\ Return(c, Told("failed"))
            /\ UNCHANGED <<responses, restartNoticePending>>
    /\ UNCHANGED <<lifeVars, unobservedStartFailure, everReady, startVars, shut,
                   ticket, osVars, dirs, requests>>

(***************************************************************************)
(* The poll finds no response, and the process gone or the session dead.   *)
(***************************************************************************)
DeadUnlessShuttingDown ==
    IF ShuttingDown THEN UNCHANGED <<state, deadGeneration, lastFailure>>
                    ELSE MarkDead(Told("restarted"))

\* Mutant: a call whose session died is tried again in the next one.
LostRetries(c) ==
    /\ HasTurn(c, "sending")
    /\ Response(c) = {}
    /\ ProcessLost(c)
    /\ DeadUnlessShuttingDown
    /\ pc' = [pc EXCEPT ![c] = "queued"]
    /\ generation' = [generation EXCEPT ![c] = deadGeneration']
    /\ UNCHANGED <<queue, result, stickyError, saidVars, startVars, shut, ticket, osVars,
                   fileVars>>

Lost(c) ==
    /\ HasTurn(c, "sending")
    /\ Response(c) = {}
    /\ ProcessLost(c)
    /\ DeadUnlessShuttingDown
    /\ Return(c, Told("restarted"))
    /\ UNCHANGED <<stickyError, saidVars, startVars, shut, ticket, osVars, fileVars>>

TimesOut(c) ==
    /\ HasTurn(c, "sending")
    /\ Response(c) = {}
    /\ ~ProcessLost(c)
    /\ DeadUnlessShuttingDown
    /\ Kill(ticket[c].proc)
    /\ Return(c, Told("timeout"))
    /\ UNCHANGED <<stickyError, saidVars, startVars, shut, ticket, process, exited, fileVars>>

-----------------------------------------------------------------------------
(* #startFresh after its awaits *)

\* Mutant: no #assertOpen after the wait for the stale process.
StaleGoneUnchecked ==
    /\ Quiet
    /\ attempt = "killing"
    /\ Launched(starts)
    /\ UNCHANGED <<callVars, saidVars, starts, shut, ticket, exited, killed>>

(***************************************************************************)
(* The stale process has exited, or KILL_CONFIRM_MS is over.               *)
(***************************************************************************)
StaleGone ==
    /\ Quiet
    /\ attempt = "killing"
    /\ \/ /\ ~Open
          /\ AttemptRejects(Told("closed"))
          /\ UNCHANGED <<lifeVars, dir, nextId, process, fileVars>>
       \/ /\ Open
          /\ Launched(starts)
          /\ UNCHANGED <<callVars, saidVars, starts>>
       \/ /\ Open
          /\ \E failure \in NotLaunchedReasons(starts) :
               /\ NotLaunched(starts, failure[1], failure[2])
               /\ AttemptRejects(failure[1])
          /\ UNCHANGED process
    /\ UNCHANGED <<shut, ticket, exited, killed>>

(***************************************************************************)
(* #startFresh fails with why, or, when shutdown has begun meanwhile, with *)
(* "session closed", leaving the process to shutdown.                      *)
(***************************************************************************)
AttemptFails(why, verdict) ==
    /\ IF Open
       THEN MarkDead(why) /\ RememberSticky(verdict) /\ Kill(proc) /\ AttemptRejects(verdict)
       ELSE UNCHANGED <<lifeVars, killed>> /\ AttemptRejects(Told("closed"))
    /\ UNCHANGED <<dir, nextId>>

ReadyFile == [dir |-> dir, id |-> 0, by |-> Ping, says |-> "ok"] \in responses

(***************************************************************************)
(* waitForReady fails: shutdown, a spawn error, an exit, or the deadline.  *)
(***************************************************************************)
BootFails ==
    /\ Quiet
    /\ attempt = "booting"
    /\ ~ReadyFile
    /\ \/ state = "dead" /\ AttemptFails(lastFailure, lastFailure)
       \/ /\ state # "dead"
          /\ \E kind \in {"start"} \cup (IF proc \in exited THEN {"sticky"} ELSE {}) :
               AttemptFails(Failed(kind, starts), Failed(kind, starts))
    /\ UNCHANGED <<shut, ticket, process, exited, fileVars>>

(***************************************************************************)
(* waitForReady succeeds, and the ping is sent.                            *)
(***************************************************************************)
BootSucceeds ==
    /\ Quiet
    /\ attempt = "booting"
    /\ ReadyFile
    /\ IF ~Open
       THEN /\ Kill(proc)
            /\ AttemptRejects(Told("closed"))
            /\ UNCHANGED <<lifeVars, dir, nextId, ticket, requests>>
       ELSE IF proc \in exited
       THEN /\ AttemptFails(Told("restarted"), Failed("restarted", starts))
            /\ UNCHANGED <<ticket, requests>>
       ELSE /\ WriteRequest(Ping)
            /\ attempt' = "pinging"
            /\ UNCHANGED <<lifeVars, callVars, saidVars, starts, proc, dir, killed>>
    /\ UNCHANGED <<shut, process, exited, dirs, responses>>

(***************************************************************************)
(* The ping fails: #send has marked the session dead with its own, generic *)
(* reason before #startFresh does with the one it throws.                  *)
(***************************************************************************)
PingFails ==
    /\ Quiet
    /\ attempt = "pinging"
    /\ \/ /\ Response(Ping) = {}
          /\ ProcessLost(Ping)
          /\ AttemptFails(Told("restarted"), Failed("restarted", starts))
          /\ UNCHANGED responses
       \/ /\ Response(Ping) = {}
          /\ ~ProcessLost(Ping)
          /\ IF Open
             THEN AttemptFails(Told("restarted"), Failed("timeout", starts))
             ELSE /\ Kill(proc)
                  /\ AttemptRejects(Told("closed"))
                  /\ UNCHANGED <<lifeVars, dir, nextId>>
          /\ UNCHANGED responses
       \/ \E r \in Response(Ping) :
            /\ AttemptFails(Failed("failed", starts), Failed("failed", starts))
            /\ responses' \in {responses, responses \ {r}}
    /\ UNCHANGED <<shut, ticket, process, exited, dirs, requests>>

PingAnswered ==
    /\ Quiet
    /\ attempt = "pinging"
    /\ \E r \in Response(Ping) : responses' = responses \ {r} /\ r.says = "ok"
    /\ \/ /\ ~Open
          /\ Kill(proc)
          /\ AttemptRejects(Told("closed"))
          /\ UNCHANGED <<lifeVars, dir, nextId>>
       \/ /\ Open                                        \* not GIMP 3.2 or newer
          /\ AttemptFails(Failed("sticky", starts), Failed("sticky", starts))
       \/ /\ Open
          /\ state' = "ready"
          /\ attempt' = "none"
          /\ everReady' = TRUE
          /\ restartNoticePending' = (restartNoticePending \/ everReady)
          /\ pc' = [c \in Calls |-> IF Waiting(c) THEN "joined" ELSE pc[c]]
          /\ UNCHANGED <<deadGeneration, lastFailure, stickyError, unobservedStartFailure,
                         starts, proc, dir, nextId, queue, result, generation, killed>>
    /\ UNCHANGED <<shut, ticket, process, exited, dirs, requests>>

-----------------------------------------------------------------------------
(* The events of the child process *)

\* Mutant: the listener does not look whose exit it is.
ExitEventOfAny(p) ==
    /\ Quiet
    /\ process[p] = "ended"
    /\ p \notin exited
    /\ exited' = exited \cup {p}
    /\ IF ShuttingDown \/ state = "starting"
       THEN UNCHANGED lifeVars
       ELSE MarkDead(Told("restarted")) /\ UNCHANGED stickyError
    /\ UNCHANGED <<saidVars, startVars, shut, callVars, ticket, process, killed, fileVars>>

(***************************************************************************)
(* 'exit'.  While starting, waitForReady looks at it (after 'close').      *)
(***************************************************************************)
ExitEvent(p) ==
    /\ Quiet
    /\ process[p] = "ended"
    /\ p \notin exited
    /\ exited' = exited \cup {p}
    /\ IF p # proc \/ state \in {"dead", "closed"}
       THEN UNCHANGED lifeVars
       ELSE IF ShuttingDown
       THEN state' = "closed" /\ UNCHANGED <<deadGeneration, lastFailure, stickyError>>
       ELSE IF state = "starting"
       THEN UNCHANGED lifeVars
       ELSE MarkDead(Told("restarted")) /\ UNCHANGED stickyError
    /\ UNCHANGED <<saidVars, startVars, shut, callVars, ticket, process, killed, fileVars>>

(***************************************************************************)
(* 'error', for a process that could not be spawned.                       *)
(***************************************************************************)
ErrorEvent(p) ==
    /\ Quiet
    /\ process[p] = "unspawned"
    /\ process' = [process EXCEPT ![p] = "ended"]
    /\ exited' = exited \cup {p}
    /\ \E kind \in {"start", "sticky"} :
         IF p = proc /\ state \notin {"dead", "closed"}
         THEN MarkDead(Failed(kind, p)) /\ RememberSticky(Failed(kind, p))
         ELSE UNCHANGED lifeVars
    /\ UNCHANGED <<saidVars, startVars, shut, callVars, ticket, killed, fileVars>>

-----------------------------------------------------------------------------
(* #shutdownOnce *)

Close ==
    /\ state' = "closed"
    /\ shut' = "done"
    /\ RemoveDir(dir, {})
    /\ UNCHANGED <<deadGeneration, lastFailure, stickyError>>

Shutdown ==
    /\ Quiet
    /\ shut = "no"
    /\ IF proc = 0 \/ proc \in exited
       THEN Close /\ UNCHANGED killed
       ELSE IF state = "dead"
       THEN shut' = "confirming" /\ Kill(proc) /\ UNCHANGED <<lifeVars, fileVars>>
       ELSE shut' = "stopping" /\ UNCHANGED <<lifeVars, fileVars, killed>>
    /\ UNCHANGED <<saidVars, startVars, callVars, ticket, process, exited>>

(***************************************************************************)
(* The process has exited, or SHUTDOWN_GRACE_MS is over.                   *)
(***************************************************************************)
GraceEnds ==
    /\ Quiet
    /\ shut = "stopping"
    /\ IF proc \in exited
       THEN Close /\ UNCHANGED killed
       ELSE shut' = "confirming" /\ Kill(proc) /\ UNCHANGED <<lifeVars, fileVars>>
    /\ UNCHANGED <<saidVars, startVars, callVars, ticket, process, exited>>

\* Mutant: the wait for the killed process has no bound.
KillConfirmedByExit ==
    /\ Quiet
    /\ shut = "confirming"
    /\ proc \in exited
    /\ Close
    /\ UNCHANGED <<saidVars, startVars, callVars, ticket, osVars>>

(***************************************************************************)
(* It has exited at last, or KILL_CONFIRM_MS is over.                      *)
(***************************************************************************)
KillConfirmed ==
    /\ Quiet
    /\ shut = "confirming"
    /\ Close
    /\ UNCHANGED <<saidVars, startVars, callVars, ticket, osVars>>

-----------------------------------------------------------------------------
(* GIMP and the bridge's serve loop *)

(***************************************************************************)
(* The bridge is up: it writes rpc/ready (id 0 here).                      *)
(***************************************************************************)
Boots(p) ==
    /\ Quiet
    /\ process[p] = "booting"
    /\ p \in dirs
    /\ process' = [process EXCEPT ![p] = "serving"]
    /\ responses' = responses \cup {[dir |-> p, id |-> 0, by |-> Ping, says |-> "ok"]}
    /\ UNCHANGED <<lifeVars, saidVars, startVars, shut, callVars, ticket, exited, killed,
                   dirs, requests>>

(***************************************************************************)
(* The bridge serves the requests of its directory in the order of ids.    *)
(* (Any other error it answers with is like a response that is unreadable.)*)
(***************************************************************************)
Says(s) == {"ok"} \cup IF s \in Opens \cup {Ping} THEN {} ELSE {"noimage"}

Serves(p) ==
    /\ Quiet
    /\ process[p] = "serving"
    /\ p \in dirs
    /\ \E r \in requests :
         /\ r.dir = p
         /\ \A other \in requests : other.dir = p => r.id <= other.id
         /\ requests' = requests \ {r}
         /\ \E says \in Says(r.by) :
              responses' = responses \cup
                             {[dir |-> p, id |-> r.id, by |-> r.by, says |-> says]}
    /\ UNCHANGED <<lifeVars, saidVars, startVars, shut, callVars, ticket, osVars, dirs>>

(***************************************************************************)
(* GIMP ends: killed, told to shut down, crashed or closed by the user.    *)
(***************************************************************************)
Ends(p) ==
    /\ Quiet
    /\ Lives(p)
    /\ process' = [process EXCEPT ![p] = "ended"]
    /\ killed' = killed \ {p}
    /\ UNCHANGED <<lifeVars, saidVars, startVars, shut, callVars, ticket, exited, fileVars>>

-----------------------------------------------------------------------------
CallStep(c) ==
    \/ Refuse(c)
    \/ Join(c)
    \/ Start(c)
    \/ GiveUp(c)
    \/ Send(c)
    \/ Answered(c)
    \/ Lost(c)
    \/ TimesOut(c)

AttemptStep ==
    \/ StaleGone
    \/ BootFails
    \/ BootSucceeds
    \/ PingFails
    \/ PingAnswered

ShutdownStep ==
    \/ GraceEnds
    \/ KillConfirmed

ProcessStep(p) ==
    \/ Boots(p)
    \/ Serves(p)
    \/ Ends(p)
    \/ ExitEvent(p)
    \/ ErrorEvent(p)

Next ==
    \/ \E c \in Calls : Issue(c) \/ CallStep(c)
    \/ AttemptStep
    \/ Shutdown
    \/ ShutdownStep
    \/ \E p \in Numbers : ProcessStep(p)

Spec == Init /\ [][Next]_vars

-----------------------------------------------------------------------------
(***************************************************************************)
(* "A fresh process nobody will ever manage or kill" (session.ts) cannot   *)
(* be left behind: after shutdown every process has ended or was killed,   *)
(* and before it every process but the current one.                        *)
(***************************************************************************)
NoUnmanagedProcess ==
    \A p \in Numbers :
        Lives(p) /\ p \notin killed => p = proc /\ shut # "done"

(***************************************************************************)
(* Once shutdown has begun no process is spawned any more, whatever wait   *)
(* of #startFresh it fell into, and "closed" is never left.                *)
(***************************************************************************)
ShutdownIsFinal ==
    [][ShuttingDown => /\ proc' = proc
                       /\ state = "closed" => state' = "closed"
                       /\ \A p \in Numbers : process[p] = "none" => process'[p] = "none"]_vars

(***************************************************************************)
(* A session in use is not declared dead in error, by a late event of a    *)
(* process it has already replaced, say: when it is, its process has ended *)
(* or is being killed.                                                     *)
(***************************************************************************)
DeclaredDeadIsDead ==
    [][state = "ready" /\ state' = "dead" => ~Lives(proc) \/ proc \in killed']_vars

(***************************************************************************)
(* A response that a poll would take for its own is its own: ids begin at  *)
(* 1 again in every session, and a process that was given up on may still  *)
(* be writing its late answers.                                            *)
(***************************************************************************)
AnswersAreOwn ==
    \A s \in Senders : \A r \in Response(s) : r.by = s

(***************************************************************************)
(* The generation tells processes apart (the generation getter's comment,  *)
(* on which gimp_checkpoint relies before it closes an image by its id):   *)
(* two calls that reached a process reached the same one if and only if    *)
(* they were issued in the same generation.                                *)
(***************************************************************************)
Reached(c) == ticket[c] # NoTicket

GenerationsTellProcessesApart ==
    \A c, d \in Calls :
        Reached(c) /\ Reached(d)
            => (generation[c] = generation[d] <=> ticket[c].proc = ticket[d].proc)

(***************************************************************************)
(* No start failure is lost: while no attempt has brought up a session,    *)
(* the failure of every attempt that has ended was returned to a call, or  *)
(* waits to be, even when every call had stopped waiting for the attempt.  *)
(***************************************************************************)
FailuresReachSomeone ==
    ~everReady /\ ~ShuttingDown
        => \A n \in 1..starts :
             \/ n = starts /\ attempt # "none"
             \/ unobservedStartFailure.start = n
             \/ \E c \in Calls : result[c].start = n

(***************************************************************************)
(* A caller whose images died with a process hears of the restart: a plain *)
(* "no open image" is answered by a process only if it is the first that   *)
(* worked for the callers, or they were told, or one opened an image anew. *)
(***************************************************************************)
RestartIsTold ==
    \A c, d \in Calls :
        /\ result[c].kind = "noimage"
        /\ Reached(d)
        /\ ticket[d].proc < ticket[c].proc
        => \E e \in Calls :
             /\ ticket[e].proc = ticket[c].proc
             /\ \/ result[e].kind = "lostimage"
                \/ result[e].kind = "ok" /\ e \in Opens

(***************************************************************************)
(* The session keeps the contract of SessionContract: in order, one at a   *)
(* time, each call once and never in a later generation than its own.      *)
(***************************************************************************)
Fate(c) ==
    CASE pc[c] = "unissued"                       -> "unissued"
      [] pc[c] \in {"queued", "waiting", "joined"} -> "waiting"
      [] pc[c] = "sending"                        -> "running"
      [] pc[c] = "done" /\ ~Reached(c)            -> "refused"
      [] pc[c] = "done" /\ Reached(c)             ->
           IF result[c].kind \in {"restarted", "timeout"} THEN "lost" ELSE "answered"

Contract == INSTANCE SessionContract WITH
    generation <- deadGeneration,
    open       <- ~ShuttingDown,
    line       <- queue,
    fate       <- [c \in Calls |-> Fate(c)],
    issuedIn   <- generation

KeepsContract == Contract!Spec

(***************************************************************************)
(* The session, its files and processes are well formed, and no poll takes *)
(* the answer to another request for its own.                              *)
(***************************************************************************)
SessionInv == TypeOK /\ AnswersAreOwn

(***************************************************************************)
(* Deaths and the shutdown: a session in use is declared dead only when it *)
(* is, and nothing is started once shutdown has begun.                     *)
(***************************************************************************)
EndsAreTrue == ShutdownIsFinal /\ DeclaredDeadIsDead

=============================================================================
