-------------------------- MODULE GimpSessionProofs --------------------------
(***************************************************************************)
(* Proofs about GimpSession and about GimpBackend over it, for any finite  *)
(* set of calls.                                                           *)
(***************************************************************************)
EXTENDS GimpBackend, Integers, FiniteSetTheorems, TLAPS

(***************************************************************************)
(* The queue holds a call once, and only the call at its head has got any  *)
(* further than waiting for its turn.                                      *)
(***************************************************************************)
Pending == {"queued", "waiting", "joined", "sending"}

QueueOK ==
    /\ \A i, j \in 1..Len(queue) : queue[i] = queue[j] => i = j
    /\ \A i \in 1..Len(queue) : /\ pc[queue[i]] \in Pending
                                /\ i # 1 => pc[queue[i]] = "queued"

(***************************************************************************)
(* The state of the session, the attempt under way and the call at the     *)
(* head fit each other.                                                    *)
(***************************************************************************)
PhaseOK ==
    /\ proc <= starts /\ dir <= starts
    /\ state = "idle" => starts = 0 /\ attempt = "none"
    /\ state = "starting" => attempt \in {"booting", "pinging"} \/ ShuttingDown
    /\ state = "ready" => attempt = "none" /\ proc = starts /\ dir = starts
    /\ attempt = "killing" =>
           state \in {"dead", "closed"} /\ proc < starts /\ dir < starts /\ proc # 0
    /\ attempt \in {"booting", "pinging"}
         => state \in {"starting", "dead", "closed"} /\ proc = starts /\ dir = starts
    /\ state \in {"starting", "ready"} \/ attempt # "none" => starts # 0
    /\ state = "closed" => ShuttingDown
    /\ shut = "done" => state = "closed"
    /\ shut = "stopping" => proc # 0

TurnOK ==
    \A c \in Calls :
        /\ HasTurn(c, "joined") => state = "ready" /\ ~ShuttingDown
        /\ HasTurn(c, "sending") =>
               /\ attempt = "none" /\ state \in {"ready", "dead", "closed"}
               /\ ticket[c].proc = proc /\ Reached(c)

(***************************************************************************)
(* Every death is that of an attempt, and every attempt a call's.          *)
(***************************************************************************)
Served == {c \in Calls : pc[c] \notin {"unissued", "queued"}}

CountOK ==
    /\ state \in {"starting", "ready"} => deadGeneration < starts
    /\ attempt = "killing" => deadGeneration < starts
    /\ starts <= Cardinality(Served)

(***************************************************************************)
(* Processes are spawned in order, and who must be killed has been.        *)
(***************************************************************************)
ProcOK ==
    /\ \A p \in Numbers :
         /\ p > starts \/ (p = starts /\ attempt = "killing") => process[p] = "none"
         /\ p \in exited => process[p] = "ended"
         /\ p \in killed => Lives(p)
         /\ p = proc /\ (attempt = "killing" \/ shut = "confirming") /\ Lives(p)
              => p \in killed
    /\ NoUnmanagedProcess

(***************************************************************************)
(* The files are those of the current directory, and a process that could  *)
(* not be spawned has written none; so an attempt that died of that will   *)
(* not find the ready file.                                                *)
(***************************************************************************)
FileOK ==
    /\ dirs \subseteq {dir}
    /\ \A r \in responses : /\ r.dir = dir /\ r.id < nextId /\ r.says \in {"ok", "noimage"}
                            /\ process[r.dir] \in {"serving", "ended"}
    /\ \A r \in requests : r.dir = dir /\ r.id < nextId /\ 1 <= r.id
    /\ 1 <= nextId
    /\ attempt = "pinging" => process[proc] \in {"serving", "ended"}
    /\ attempt \in {"booting", "pinging"} /\ state = "dead"
         => process[proc] = "ended" /\ responses = {} /\ attempt = "booting"

(***************************************************************************)
(* A request and its response carry the ticket of their sender, and no     *)
(* other sender has that ticket.                                           *)
(***************************************************************************)
TicketOK ==
    /\ \A s \in Senders :
         /\ ticket[s].dir <= dir /\ ticket[s].proc <= proc
         /\ ticket[s].dir = dir => ticket[s].id < nextId
         /\ ticket[s] # NoTicket => /\ 1 <= ticket[s].id /\ 1 <= ticket[s].dir
                                   /\ 1 <= ticket[s].proc
    /\ \A s \in Senders :
         /\ \A r \in requests : r.dir = ticket[s].dir /\ r.id = ticket[s].id => r.by = s
         /\ \A r \in responses : r.dir = ticket[s].dir /\ r.id = ticket[s].id => r.by = s

(***************************************************************************)
(* The calls in the queue are issued in the order of generations; while a  *)
(* session comes up or is in use, they are all of its generation, and the  *)
(* calls that reached it are those of its generation.                      *)
(***************************************************************************)
AllNow == \A i \in 1..Len(queue) : generation[queue[i]] = deadGeneration

GenOK ==
    /\ \A c \in Calls : generation[c] <= deadGeneration
    /\ \A i, j \in 1..Len(queue) : i <= j => generation[queue[i]] <= generation[queue[j]]
    /\ state \in {"starting", "ready"} \/ attempt = "killing" => AllNow
    /\ \A c \in Calls : pc[c] \in {"unissued", "queued", "waiting", "joined"} => ~Reached(c)
    /\ \A c \in Calls : Reached(c) =>
         /\ state \in {"idle", "dead", "starting"} => generation[c] < deadGeneration
         /\ state = "starting" => ticket[c].proc < proc
         /\ state = "ready" => (generation[c] = deadGeneration <=> ticket[c].proc = proc)
    /\ GenerationsTellProcessesApart

(***************************************************************************)
(* A failed start is in the hands of a call, or kept for the next.         *)
(***************************************************************************)
FailOK ==
    /\ attempt # "none" => unobservedStartFailure = Nothing
    /\ \A c \in Calls : pc[c] # "done" => result[c] = Nothing
    /\ attempt = "booting" /\ state = "dead" => lastFailure.start = starts
    /\ FailuresReachSomeone

(***************************************************************************)
(* The notice of a restart is kept until a call of this process was told.  *)
(***************************************************************************)
ToldOfIt(e, m) == m.kind = "lostimage" \/ (m.kind = "ok" /\ e \in Opens)

NoticeOK ==
    /\ state = "ready" \/ (\E d \in Calls : Reached(d)) => everReady
    /\ (state = "ready" \/ \E c \in Calls : HasTurn(c, "sending"))
       /\ ~restartNoticePending
         => \A d \in Calls : Reached(d) /\ ticket[d].proc < proc =>
              \E e \in Calls : ticket[e].proc = proc /\ ToldOfIt(e, result[e])
    /\ \A m \in {lastFailure, stickyError, unobservedStartFailure} : m.kind # "noimage"
    /\ RestartIsTold

IInv ==
    /\ TypeOK
    /\ QueueOK
    /\ PhaseOK
    /\ TurnOK
    /\ CountOK
    /\ ProcOK
    /\ FileOK
    /\ TicketOK
    /\ GenOK
    /\ FailOK
    /\ NoticeOK

-----------------------------------------------------------------------------
(* The queue of calls *)

(***************************************************************************)
(* The call whose turn it is stands first.                                 *)
(***************************************************************************)
LEMMA TurnFacts ==
    ASSUME TypeOK, NEW c \in Calls, NEW place, HasTurn(c, place)
    PROVE  /\ queue # <<>> /\ Len(queue) \in Nat /\ 1 <= Len(queue)
           /\ 1 \in 1..Len(queue) /\ queue[1] = c /\ pc[c] = place
           /\ \A i \in 1..Len(queue) : queue[i] \in Calls
  BY DEF TypeOK, HasTurn

(***************************************************************************)
(* When it gets further, the others wait for their turns as before.        *)
(***************************************************************************)
LEMMA MoveFacts ==
    ASSUME TypeOK, QueueOK, NEW c \in Calls, NEW from, HasTurn(c, from),
           NEW to \in Pending, pc' = [pc EXCEPT ![c] = to], queue' = queue
    PROVE  /\ QueueOK'
           /\ pc'[c] = to /\ \A d \in Calls : d # c => pc'[d] = pc[d]
           /\ \A d \in Calls, place \in Pending :
                  HasTurn(d, place)' => d = c /\ place = to
<1>1. /\ Len(queue) \in Nat /\ 1 \in 1..Len(queue) /\ queue[1] = c
      /\ \A i \in 1..Len(queue) : queue[i] \in Calls
  BY TurnFacts
<1>2. pc'[c] = to /\ \A d \in Calls : d # c => pc'[d] = pc[d]
  BY DEF TypeOK
<1>3. \A i \in 1..Len(queue) : i # 1 => queue[i] # c
  BY <1>1 DEF QueueOK
<1>4. QueueOK'
  BY <1>1, <1>2, <1>3 DEF QueueOK
<1>5. \A d \in Calls, place \in Pending : HasTurn(d, place)' => d = c /\ place = to
  BY <1>2 DEF HasTurn
<1>6. QED
  BY <1>2, <1>4, <1>5

(***************************************************************************)
(* When it returns, the turn of the next one comes.                        *)
(***************************************************************************)
LEMMA ReturnFacts ==
    ASSUME TypeOK, QueueOK, NEW c \in Calls, NEW from, HasTurn(c, from),
           NEW m \in Messages, Return(c, m)
    PROVE  /\ QueueOK'
           /\ queue' \in Seq(Calls)
           /\ pc' \in [Calls -> {"unissued", "queued", "waiting", "joined", "sending", "done"}]
           /\ result' \in [Calls -> Messages] /\ generation' = generation
           /\ pc'[c] = "done" /\ result'[c] = m
           /\ \A d \in Calls : d # c => pc'[d] = pc[d] /\ result'[d] = result[d]
           /\ \A d \in Calls : \A place : HasTurn(d, place)' => place = "queued"
           /\ Len(queue) \in Nat /\ Len(queue') \in Nat
           /\ \A i \in 1..Len(queue') : i + 1 \in 1..Len(queue) /\ queue'[i] = queue[i + 1]
<1>1. /\ Len(queue) \in Nat /\ 1 \in 1..Len(queue) /\ queue[1] = c /\ queue # <<>>
      /\ \A i \in 1..Len(queue) : queue[i] \in Calls
  BY TurnFacts
<1>2. /\ queue' = Tail(queue) /\ queue' \in Seq(Calls)
      /\ Len(queue') = Len(queue) - 1 /\ Len(queue') \in Nat
      /\ \A i \in 1..Len(queue') : i + 1 \in 1..Len(queue) /\ queue'[i] = queue[i + 1]
  BY <1>1 DEF Return, TypeOK
<1>3. /\ pc'[c] = "done" /\ result'[c] = m /\ generation' = generation
      /\ \A d \in Calls : d # c => pc'[d] = pc[d] /\ result'[d] = result[d]
      /\ result' \in [Calls -> Messages]
      /\ pc' \in [Calls -> {"unissued", "queued", "waiting", "joined", "sending", "done"}]
  BY DEF Return, TypeOK
<1>4. \A i \in 1..Len(queue') : queue'[i] # c /\ pc'[queue'[i]] = "queued"
  <2>1. \A i \in 1..Len(queue) : i # 1 => queue[i] # c /\ pc[queue[i]] = "queued"
    BY <1>1 DEF QueueOK
  <2>2. QED
    BY <1>1, <1>2, <1>3, <2>1
<1>5. \A i, j \in 1..Len(queue') : queue'[i] = queue'[j] => i = j
  <2>1. ASSUME NEW i \in 1..Len(queue'), NEW j \in 1..Len(queue'), queue'[i] = queue'[j]
        PROVE  i = j
    <3>1. i + 1 = j + 1
      BY <1>2, <2>1 DEF QueueOK
    <3>2. QED
      BY <3>1, <1>2
  <2>2. QED
    BY <2>1
<1>6. QueueOK'
  BY <1>4, <1>5 DEF QueueOK, Pending
<1>7. ASSUME NEW d \in Calls, NEW place, HasTurn(d, place)'
      PROVE  place = "queued"
  <2>1. queue' # <<>> /\ d = Head(queue') /\ pc'[d] = place
    BY <1>7 DEF HasTurn
  <2>2. 1 \in 1..Len(queue') /\ d = queue'[1]
    BY <1>2, <2>1
  <2>3. QED
    BY <1>4, <2>1, <2>2
<1>8. QED
  BY <1>1, <1>2, <1>3, <1>6, <1>7

(***************************************************************************)
(* A new call comes last.                                                  *)
(***************************************************************************)
LEMMA IssueFacts ==
    ASSUME TypeOK, QueueOK, NEW c \in Calls, pc[c] = "unissued",
           pc' = [pc EXCEPT ![c] = "queued"], queue' = Append(queue, c)
    PROVE  /\ QueueOK' /\ queue' \in Seq(Calls)
           /\ Len(queue) \in Nat /\ Len(queue') = Len(queue) + 1
           /\ queue'[Len(queue) + 1] = c
           /\ \A i \in 1..Len(queue) : /\ queue'[i] = queue[i] /\ queue[i] \in Calls
                                        /\ queue[i] # c
           /\ \A d \in Calls, place \in {"joined", "sending"} :
                  HasTurn(d, place)' => HasTurn(d, place)
<1>1. /\ queue' \in Seq(Calls)
      /\ Len(queue) \in Nat /\ Len(queue') = Len(queue) + 1
      /\ queue'[Len(queue) + 1] = c
      /\ \A i \in 1..Len(queue) : queue'[i] = queue[i] /\ queue[i] \in Calls
      /\ queue # <<>> => Head(queue') = Head(queue)
      /\ queue = <<>> => Head(queue') = c
  BY DEF TypeOK
<1>2. pc'[c] = "queued" /\ \A d \in Calls : d # c => pc'[d] = pc[d]
  BY DEF TypeOK
<1>3. \A i \in 1..Len(queue) : queue[i] # c /\ pc'[queue[i]] = pc[queue[i]]
  BY <1>1, <1>2 DEF QueueOK, Pending
<1>4. \A i \in 1..Len(queue') : i \in 1..Len(queue) \/ i = Len(queue) + 1
  BY <1>1
<1>5. \A i, j \in 1..Len(queue') : queue'[i] = queue'[j] => i = j
  BY <1>1, <1>3, <1>4 DEF QueueOK
<1>6. \A i \in 1..Len(queue') : /\ pc'[queue'[i]] \in Pending
                                /\ i # 1 => pc'[queue'[i]] = "queued"
  BY <1>1, <1>2, <1>3, <1>4 DEF QueueOK, Pending
<1>7. QueueOK'
  BY <1>5, <1>6 DEF QueueOK
<1>8. \A d \in Calls, place \in {"joined", "sending"} : HasTurn(d, place)' => HasTurn(d, place)
  BY <1>1, <1>2 DEF HasTurn
<1>9. QED
  BY <1>1, <1>3, <1>7, <1>8

(***************************************************************************)
(* The calls that have got further are counted.                            *)
(***************************************************************************)
LEMMA ServedGrows ==
    ASSUME \A d \in Calls : pc'[d] \in {"unissued", "queued"} => pc[d] \in {"unissued", "queued"}
    PROVE  /\ Cardinality(Served) \in Nat /\ Cardinality(Served') \in Nat
           /\ Cardinality(Served) <= Cardinality(Served')
<1>1. Served \subseteq Served' /\ Served' \subseteq Calls
  BY DEF Served
<1>2. IsFiniteSet(Served') /\ IsFiniteSet(Served)
  BY <1>1, CallsAssumption, FS_Subset
<1>3. QED
  BY <1>1, <1>2, FS_Subset, FS_CardinalityType

(***************************************************************************)
(* One more when a call starts an attempt.                                 *)
(***************************************************************************)
LEMMA ServedCounts ==
    ASSUME NEW c \in Calls, pc[c] = "queued", pc'[c] \notin {"unissued", "queued"},
           \A d \in Calls : d # c => pc'[d] = pc[d]
    PROVE  /\ Cardinality(Served) \in Nat /\ Cardinality(Calls) \in Nat
           /\ Cardinality(Served') = Cardinality(Served) + 1
           /\ Cardinality(Served') <= Cardinality(Calls)
<1>1. Served' = Served \cup {c} /\ c \notin Served /\ Served' \subseteq Calls
  BY DEF Served
<1>2. IsFiniteSet(Served) /\ IsFiniteSet(Calls)
  BY CallsAssumption, FS_Subset DEF Served
<1>3. Cardinality(Served') = Cardinality(Served) + 1
  BY <1>1, <1>2, FS_AddElement
<1>4. QED
  BY <1>1, <1>2, <1>3, FS_Subset, FS_CardinalityType

-----------------------------------------------------------------------------
(* A call returns *)

(***************************************************************************)
(* A call that returns - refused, out of patience, answered, or lost with  *)
(* the session - keeps the invariant, but for the notice of a restart,     *)
(* which depends on what it is told.                                       *)
(***************************************************************************)
LEMMA ReturnKeeps ==
    ASSUME IInv, NEW c \in Calls, NEW from \in Pending, HasTurn(c, from),
           NEW m \in Messages, Return(c, m),
           UNCHANGED <<startVars, shut, ticket, process, exited, dirs, requests,
                       everReady, stickyError>>,
           responses' \subseteq responses,
           killed' = killed \/ \E p \in Numbers : Kill(p),
           \/ UNCHANGED <<state, deadGeneration, lastFailure>>
           \/ state = "ready" /\ MarkDead(Told("restarted")),
           unobservedStartFailure' = unobservedStartFailure
             \/ (unobservedStartFailure' = Nothing /\ m = unobservedStartFailure),
           restartNoticePending' \in BOOLEAN
    PROVE  /\ TypeOK' /\ QueueOK' /\ PhaseOK' /\ TurnOK' /\ CountOK' /\ ProcOK'
           /\ FileOK' /\ TicketOK' /\ GenOK' /\ FailOK'
<1> USE DEF IInv
<1>1. /\ attempt' = attempt /\ starts' = starts /\ proc' = proc /\ dir' = dir
      /\ nextId' = nextId /\ shut' = shut /\ ticket' = ticket /\ process' = process
      /\ exited' = exited /\ dirs' = dirs /\ requests' = requests
      /\ everReady' = everReady /\ stickyError' = stickyError
  BY DEF startVars
<1>2. /\ QueueOK'
      /\ queue' \in Seq(Calls)
      /\ pc' \in [Calls -> {"unissued", "queued", "waiting", "joined", "sending", "done"}]
      /\ result' \in [Calls -> Messages] /\ generation' = generation
      /\ pc'[c] = "done" /\ result'[c] = m
      /\ \A d \in Calls : d # c => pc'[d] = pc[d] /\ result'[d] = result[d]
      /\ \A d \in Calls : \A place : HasTurn(d, place)' => place = "queued"
      /\ Len(queue) \in Nat /\ Len(queue') \in Nat
      /\ \A i \in 1..Len(queue') : i + 1 \in 1..Len(queue) /\ queue'[i] = queue[i + 1]
  BY ReturnFacts
<1>3. pc[c] = from
  BY DEF HasTurn
<1>4. \/ state' = state /\ deadGeneration' = deadGeneration /\ lastFailure' = lastFailure
      \/ /\ state = "ready" /\ state' = "dead" /\ deadGeneration' = deadGeneration + 1
         /\ lastFailure' = Told("restarted")
  BY DEF MarkDead
<1>5. killed \subseteq killed' /\ \A p \in killed' : p \in killed \/ (p \in Numbers /\ Lives(p))
  BY DEF Kill
<1>6. deadGeneration \in Nat /\ starts \in Nat /\ Told("restarted") \in Messages
      /\ Nothing \in Messages
  BY DEF TypeOK, Numbers, Told, Messages, Kinds, Nothing
<1>7. TypeOK'
  <2>1. deadGeneration' \in 0..starts'
    BY <1>1, <1>4, <1>6 DEF TypeOK, CountOK
  <2>2. killed' \subseteq Numbers
    BY <1>5 DEF TypeOK
  <2>3. {lastFailure', stickyError', unobservedStartFailure'} \subseteq Messages
    BY <1>1, <1>4, <1>6 DEF TypeOK
  <2>4. state' \in {"idle", "starting", "ready", "dead", "closed"}
    BY <1>4 DEF TypeOK
  <2>5. generation' \in [Calls -> Nat]
    BY <1>2 DEF TypeOK
  <2>6. responses' \subseteq [dir : Numbers, id : Nat, by : Senders, says : Kinds]
    BY DEF TypeOK
  <2>7. QED
    BY <1>1, <1>2, <2>1, <2>2, <2>3, <2>4, <2>5, <2>6 DEF TypeOK
<1>8. PhaseOK'
  BY <1>1, <1>4 DEF PhaseOK, ShuttingDown
<1>9. TurnOK'
  BY <1>2 DEF TurnOK
<1>10. CountOK'
  <2>1. Cardinality(Served) \in Nat /\ Cardinality(Served') \in Nat
        /\ Cardinality(Served) <= Cardinality(Served')
    BY <1>2, <1>3, ServedGrows DEF Pending
  <2>2. QED
    BY <1>1, <1>4, <1>6, <2>1 DEF CountOK, PhaseOK
<1>11. ProcOK'
  BY <1>1, <1>5 DEF ProcOK, Lives, NoUnmanagedProcess
<1>12. FileOK'
  <2>1. \A r \in responses' : /\ r.dir = dir /\ r.id < nextId /\ r.says \in {"ok", "noimage"}
                              /\ process[r.dir] \in {"serving", "ended"}
    BY DEF FileOK
  <2>2. attempt \in {"booting", "pinging"} /\ state' = "dead"
          => process[proc] = "ended" /\ responses' = {} /\ attempt = "booting"
    BY <1>4 DEF FileOK, PhaseOK
  <2>3. QED
    BY <1>1, <2>1, <2>2 DEF FileOK
<1>13. TicketOK'
  BY <1>1 DEF TicketOK
<1>14. GenOK'
  <2>1. \A d \in Calls : generation'[d] <= deadGeneration'
    BY <1>2, <1>4, <1>6 DEF GenOK, TypeOK
  <2>2. \A i, j \in 1..Len(queue') : i <= j => generation'[queue'[i]] <= generation'[queue'[j]]
    BY <1>2 DEF GenOK
  <2>3. state' \in {"starting", "ready"} \/ attempt' = "killing" => AllNow'
    BY <1>1, <1>2, <1>4 DEF GenOK, AllNow, PhaseOK
  <2>4. \A d \in Calls : Reached(d)' <=> Reached(d)
    BY <1>1 DEF Reached
  <2>5. \A d \in Calls : pc'[d] \in {"unissued", "queued", "waiting", "joined"} => ~Reached(d)
    BY <1>2 DEF GenOK
  <2>6. ASSUME NEW d \in Calls, Reached(d)
        PROVE  /\ state' \in {"idle", "dead", "starting"} => generation[d] < deadGeneration'
               /\ state' = "starting" => ticket[d].proc < proc
               /\ state' = "ready" => (generation[d] = deadGeneration' <=> ticket[d].proc = proc)
    BY <1>4, <1>6, <2>6 DEF GenOK, TypeOK
  <2>7. GenerationsTellProcessesApart'
    BY <1>1, <1>2, <2>4 DEF GenOK, GenerationsTellProcessesApart
  <2>8. QED
    BY <1>1, <1>2, <2>1, <2>2, <2>3, <2>4, <2>5, <2>6, <2>7 DEF GenOK
<1>15. FailOK'
  <2>1. \A d \in Calls : pc'[d] # "done" => result'[d] = Nothing
    BY <1>2 DEF FailOK
  <2>2. attempt # "none" => unobservedStartFailure' = Nothing
    BY DEF FailOK
  <2>3. attempt = "booting" /\ state' = "dead" => lastFailure'.start = starts
    BY <1>4 DEF FailOK, PhaseOK
  <2>4. ASSUME ~everReady, ~ShuttingDown, NEW n \in 1..starts
        PROVE  \/ n = starts /\ attempt # "none"
               \/ unobservedStartFailure'.start = n
               \/ \E d \in Calls : result'[d].start = n
    <3>1. CASE n = starts /\ attempt # "none"
      BY <3>1
    <3>2. CASE unobservedStartFailure.start = n
      BY <1>2, <3>2
    <3>3. CASE \E d \in Calls : result[d].start = n
      <4>1. PICK d \in Calls : result[d].start = n
        BY <3>3
      <4>2. d # c
        <5>1. result[c].start = 0
          BY <1>3 DEF FailOK, Pending, Nothing, Told
        <5>2. n # 0
          BY <1>6
        <5>3. QED
          BY <4>1, <5>1, <5>2
      <4>3. QED
        BY <1>2, <4>1, <4>2
    <3>4. QED
      BY <2>4, <3>1, <3>2, <3>3 DEF FailOK, FailuresReachSomeone
  <2>5. FailuresReachSomeone'
    BY <1>1, <2>4 DEF FailuresReachSomeone, ShuttingDown
  <2>6. QED
    BY <1>1, <2>1, <2>2, <2>3, <2>5 DEF FailOK
<1>16. QED
  BY <1>2, <1>7, <1>8, <1>9, <1>10, <1>11, <1>12, <1>13, <1>14, <1>15

(***************************************************************************)
(* What it is told: an answer of the process clears the notice only if it  *)
(* gives it, or opens an image anew.                                       *)
(***************************************************************************)
LEMMA ReturnNotice ==
    ASSUME IInv, NEW c \in Calls, NEW from \in Pending, HasTurn(c, from),
           NEW m \in Messages, Return(c, m),
           UNCHANGED <<startVars, ticket, everReady>>,
           state' = "ready" => state = "ready",
           \A x \in {lastFailure', stickyError', unobservedStartFailure'} : x.kind # "noimage",
           restartNoticePending' # restartNoticePending => from = "sending" /\ ToldOfIt(c, m),
           m.kind = "noimage" => from = "sending" /\ ~restartNoticePending
    PROVE  NoticeOK'
<1> USE DEF IInv
<1>1. starts' = starts /\ proc' = proc /\ ticket' = ticket /\ everReady' = everReady
  BY DEF startVars
<1>2. /\ result'[c] = m /\ \A d \in Calls : d # c => result'[d] = result[d]
      /\ \A d \in Calls : \A place : HasTurn(d, place)' => place = "queued"
  BY ReturnFacts
<1>3. pc[c] = from
  BY DEF HasTurn
<1>4. result[c] = Nothing
  BY <1>3 DEF FailOK, Pending
<1>5. ~ToldOfIt(c, result[c])
  BY <1>4 DEF ToldOfIt, Nothing, Told
<1>6. from = "sending" => ticket[c].proc = proc
  BY DEF TurnOK
<1>7. \A d \in Calls : Reached(d)' <=> Reached(d)
  BY <1>1 DEF Reached
<1>8. ASSUME state = "ready" \/ from = "sending", ~restartNoticePending,
             NEW d \in Calls, Reached(d), ticket[d].proc < proc
      PROVE  \E e \in Calls : /\ e # c /\ ticket[e].proc = proc /\ ToldOfIt(e, result[e])
  <2>1. \E e \in Calls : ticket[e].proc = proc /\ ToldOfIt(e, result[e])
    BY <1>8 DEF NoticeOK
  <2>2. QED
    BY <1>5, <2>1
<1>9. ASSUME state' = "ready" \/ \E d \in Calls : HasTurn(d, "sending")',
             ~restartNoticePending', NEW d \in Calls, Reached(d), ticket[d].proc < proc
      PROVE  \E e \in Calls : ticket[e].proc = proc /\ ToldOfIt(e, result'[e])
  <2>1. state = "ready"
    BY <1>2, <1>9
  <2>2. CASE ~restartNoticePending
    BY <1>2, <1>8, <1>9, <2>1, <2>2
  <2>3. CASE restartNoticePending
    BY <1>2, <1>6, <1>9, <2>3
  <2>4. QED
    BY <2>2, <2>3
<1>10. ASSUME NEW x \in Calls, NEW d \in Calls, result'[x].kind = "noimage", Reached(d),
              ticket[d].proc < ticket[x].proc
       PROVE  \E e \in Calls : ticket[e].proc = ticket[x].proc /\ ToldOfIt(e, result'[e])
  <2>1. CASE x = c
    BY <1>2, <1>6, <1>8, <1>10, <2>1
  <2>2. CASE x # c
    <3>1. PICK e \in Calls : ticket[e].proc = ticket[x].proc /\ ToldOfIt(e, result[e])
      BY <1>2, <1>10, <2>2 DEF NoticeOK, RestartIsTold, ToldOfIt
    <3>2. QED
      BY <1>2, <1>5, <3>1
  <2>3. QED
    BY <2>1, <2>2
<1>11. RestartIsTold'
  BY <1>1, <1>7, <1>10 DEF RestartIsTold, ToldOfIt, Reached
<1>12. state' = "ready" \/ (\E d \in Calls : Reached(d)') => everReady'
  BY <1>1, <1>7 DEF NoticeOK
<1>13. QED
  BY <1>1, <1>7, <1>9, <1>11, <1>12 DEF NoticeOK, ToldOfIt

-----------------------------------------------------------------------------
(* The steps of a call *)

(***************************************************************************)
(* A call refused at its turn.                                             *)
(***************************************************************************)
LEMMA RefuseKeeps ==
    ASSUME IInv, NEW c \in Calls, Refuse(c)
    PROVE  IInv'
<1>1. PICK m \in {Told("closed"), stickyError, lastFailure, unobservedStartFailure} :
          /\ Return(c, m)
          /\ \/ unobservedStartFailure' = unobservedStartFailure
             \/ unobservedStartFailure' = Nothing /\ m = unobservedStartFailure
  BY DEF Refuse
<1>2. /\ HasTurn(c, "queued") /\ "queued" \in Pending
      /\ UNCHANGED <<lifeVars, everReady, restartNoticePending, startVars, shut,
                     ticket, osVars, fileVars>>
  BY DEF Refuse, Pending
<1>3. m \in Messages /\ m.kind # "noimage" /\ Nothing.kind # "noimage"
      /\ restartNoticePending \in BOOLEAN
  BY DEF IInv, TypeOK, NoticeOK, Told, Messages, Kinds, Nothing
<1>4. \A x \in {lastFailure', stickyError', unobservedStartFailure'} : x.kind # "noimage"
  BY <1>1, <1>2, <1>3 DEF lifeVars, IInv, NoticeOK
<1>5. /\ UNCHANGED <<startVars, shut, ticket, process, exited, dirs, requests, everReady,
                     stickyError>>
      /\ UNCHANGED <<state, deadGeneration, lastFailure>>
      /\ responses' \subseteq responses /\ killed' = killed
      /\ restartNoticePending' = restartNoticePending /\ restartNoticePending' \in BOOLEAN
  BY <1>2, <1>3 DEF lifeVars, osVars, fileVars
<1>6. /\ TypeOK' /\ QueueOK' /\ PhaseOK' /\ TurnOK' /\ CountOK' /\ ProcOK'
      /\ FileOK' /\ TicketOK' /\ GenOK' /\ FailOK'
  BY <1>1, <1>2, <1>3, <1>5, ReturnKeeps
<1>7. NoticeOK'
  BY <1>1, <1>2, <1>3, <1>4, <1>5, ReturnNotice
<1>8. QED
  BY <1>6, <1>7 DEF IInv

(***************************************************************************)
(* A call that stops waiting for an attempt, is answered, or loses its     *)
(* session.                                                                *)
(***************************************************************************)
LEMMA OutcomeKeeps ==
    ASSUME IInv, NEW c \in Calls, GiveUp(c) \/ Answered(c) \/ Lost(c) \/ TimesOut(c)
    PROVE  IInv'
<1> USE DEF IInv
<1>1. {"waiting", "sending"} \subseteq Pending
  BY DEF Pending
<1>2. restartNoticePending \in BOOLEAN
  BY DEF TypeOK
<1>3. \A k \in {"starting", "failed", "restarted", "timeout", "lostimage", "ok", "noimage"} :
          Told(k) \in Messages /\ Told(k).kind = k
  BY DEF Told, Messages, Kinds
<1>4. \A x \in {lastFailure, stickyError, unobservedStartFailure} : x.kind # "noimage"
  BY DEF NoticeOK
<1>5. CASE GiveUp(c)
  <2>1. /\ HasTurn(c, "waiting") /\ Return(c, Told("starting"))
        /\ UNCHANGED <<lifeVars, saidVars, startVars, shut, ticket, osVars, fileVars>>
    BY <1>5 DEF GiveUp, Waiting
  <2>2. /\ UNCHANGED <<startVars, shut, ticket, process, exited, dirs, requests, everReady,
                       stickyError>>
        /\ UNCHANGED <<state, deadGeneration, lastFailure, unobservedStartFailure>>
        /\ responses' \subseteq responses /\ killed' = killed
        /\ restartNoticePending' = restartNoticePending
    BY <2>1 DEF lifeVars, saidVars, osVars, fileVars
  <2>3. /\ TypeOK' /\ QueueOK' /\ PhaseOK' /\ TurnOK' /\ CountOK' /\ ProcOK'
        /\ FileOK' /\ TicketOK' /\ GenOK' /\ FailOK'
    BY <1>1, <1>2, <1>3, <2>1, <2>2, ReturnKeeps
  <2>4. NoticeOK'
    BY <1>1, <1>3, <1>4, <2>1, <2>2, ReturnNotice
  <2>5. QED
    BY <2>3, <2>4
<1>6. CASE Answered(c)
  <2>1. PICK r \in Response(c) :
         \/ /\ responses' = responses \ {r}
            /\ IF r.says = "noimage" /\ restartNoticePending
               THEN /\ Return(c, Told("lostimage"))
                    /\ restartNoticePending' = FALSE
               ELSE /\ Return(c, Told(r.says))
                    /\ restartNoticePending' =
                         (restartNoticePending /\ ~(c \in Opens /\ r.says = "ok"))
         \/ /\ Return(c, Told("failed"))
            /\ UNCHANGED <<responses, restartNoticePending>>
    BY <1>6 DEF Answered
  <2>2. r \in responses /\ r.says \in {"ok", "noimage"}
    BY DEF Response, FileOK
  <2>3. PICK k \in {"failed", "lostimage", "ok", "noimage"} :
          /\ Return(c, Told(k))
          /\ restartNoticePending' # restartNoticePending => ToldOfIt(c, Told(k))
          /\ k = "noimage" => ~restartNoticePending
          /\ restartNoticePending' \in BOOLEAN
    BY <1>2, <1>3, <2>1, <2>2 DEF ToldOfIt
  <2>4. /\ HasTurn(c, "sending")
        /\ UNCHANGED <<lifeVars, unobservedStartFailure, everReady, startVars, shut,
                       ticket, osVars, dirs, requests>>
    BY <1>6 DEF Answered
  <2>5. /\ UNCHANGED <<startVars, shut, ticket, process, exited, dirs, requests, everReady,
                       stickyError>>
        /\ UNCHANGED <<state, deadGeneration, lastFailure, unobservedStartFailure>>
        /\ responses' \subseteq responses /\ killed' = killed
    BY <2>1, <2>4 DEF lifeVars, osVars
  <2>6. /\ TypeOK' /\ QueueOK' /\ PhaseOK' /\ TurnOK' /\ CountOK' /\ ProcOK'
        /\ FileOK' /\ TicketOK' /\ GenOK' /\ FailOK'
    BY <1>1, <1>3, <2>3, <2>4, <2>5, ReturnKeeps
  <2>7. NoticeOK'
    BY <1>1, <1>3, <1>4, <2>3, <2>4, <2>5, ReturnNotice
  <2>8. QED
    BY <2>6, <2>7
<1>7. CASE Lost(c) \/ TimesOut(c)
  <2>1. PICK k \in {"restarted", "timeout"} : Return(c, Told(k))
    BY <1>7 DEF Lost, TimesOut
  <2>2. /\ HasTurn(c, "sending") /\ DeadUnlessShuttingDown
        /\ UNCHANGED <<stickyError, saidVars, startVars, shut, ticket, process, exited,
                       fileVars>>
        /\ killed' = killed \/ Kill(ticket[c].proc)
    BY <1>7 DEF Lost, TimesOut, osVars
  <2>3. attempt = "none" /\ state \in {"ready", "dead", "closed"} /\ ticket[c].proc = proc
    BY <2>2 DEF TurnOK
  <2>4. \/ UNCHANGED <<state, deadGeneration, lastFailure>>
        \/ state = "ready" /\ MarkDead(Told("restarted"))
    BY <2>2, <2>3 DEF DeadUnlessShuttingDown, MarkDead
  <2>5. /\ state' = "ready" => state = "ready"
        /\ lastFailure' \in {lastFailure, Told("restarted")}
    BY <2>4 DEF MarkDead
  <2>6. Kill(ticket[c].proc) => killed' = killed \/ \E p \in Numbers : Kill(p)
    <3>1. proc \in {0} \cup Numbers
      BY DEF TypeOK
    <3>2. pc[c] = "sending" /\ proc # 0
      <4>1. pc[c] = "sending" /\ Reached(c) /\ c \in Senders
        BY <2>2 DEF HasTurn, TurnOK, Senders
      <4>2. 1 <= ticket[c].proc
        BY <4>1 DEF TicketOK, Reached
      <4>3. QED
        BY <2>3, <4>1, <4>2
    <3>3. QED
      BY <2>3, <3>1, <3>2
  <2>7. /\ UNCHANGED <<startVars, shut, ticket, process, exited, dirs, requests, everReady,
                       stickyError, unobservedStartFailure>>
        /\ responses' \subseteq responses
        /\ killed' = killed \/ \E p \in Numbers : Kill(p)
        /\ restartNoticePending' = restartNoticePending
    BY <2>2, <2>6 DEF saidVars, osVars, fileVars
  <2>8. /\ TypeOK' /\ QueueOK' /\ PhaseOK' /\ TurnOK' /\ CountOK' /\ ProcOK'
        /\ FileOK' /\ TicketOK' /\ GenOK' /\ FailOK'
    BY <1>1, <1>2, <1>3, <2>1, <2>2, <2>4, <2>7, ReturnKeeps
  <2>9. NoticeOK'
    BY <1>1, <1>3, <1>4, <2>1, <2>2, <2>5, <2>7, ReturnNotice
  <2>10. QED
    BY <2>8, <2>9
<1>8. QED
  BY <1>5, <1>6, <1>7

-----------------------------------------------------------------------------
(* A start attempt ends *)

(***************************************************************************)
(* The failure v of an attempt is handed to the call at the head, which    *)
(* had not got as far as a session, or it is kept.                         *)
(***************************************************************************)
Settles(v) ==
    /\ QueueOK' /\ queue' \in Seq(Calls)
    /\ pc' \in [Calls -> {"unissued", "queued", "waiting", "joined", "sending", "done"}]
    /\ result' \in [Calls -> Messages]
    /\ generation' = generation
    /\ \A d \in Calls :
          /\ pc'[d] = pc[d] \/ pc'[d] = "done"
          /\ result'[d] = result[d]
               \/ (result[d] = Nothing /\ result'[d] = v /\ pc'[d] = "done")
    /\ \A d \in Calls : ~HasTurn(d, "joined")' /\ ~HasTurn(d, "sending")'
    /\ \E k \in {0, 1} : \A i \in 1..Len(queue') :
          i + k \in 1..Len(queue) /\ queue'[i] = queue[i + k]
    /\ \/ unobservedStartFailure' = unobservedStartFailure
          /\ \E d \in Calls : result'[d] = v
       \/ unobservedStartFailure' = v

(***************************************************************************)
(* It is handed to the call by returning it.                               *)
(***************************************************************************)
LEMMA ReturnSettles ==
    ASSUME IInv, NEW c \in Calls, NEW from \in {"queued", "waiting"}, HasTurn(c, from),
           NEW v \in Messages, Return(c, v),
           unobservedStartFailure' = unobservedStartFailure
    PROVE  Settles(v)
<1> USE DEF IInv
<1>1. /\ QueueOK'
      /\ queue' \in Seq(Calls)
      /\ pc' \in [Calls -> {"unissued", "queued", "waiting", "joined", "sending", "done"}]
      /\ result' \in [Calls -> Messages] /\ generation' = generation
      /\ pc'[c] = "done" /\ result'[c] = v
      /\ \A d \in Calls : d # c => pc'[d] = pc[d] /\ result'[d] = result[d]
      /\ \A d \in Calls : \A place : HasTurn(d, place)' => place = "queued"
      /\ Len(queue) \in Nat /\ Len(queue') \in Nat
      /\ \A i \in 1..Len(queue') : i + 1 \in 1..Len(queue) /\ queue'[i] = queue[i + 1]
  BY ReturnFacts
<1>2. result[c] = Nothing
  BY DEF HasTurn, FailOK
<1>3. QED
  BY <1>1, <1>2 DEF Settles

(***************************************************************************)
(* An attempt that rejects does one or the other.                          *)
(***************************************************************************)
LEMMA RejectSettles ==
    ASSUME IInv, attempt # "none", NEW v \in Messages, AttemptRejects(v)
    PROVE  /\ Settles(v)
           /\ attempt' = "none"
           /\ UNCHANGED <<starts, proc, everReady, restartNoticePending>>
<1>1. attempt' = "none" /\ UNCHANGED <<starts, proc, everReady, restartNoticePending>>
  BY DEF AttemptRejects
<1>2. CASE \E c \in Calls : Waiting(c)
  <2>1. PICK c \in Calls : Waiting(c) /\ Return(c, v)
    BY <1>2 DEF AttemptRejects
  <2>2. unobservedStartFailure' = unobservedStartFailure
    BY <1>2 DEF AttemptRejects
  <2>3. QED
    BY <1>1, <2>1, <2>2, ReturnSettles DEF Waiting
<1>3. CASE ~\E c \in Calls : Waiting(c)
  <2>1. unobservedStartFailure' = v /\ UNCHANGED callVars
    BY <1>3 DEF AttemptRejects
  <2>2. \A d \in Calls : ~HasTurn(d, "joined") /\ ~HasTurn(d, "sending")
    BY DEF IInv, TurnOK, PhaseOK
  <2>3. QueueOK' /\ \A d \in Calls : ~HasTurn(d, "joined")' /\ ~HasTurn(d, "sending")'
    BY <2>1, <2>2 DEF callVars, IInv, QueueOK, HasTurn
  <2>4. \A i \in 1..Len(queue) : i + 0 \in 1..Len(queue) /\ queue[i] = queue[i + 0]
    BY DEF IInv, TypeOK
  <2>5. QED
    BY <1>1, <2>1, <2>3, <2>4 DEF Settles, callVars, IInv, TypeOK
<1>4. QED
  BY <1>2, <1>3

(***************************************************************************)
(* No failure is lost by it.                                               *)
(***************************************************************************)
LEMMA SettlesFail ==
    ASSUME IInv, NEW v \in Messages, Settles(v), attempt' = "none",
           unobservedStartFailure = Nothing, everReady' = everReady, shut' = shut,
           starts' = starts \/ (starts' = starts + 1 /\ attempt = "none"),
           ShuttingDown \/ v.start = starts'
    PROVE  FailOK'
<1> USE DEF IInv
<1>1. \A d \in Calls : pc'[d] # "done" => result'[d] = Nothing
  BY DEF FailOK, Settles
<1>2. starts \in Nat /\ Nothing.start = 0
  BY DEF TypeOK, Numbers, Nothing, Told
<1>3. ASSUME ~everReady, ~ShuttingDown, NEW n \in 1..starts'
      PROVE  unobservedStartFailure'.start = n \/ \E d \in Calls : result'[d].start = n
  <2>1. CASE n = starts'
    BY <1>3, <2>1 DEF Settles
  <2>2. CASE n # starts'
    <3>1. n \in 1..starts /\ ~(n = starts /\ attempt # "none") /\ n # 0
      BY <1>2, <1>3, <2>2
    <3>2. PICK d \in Calls : result[d].start = n
      BY <1>2, <1>3, <3>1 DEF FailOK, FailuresReachSomeone
    <3>3. result'[d] = result[d]
      BY <1>2, <3>1, <3>2 DEF Settles
    <3>4. QED
      BY <3>2, <3>3
  <2>3. QED
    BY <2>1, <2>2
<1>4. FailuresReachSomeone'
  BY <1>3 DEF FailuresReachSomeone, ShuttingDown
<1>5. QED
  BY <1>1, <1>4 DEF FailOK

(***************************************************************************)
(* And what has been told of restarts remains told.                        *)
(***************************************************************************)
LEMMA SettlesNotice ==
    ASSUME IInv, NEW v \in Messages, Settles(v), v.kind # "noimage",
           ticket' = ticket, everReady' = everReady, state' # "ready",
           \A x \in {lastFailure', stickyError'} : x.kind # "noimage"
    PROVE  NoticeOK'
<1> USE DEF IInv
<1>1. \A d \in Calls : Reached(d)' <=> Reached(d)
  BY DEF Reached
<1>2. \A d \in Calls : ~HasTurn(d, "sending")'
  BY DEF Settles
<1>3. unobservedStartFailure'.kind # "noimage"
  BY DEF Settles, NoticeOK
<1>4. ASSUME NEW x \in Calls, NEW d \in Calls, result'[x].kind = "noimage", Reached(d),
             ticket[d].proc < ticket[x].proc
      PROVE  \E e \in Calls : ticket[e].proc = ticket[x].proc /\ ToldOfIt(e, result'[e])
  <2>1. result'[x] = result[x]
    BY <1>4 DEF Settles
  <2>2. PICK e \in Calls : ticket[e].proc = ticket[x].proc /\ ToldOfIt(e, result[e])
    BY <1>4, <2>1 DEF NoticeOK, RestartIsTold, ToldOfIt
  <2>3. result'[e] = result[e]
    BY <2>2 DEF Settles, ToldOfIt, Nothing, Told
  <2>4. QED
    BY <2>2, <2>3
<1>5. RestartIsTold'
  BY <1>1, <1>4 DEF RestartIsTold, ToldOfIt, Reached
<1>6. state' = "ready" \/ (\E d \in Calls : Reached(d)') => everReady'
  BY <1>1 DEF NoticeOK
<1>7. QED
  BY <1>2, <1>3, <1>5, <1>6 DEF NoticeOK

(***************************************************************************)
(* Counting, with it.                                                      *)
(***************************************************************************)
LEMMA SettlesServed ==
    ASSUME IInv, NEW v, Settles(v)
    PROVE  /\ Cardinality(Served) \in Nat /\ Cardinality(Served') \in Nat
           /\ Cardinality(Served) <= Cardinality(Served')
<1>1. \A d \in Calls : pc'[d] \in {"unissued", "queued"} => pc[d] \in {"unissued", "queued"}
  BY DEF Settles
<1>2. QED
  BY <1>1, ServedGrows

(***************************************************************************)
(* An attempt that had spawned its process, or waited for the previous one *)
(* to be gone, ends: it marks the session dead, or shutdown has begun.     *)
(***************************************************************************)
LEMMA AttemptEnds ==
    ASSUME IInv, attempt # "none", NEW v \in Messages, v.kind # "noimage",
           AttemptRejects(v),
           UNCHANGED <<dir, nextId, shut, ticket, process, exited, dirs, requests>>,
           responses' \subseteq responses,
           killed' = killed \/ Kill(proc),
           \/ ~Open /\ UNCHANGED lifeVars
           \/ /\ attempt # "killing" /\ v.start = starts /\ RememberSticky(v)
              /\ \E w \in Messages : w.kind # "noimage" /\ MarkDead(w)
    PROVE  IInv'
<1> USE DEF IInv
<1>1. /\ Settles(v) /\ attempt' = "none" /\ starts' = starts /\ proc' = proc
      /\ everReady' = everReady /\ restartNoticePending' = restartNoticePending
      /\ dir' = dir /\ nextId' = nextId /\ shut' = shut /\ ticket' = ticket
      /\ process' = process /\ exited' = exited /\ dirs' = dirs /\ requests' = requests
  BY RejectSettles
<1>2. /\ QueueOK' /\ queue' \in Seq(Calls)
      /\ pc' \in [Calls -> {"unissued", "queued", "waiting", "joined", "sending", "done"}]
      /\ result' \in [Calls -> Messages]
      /\ generation' = generation
      /\ \A d \in Calls : pc'[d] = pc[d] \/ pc'[d] = "done"
      /\ \A d \in Calls : ~HasTurn(d, "joined")' /\ ~HasTurn(d, "sending")'
  BY <1>1 DEF Settles
<1>3. /\ deadGeneration \in Nat /\ starts \in Nat /\ deadGeneration <= starts
      /\ Nothing \in Messages /\ unobservedStartFailure = Nothing
      /\ state \in {"starting", "dead", "closed"}
  BY DEF TypeOK, Numbers, Told, Messages, Kinds, Nothing, FailOK, PhaseOK
<1>4. ~Open <=> ShuttingDown
  BY DEF Open, PhaseOK
<1>5. /\ lastFailure' \in Messages /\ lastFailure'.kind # "noimage"
      /\ stickyError' \in Messages /\ stickyError'.kind # "noimage"
      /\ unobservedStartFailure' \in Messages
      /\ \/ state' = state /\ deadGeneration' = deadGeneration /\ (ShuttingDown \/ state = "dead")
         \/ /\ state = "starting" /\ state' = "dead"
            /\ deadGeneration' = deadGeneration + 1
  <2>1. /\ {lastFailure, stickyError} \subseteq Messages
        /\ lastFailure.kind # "noimage" /\ stickyError.kind # "noimage"
    BY DEF TypeOK, NoticeOK
  <2>2. unobservedStartFailure' \in Messages
    BY <1>1, <1>3 DEF Settles
  <2>3. CASE ~Open /\ UNCHANGED lifeVars
    BY <1>4, <2>1, <2>2, <2>3 DEF lifeVars
  <2>4. CASE RememberSticky(v) /\ \E w \in Messages : w.kind # "noimage" /\ MarkDead(w)
    <3>1. PICK w \in Messages : w.kind # "noimage" /\ MarkDead(w)
      BY <2>4
    <3>2. stickyError' \in {v, stickyError}
      BY <2>4 DEF RememberSticky
    <3>3. \/ /\ state \in {"dead", "closed"} /\ state' = state
             /\ deadGeneration' = deadGeneration /\ lastFailure' = lastFailure
          \/ /\ state = "starting" /\ state' = "dead"
             /\ deadGeneration' = deadGeneration + 1 /\ lastFailure' = w
      BY <1>3, <3>1 DEF MarkDead
    <3>4. state = "closed" => ShuttingDown
      BY DEF PhaseOK
    <3>5. QED
      BY <2>1, <2>2, <3>1, <3>2, <3>3, <3>4
  <2>5. QED
    BY <2>3, <2>4
<1>6. killed \subseteq killed' /\ \A p \in killed' : p \in killed \/ (p = proc /\ Lives(p))
  BY DEF Kill
<1>7. TypeOK'
  <2>1. deadGeneration' \in 0..starts'
    BY <1>1, <1>3, <1>5 DEF CountOK
  <2>2. killed' \subseteq Numbers
    <3>1. proc \in Numbers
      BY DEF PhaseOK, TypeOK
    <3>2. QED
      BY <1>6, <3>1 DEF TypeOK
  <2>3. state' \in {"idle", "starting", "ready", "dead", "closed"}
    BY <1>3, <1>5
  <2>4. generation' \in [Calls -> Nat]
    BY <1>2 DEF TypeOK
  <2>5. responses' \subseteq [dir : Numbers, id : Nat, by : Senders, says : Kinds]
    BY DEF TypeOK
  <2>6. QED
    BY <1>1, <1>2, <1>5, <2>1, <2>2, <2>3, <2>4, <2>5 DEF TypeOK
<1>8. PhaseOK'
  BY <1>1, <1>3, <1>5 DEF PhaseOK, ShuttingDown
<1>9. TurnOK'
  BY <1>2 DEF TurnOK
<1>10. CountOK'
  BY <1>1, <1>3, <1>5, SettlesServed DEF CountOK, TypeOK
<1>11. ProcOK'
  BY <1>1, <1>6 DEF ProcOK, Lives, NoUnmanagedProcess
<1>12. FileOK'
  BY <1>1 DEF FileOK
<1>13. TicketOK'
  BY <1>1 DEF TicketOK
<1>14. GenOK'
  <2>1. \A d \in Calls : Reached(d)' <=> Reached(d)
    BY <1>1 DEF Reached
  <2>2. \A d \in Calls : generation'[d] <= deadGeneration'
    BY <1>2, <1>3, <1>5 DEF GenOK, TypeOK
  <2>3. /\ \A i, j \in 1..Len(queue') : i <= j => generation'[queue'[i]] <= generation'[queue'[j]]
        /\ AllNow => \A i \in 1..Len(queue') : generation'[queue'[i]] = deadGeneration
    <3>1. PICK k \in {0, 1} : \A i \in 1..Len(queue') :
                                  i + k \in 1..Len(queue) /\ queue'[i] = queue[i + k]
      BY <1>1 DEF Settles
    <3>2. ASSUME NEW i \in 1..Len(queue'), NEW j \in 1..Len(queue'), i <= j
          PROVE  generation[queue'[i]] <= generation[queue'[j]]
      <4>1. /\ i + k \in 1..Len(queue) /\ j + k \in 1..Len(queue) /\ i + k <= j + k
            /\ queue'[i] = queue[i + k] /\ queue'[j] = queue[j + k]
        BY <3>1, <3>2
      <4>2. QED
        BY <4>1 DEF GenOK
    <3>3. ASSUME AllNow, NEW i \in 1..Len(queue')
          PROVE  generation[queue'[i]] = deadGeneration
      BY <3>1, <3>3 DEF AllNow
    <3>4. QED
      BY <1>2, <3>2, <3>3
  <2>4. state' \in {"starting", "ready"} => AllNow'
    BY <1>3, <1>5, <2>3 DEF GenOK, AllNow
  <2>5. \A d \in Calls : pc'[d] \in {"unissued", "queued", "waiting", "joined"} => ~Reached(d)
    BY <1>2 DEF GenOK
  <2>6. ASSUME NEW d \in Calls, Reached(d)
        PROVE  /\ state' \in {"idle", "dead", "starting"} => generation[d] < deadGeneration'
               /\ state' = "starting" => ticket[d].proc < proc
               /\ state' # "ready"
    <3>1. generation[d] \in Nat /\ generation[d] <= deadGeneration
      BY DEF TypeOK, GenOK
    <3>2. QED
      BY <1>3, <1>5, <2>6, <3>1 DEF GenOK
  <2>7. GenerationsTellProcessesApart'
    BY <1>1, <1>2, <2>1 DEF GenOK, GenerationsTellProcessesApart
  <2>8. QED
    BY <1>1, <1>2, <2>1, <2>2, <2>3, <2>4, <2>5, <2>6, <2>7 DEF GenOK
<1>15. FailOK'
  <2>1. ShuttingDown \/ v.start = starts'
    BY <1>1, <1>4
  <2>2. QED
    BY <1>1, <1>3, <2>1, SettlesFail
<1>16. NoticeOK'
  <2>1. state' # "ready"
    BY <1>3, <1>5
  <2>2. QED
    BY <1>1, <1>5, <2>1, SettlesNotice
<1>17. QED
  BY <1>2, <1>7, <1>8, <1>9, <1>10, <1>11, <1>12, <1>13, <1>14, <1>15, <1>16

(***************************************************************************)
(* An attempt that does not get as far as a process.                       *)
(***************************************************************************)
LEMMA NotLaunchedKeeps ==
    ASSUME IInv, Open, unobservedStartFailure = Nothing,
           \/ starts' = starts /\ attempt = "killing"
           \/ starts' = starts + 1 /\ attempt = "none" /\ state \in {"idle", "dead"},
           starts' \in Numbers, starts' <= Cardinality(Served'),
           NEW v \in Messages, v.kind # "noimage", v.start = starts',
           NEW prepared \in BOOLEAN, NotLaunched(starts', v, prepared),
           Settles(v), attempt' = "none",
           UNCHANGED <<proc, everReady, restartNoticePending, process, killed, exited,
                       shut, ticket>>
    PROVE  IInv'
<1> USE DEF IInv
<1>1. /\ attempt' = "none" /\ proc' = proc
      /\ everReady' = everReady /\ restartNoticePending' = restartNoticePending
      /\ process' = process /\ killed' = killed /\ exited' = exited /\ shut' = shut
      /\ ticket' = ticket
  OBVIOUS
<1>2. /\ QueueOK' /\ queue' \in Seq(Calls)
      /\ pc' \in [Calls -> {"unissued", "queued", "waiting", "joined", "sending", "done"}]
      /\ result' \in [Calls -> Messages]
      /\ generation' = generation
      /\ \A d \in Calls : pc'[d] = pc[d] \/ pc'[d] = "done"
      /\ \A d \in Calls : ~HasTurn(d, "joined")' /\ ~HasTurn(d, "sending")'
  BY DEF Settles
<1>3. /\ deadGeneration \in Nat /\ starts \in Nat /\ deadGeneration <= starts
      /\ proc \in Nat /\ dir \in Nat /\ starts' \in Nat /\ starts' # 0
      /\ state \in {"idle", "dead"} /\ ~ShuttingDown
      /\ deadGeneration < starts' /\ dir < starts' /\ proc < starts' /\ starts <= starts'
  BY DEF TypeOK, Numbers, PhaseOK, CountOK, Open
<1>4. /\ state' = "dead" /\ deadGeneration' = deadGeneration + 1 /\ lastFailure' = v
      /\ stickyError' \in {stickyError, v}
      /\ dir' \in {dir, starts'} /\ dir <= dir'
      /\ requests' = {} /\ responses' = {} /\ dirs' \subseteq {dir'} /\ dirs' \subseteq Numbers
      /\ nextId' \in Nat /\ 1 <= nextId' /\ (dir' = dir => nextId' = nextId)
  <2>1. dirs \subseteq {dir} /\ dirs \subseteq Numbers /\ dir # starts'
    BY <1>3 DEF FileOK, TypeOK
  <2>2. /\ requests' = {r \in requests : r.dir # dir}
        /\ responses' = {r \in responses : r.dir # dir}
        /\ dirs' = (dirs \ {dir}) \cup (IF prepared THEN {starts'} ELSE {})
        /\ dir' = (IF prepared THEN starts' ELSE dir)
        /\ nextId' = (IF prepared THEN 1 ELSE nextId)
    BY DEF NotLaunched, RemoveDir
  <2>3. requests' = {} /\ responses' = {}
    BY <2>2 DEF FileOK
  <2>4. nextId \in Nat /\ 1 <= nextId
    BY DEF TypeOK, FileOK
  <2>5. QED
    BY <1>3, <2>1, <2>2, <2>3, <2>4 DEF NotLaunched, RememberSticky
<1>5. /\ lastFailure' \in Messages /\ lastFailure'.kind # "noimage"
      /\ stickyError' \in Messages /\ stickyError'.kind # "noimage"
      /\ unobservedStartFailure' \in Messages
  <2>1. stickyError \in Messages /\ stickyError.kind # "noimage"
        /\ unobservedStartFailure \in Messages
    BY DEF TypeOK, NoticeOK
  <2>2. QED
    BY <1>4, <2>1 DEF Settles
<1>6. TypeOK'
  <2>1. deadGeneration' \in 0..starts'
    BY <1>3, <1>4
  <2>2. {starts', proc', dir'} \subseteq {0} \cup Numbers
    BY <1>1, <1>4 DEF TypeOK
  <2>3. generation' \in [Calls -> Nat]
    BY <1>2 DEF TypeOK
  <2>4. QED
    BY <1>1, <1>2, <1>4, <1>5, <2>1, <2>2, <2>3 DEF TypeOK
<1>7. PhaseOK'
  BY <1>1, <1>3, <1>4 DEF PhaseOK, ShuttingDown
<1>8. TurnOK'
  BY <1>2 DEF TurnOK
<1>9. CountOK'
  BY <1>1, <1>4 DEF CountOK
<1>10. ProcOK'
  <2>1. ASSUME NEW p \in Numbers
        PROVE  /\ p > starts' => process[p] = "none"
               /\ p \in exited => process[p] = "ended"
               /\ p \in killed => Lives(p)
               /\ p = proc /\ shut = "confirming" /\ Lives(p) => p \in killed
    BY <1>3 DEF ProcOK, Numbers
  <2>2. QED
    BY <1>1, <2>1 DEF ProcOK, Lives, NoUnmanagedProcess
<1>11. FileOK'
  BY <1>1, <1>4 DEF FileOK
<1>12. TicketOK'
  <2>1. ASSUME NEW s \in Senders
        PROVE  /\ ticket[s].dir <= dir' /\ ticket[s].proc <= proc
               /\ ticket[s].dir = dir' => ticket[s].id < nextId'
               /\ ticket[s] # NoTicket => /\ 1 <= ticket[s].id /\ 1 <= ticket[s].dir
                                          /\ 1 <= ticket[s].proc
    <3>1. ticket[s].dir \in Nat /\ ticket[s].dir <= dir
      BY DEF TypeOK, TicketOK
    <3>2. QED
      BY <1>3, <1>4, <3>1 DEF TicketOK
  <2>2. QED
    BY <1>1, <1>4, <2>1 DEF TicketOK
<1>13. GenOK'
  <2>1. \A d \in Calls : Reached(d)' <=> Reached(d)
    BY <1>1 DEF Reached
  <2>2. \A d \in Calls : generation'[d] < deadGeneration'
    BY <1>2, <1>3, <1>4 DEF GenOK, TypeOK
  <2>3. \A i, j \in 1..Len(queue') : i <= j => generation'[queue'[i]] <= generation'[queue'[j]]
    <3>1. PICK k \in {0, 1} : \A i \in 1..Len(queue') :
                                  i + k \in 1..Len(queue) /\ queue'[i] = queue[i + k]
      BY DEF Settles
    <3>2. ASSUME NEW i \in 1..Len(queue'), NEW j \in 1..Len(queue'), i <= j
          PROVE  generation[queue'[i]] <= generation[queue'[j]]
      <4>1. /\ i + k \in 1..Len(queue) /\ j + k \in 1..Len(queue) /\ i + k <= j + k
            /\ queue'[i] = queue[i + k] /\ queue'[j] = queue[j + k]
        BY <3>1, <3>2
      <4>2. QED
        BY <4>1 DEF GenOK
    <3>3. QED
      BY <1>2, <3>2
  <2>4. \A d \in Calls : pc'[d] \in {"unissued", "queued", "waiting", "joined"} => ~Reached(d)
    BY <1>2 DEF GenOK
  <2>5. GenerationsTellProcessesApart'
    BY <1>1, <1>2, <2>1 DEF GenOK, GenerationsTellProcessesApart
  <2>6. \A d \in Calls : generation'[d] <= deadGeneration'
    BY <1>2, <1>3, <1>4 DEF GenOK, TypeOK
  <2>7. QED
    BY <1>1, <1>4, <2>1, <2>2, <2>3, <2>4, <2>5, <2>6 DEF GenOK
<1>14. FailOK'
  BY <1>1, SettlesFail
<1>15. NoticeOK'
  BY <1>1, <1>4, <1>5, SettlesNotice
<1>16. QED
  BY <1>2, <1>6, <1>7, <1>8, <1>9, <1>10, <1>11, <1>12, <1>13, <1>14, <1>15

(***************************************************************************)
(* An attempt that spawns its process, or learns later that it did not.    *)
(***************************************************************************)
LEMMA LaunchKeeps ==
    ASSUME IInv, Open, unobservedStartFailure = Nothing, AllNow,
           \/ starts' = starts /\ attempt = "killing"
           \/ /\ starts' = starts + 1 /\ attempt = "none" /\ state \in {"idle", "dead"}
              /\ proc = 0 \/ proc \in exited,
           starts' \in Numbers, starts' <= Cardinality(Served'),
           Launched(starts'),
           QueueOK', queue' = queue, generation' = generation, result' = result,
           pc' \in [Calls -> {"unissued", "queued", "waiting", "joined", "sending", "done"}],
           \A d \in Calls : pc'[d] = pc[d] \/ (pc[d] = "queued" /\ pc'[d] = "waiting"),
           \A d \in Calls : ~HasTurn(d, "joined")' /\ ~HasTurn(d, "sending")',
           UNCHANGED <<saidVars, killed, exited, shut, ticket>>
    PROVE  IInv'
<1> USE DEF IInv
<1>1. /\ everReady' = everReady /\ restartNoticePending' = restartNoticePending
      /\ unobservedStartFailure' = unobservedStartFailure
      /\ killed' = killed /\ exited' = exited /\ shut' = shut
      /\ ticket' = ticket
  BY DEF saidVars
<1>2. /\ deadGeneration \in Nat /\ starts \in Nat /\ deadGeneration <= starts
      /\ proc \in Nat /\ dir \in Nat /\ starts' \in Nat /\ starts' # 0
      /\ state \in {"idle", "dead"} /\ ~ShuttingDown
      /\ deadGeneration < starts' /\ dir < starts' /\ proc < starts' /\ starts <= starts'
  BY DEF TypeOK, Numbers, PhaseOK, CountOK, Open
<1>3. /\ state' = "starting" /\ attempt' = "booting" /\ proc' = starts' /\ dir' = starts'
      /\ nextId' = 1 /\ deadGeneration' = deadGeneration /\ lastFailure' = lastFailure
      /\ stickyError' = stickyError
      /\ requests' = {} /\ responses' = {} /\ dirs' \subseteq {dir'} /\ dirs' \subseteq Numbers
  <2>1. dirs \subseteq {dir} /\ dirs \subseteq Numbers
    BY <1>2 DEF FileOK, TypeOK
  <2>2. /\ requests' = {r \in requests : r.dir # dir}
        /\ responses' = {r \in responses : r.dir # dir}
        /\ dirs' = (dirs \ {dir}) \cup {starts'}
    BY DEF Launched, RemoveDir
  <2>3. requests' = {} /\ responses' = {}
    BY <2>2 DEF FileOK
  <2>4. QED
    BY <2>1, <2>2, <2>3 DEF Launched
<1>4. process[starts'] = "none"
  BY <1>2 DEF ProcOK
<1>5. /\ process' \in [Numbers -> {"none", "unspawned", "booting", "serving", "ended"}]
      /\ \A p \in Numbers : p # starts' => process'[p] = process[p]
  <2>1. PICK outcome \in {"booting", "unspawned"} : process' = [process EXCEPT ![starts'] = outcome]
    BY DEF Launched
  <2>2. QED
    BY <2>1 DEF TypeOK
<1>6. TypeOK'
  <2>1. deadGeneration' \in 0..starts'
    BY <1>2, <1>3
  <2>2. {starts', proc', dir'} \subseteq {0} \cup Numbers
    BY <1>3
  <2>3. QED
    BY <1>1, <1>3, <1>5, <2>1, <2>2 DEF TypeOK
<1>7. PhaseOK'
  BY <1>1, <1>2, <1>3 DEF PhaseOK, ShuttingDown
<1>8. TurnOK'
  BY DEF TurnOK
<1>9. CountOK'
  BY <1>2, <1>3 DEF CountOK
<1>10. ProcOK'
  <2>1. ASSUME NEW p \in Numbers, p = starts'
        PROVE  p \notin exited /\ p \notin killed /\ ~(shut = "confirming") /\ shut # "done"
    BY <1>2, <1>4, <2>1 DEF ProcOK, Lives, ShuttingDown
  <2>2. ASSUME NEW p \in Numbers, p # starts'
        PROVE  /\ p > starts' => process[p] = "none"
               /\ p \in exited => process[p] = "ended"
               /\ p \in killed => Lives(p)
               /\ Lives(p) => p \in killed
    <3>1. p = proc => ~Lives(p) \/ p \in killed
      BY <1>2 DEF ProcOK, Lives, Numbers
    <3>2. p # proc => ~Lives(p) \/ p \in killed
      BY DEF ProcOK, NoUnmanagedProcess
    <3>3. p > starts' => p > starts
      BY <1>2 DEF Numbers
    <3>4. QED
      BY <3>1, <3>2, <3>3 DEF ProcOK
  <2>3. ~(starts' > starts')
    BY <1>2
  <2>4. \A p \in Numbers : p # starts' => (Lives(p)' <=> Lives(p))
    BY <1>5 DEF Lives
  <2>5. NoUnmanagedProcess'
    BY <1>1, <1>3, <2>1, <2>2, <2>4 DEF NoUnmanagedProcess
  <2>6. QED
    BY <1>1, <1>3, <1>5, <2>1, <2>2, <2>3, <2>4, <2>5 DEF ProcOK
<1>11. FileOK'
  BY <1>3 DEF FileOK
<1>12. TicketOK'
  <2>1. ASSUME NEW s \in Senders
        PROVE  /\ ticket[s].dir <= dir' /\ ticket[s].proc <= proc'
               /\ ticket[s].dir # dir'
               /\ ticket[s] # NoTicket => /\ 1 <= ticket[s].id /\ 1 <= ticket[s].dir
                                          /\ 1 <= ticket[s].proc
    <3>1. /\ ticket[s].dir \in Nat /\ ticket[s].dir <= dir
          /\ ticket[s].proc \in Nat /\ ticket[s].proc <= proc
      BY DEF TypeOK, TicketOK
    <3>2. QED
      BY <1>2, <1>3, <3>1 DEF TicketOK
  <2>2. QED
    BY <1>1, <1>3, <2>1 DEF TicketOK
<1>13. GenOK'
  <2>1. \A d \in Calls : Reached(d)' <=> Reached(d)
    BY <1>1 DEF Reached
  <2>2. \A d \in Calls : Reached(d) => generation[d] < deadGeneration /\ ticket[d].proc < proc'
    <3>1. ASSUME NEW d \in Calls, Reached(d)
          PROVE  ticket[d].proc < proc'
      <4>1. ticket[d].proc \in Nat /\ ticket[d].proc <= proc
        BY DEF TypeOK, TicketOK, Senders
      <4>2. QED
        BY <1>2, <1>3, <4>1
    <3>2. QED
      BY <1>2, <3>1 DEF GenOK
  <2>3. AllNow'
    BY <1>3 DEF AllNow
  <2>4. \A d \in Calls : pc'[d] \in {"unissued", "queued", "waiting", "joined"} => ~Reached(d)
    BY DEF GenOK
  <2>5. GenerationsTellProcessesApart'
    BY <1>1, <2>1 DEF GenOK, GenerationsTellProcessesApart
  <2>6. QED
    BY <1>1, <1>3, <2>1, <2>2, <2>3, <2>4, <2>5 DEF GenOK
<1>14. FailOK'
  <2>1. \A d \in Calls : pc'[d] # "done" => result'[d] = Nothing
    BY DEF FailOK
  <2>2. ASSUME ~everReady, ~ShuttingDown, NEW n \in 1..starts', n # starts'
        PROVE  \E d \in Calls : result[d].start = n
    <3>1. n \in 1..starts /\ ~(n = starts /\ attempt # "none") /\ n # 0
      BY <1>2, <2>2
    <3>2. QED
      BY <2>2, <3>1 DEF FailOK, FailuresReachSomeone, Nothing, Told
  <2>3. FailuresReachSomeone'
    BY <1>1, <1>3, <2>2 DEF FailuresReachSomeone, ShuttingDown
  <2>4. QED
    BY <1>1, <1>3, <2>1, <2>3 DEF FailOK
<1>15. NoticeOK'
  <2>1. RestartIsTold'
    BY <1>1 DEF NoticeOK, RestartIsTold, Reached
  <2>2. (\E d \in Calls : Reached(d)') => everReady'
    BY <1>1 DEF NoticeOK, Reached
  <2>3. QED
    BY <1>1, <1>3, <2>1, <2>2 DEF NoticeOK
<1>16. QED
  BY <1>6, <1>7, <1>8, <1>9, <1>10, <1>11, <1>12, <1>13, <1>14, <1>15

(***************************************************************************)
(* A new call takes its place in the queue.                                *)
(***************************************************************************)
LEMMA IssueKeeps ==
    ASSUME IInv, NEW c \in Calls, Issue(c)
    PROVE  IInv'
<1> USE DEF IInv
<1>1. /\ pc[c] = "unissued" /\ pc' = [pc EXCEPT ![c] = "queued"]
      /\ generation' = [generation EXCEPT ![c] = deadGeneration]
      /\ queue' = Append(queue, c)
      /\ UNCHANGED <<result, lifeVars, saidVars, startVars, shut, ticket, osVars, fileVars>>
  BY DEF Issue
<1>2. /\ QueueOK' /\ queue' \in Seq(Calls)
      /\ Len(queue) \in Nat /\ Len(queue') = Len(queue) + 1
      /\ queue'[Len(queue) + 1] = c
      /\ \A i \in 1..Len(queue) : /\ queue'[i] = queue[i] /\ queue[i] \in Calls
                                   /\ queue[i] # c
      /\ \A d \in Calls, place \in {"joined", "sending"} :
             HasTurn(d, place)' => HasTurn(d, place)
  BY <1>1, IssueFacts
<1>3. /\ pc'[c] = "queued" /\ generation'[c] = deadGeneration
      /\ \A d \in Calls : d # c => pc'[d] = pc[d] /\ generation'[d] = generation[d]
      /\ generation' \in [Calls -> Nat]
      /\ pc' \in [Calls -> {"unissued", "queued", "waiting", "joined", "sending", "done"}]
      /\ deadGeneration \in Nat
  BY <1>1 DEF TypeOK
<1>4. /\ result' = result /\ state' = state /\ deadGeneration' = deadGeneration
      /\ lastFailure' = lastFailure /\ stickyError' = stickyError
      /\ unobservedStartFailure' = unobservedStartFailure /\ everReady' = everReady
      /\ restartNoticePending' = restartNoticePending /\ attempt' = attempt
      /\ starts' = starts /\ proc' = proc /\ dir' = dir /\ nextId' = nextId
      /\ shut' = shut /\ ticket' = ticket /\ process' = process /\ exited' = exited
      /\ killed' = killed /\ dirs' = dirs /\ requests' = requests /\ responses' = responses
  BY <1>1 DEF lifeVars, saidVars, startVars, osVars, fileVars
<1>5. \A d \in Calls : Reached(d)' <=> Reached(d)
  BY <1>4 DEF Reached
<1>6. ~Reached(c)
  BY <1>1 DEF GenOK
<1>7. TypeOK'
  BY <1>2, <1>3, <1>4 DEF TypeOK
<1>8. PhaseOK'
  BY <1>4 DEF PhaseOK, ShuttingDown
<1>9. TurnOK'
  <2>1. ASSUME NEW d \in Calls
        PROVE  /\ HasTurn(d, "joined")' => HasTurn(d, "joined")
               /\ HasTurn(d, "sending")' => HasTurn(d, "sending")
    BY <1>2
  <2>2. QED
    BY <1>4, <1>5, <2>1 DEF TurnOK, ShuttingDown
<1>10. CountOK'
  <2>1. /\ Cardinality(Served) \in Nat /\ Cardinality(Served') \in Nat
        /\ Cardinality(Served) <= Cardinality(Served')
    BY <1>1, <1>3, ServedGrows
  <2>2. QED
    BY <1>4, <2>1 DEF CountOK, TypeOK, Numbers
<1>11. ProcOK'
  BY <1>4 DEF ProcOK, Lives, NoUnmanagedProcess
<1>12. FileOK'
  BY <1>4 DEF FileOK
<1>13. TicketOK'
  BY <1>4 DEF TicketOK
<1>14. GenOK'
  <2>1. \A d \in Calls : generation'[d] <= deadGeneration
    BY <1>3 DEF GenOK
  <2>2. \A i \in 1..Len(queue') : i \in 1..Len(queue) \/ i = Len(queue) + 1
    BY <1>2
  <2>3. \A i \in 1..Len(queue) : generation'[queue'[i]] = generation[queue[i]]
    BY <1>2, <1>3
  <2>4. ASSUME NEW i \in 1..Len(queue'), NEW j \in 1..Len(queue'), i <= j
        PROVE  generation'[queue'[i]] <= generation'[queue'[j]]
    <3>1. CASE j \in 1..Len(queue)
      <4>1. i \in 1..Len(queue)
        BY <2>4, <3>1
      <4>2. QED
        BY <2>3, <2>4, <3>1, <4>1 DEF GenOK
    <3>2. CASE j = Len(queue) + 1
      BY <1>2, <1>3, <2>1, <3>2 DEF TypeOK
    <3>3. QED
      BY <2>2, <3>1, <3>2
  <2>5. AllNow => AllNow'
    BY <1>2, <1>3, <1>4, <2>2, <2>3 DEF AllNow
  <2>6. \A d \in Calls : pc'[d] \in {"unissued", "queued", "waiting", "joined"} => ~Reached(d)
    BY <1>3, <1>6 DEF GenOK
  <2>7. \A d \in Calls : Reached(d) => generation'[d] = generation[d]
    BY <1>3, <1>6
  <2>8. GenerationsTellProcessesApart'
    BY <1>4, <1>5, <2>7 DEF GenOK, GenerationsTellProcessesApart
  <2>9. QED
    BY <1>4, <1>5, <2>1, <2>4, <2>5, <2>6, <2>7, <2>8 DEF GenOK
<1>15. FailOK'
  <2>1. \A d \in Calls : pc'[d] # "done" => result'[d] = Nothing
    BY <1>1, <1>3, <1>4 DEF FailOK
  <2>2. QED
    BY <1>4, <2>1 DEF FailOK, FailuresReachSomeone, ShuttingDown
<1>16. NoticeOK'
  <2>1. \A d \in Calls : HasTurn(d, "sending")' => HasTurn(d, "sending")
    BY <1>2
  <2>2. RestartIsTold'
    BY <1>4, <1>5 DEF NoticeOK, RestartIsTold
  <2>3. QED
    BY <1>4, <1>5, <2>1, <2>2 DEF NoticeOK
<1>17. QED
  BY <1>2, <1>7, <1>8, <1>9, <1>10, <1>11, <1>12, <1>13, <1>14, <1>15, <1>16

(***************************************************************************)
(* The call whose turn has come waits for the attempt under way.           *)
(***************************************************************************)
LEMMA JoinKeeps ==
    ASSUME IInv, NEW c \in Calls, Join(c)
    PROVE  IInv'
<1> USE DEF IInv
<1>1. /\ HasTurn(c, "queued") /\ pc' = [pc EXCEPT ![c] = "waiting"] /\ queue' = queue
      /\ "waiting" \in Pending
      /\ UNCHANGED <<queue, result, generation, lifeVars, saidVars, startVars, shut,
                     ticket, osVars, fileVars>>
  BY DEF Join, Admitted, Pending
<1>2. /\ QueueOK' /\ pc'[c] = "waiting" /\ \A d \in Calls : d # c => pc'[d] = pc[d]
      /\ \A d \in Calls : ~HasTurn(d, "joined")' /\ ~HasTurn(d, "sending")'
  BY <1>1, MoveFacts DEF Pending
<1>3. /\ result' = result /\ state' = state /\ deadGeneration' = deadGeneration
      /\ lastFailure' = lastFailure /\ stickyError' = stickyError
      /\ unobservedStartFailure' = unobservedStartFailure /\ everReady' = everReady
      /\ restartNoticePending' = restartNoticePending /\ attempt' = attempt
      /\ starts' = starts /\ proc' = proc /\ dir' = dir /\ nextId' = nextId
      /\ shut' = shut /\ ticket' = ticket /\ process' = process /\ exited' = exited
      /\ killed' = killed /\ dirs' = dirs /\ requests' = requests /\ responses' = responses
      /\ queue' = queue /\ generation' = generation
  BY <1>1 DEF lifeVars, saidVars, startVars, osVars, fileVars
<1>4. pc[c] = "queued"
  BY <1>1 DEF HasTurn
<1>5. \A d \in Calls : Reached(d)' <=> Reached(d)
  BY <1>3 DEF Reached
<1>6. TypeOK'
  BY <1>1, <1>3 DEF TypeOK
<1>7. PhaseOK' /\ ProcOK' /\ FileOK' /\ TicketOK' /\ TurnOK'
  BY <1>2, <1>3 DEF PhaseOK, ShuttingDown, ProcOK, Lives, NoUnmanagedProcess, FileOK,
                    TicketOK, TurnOK
<1>8. CountOK'
  <2>1. /\ Cardinality(Served) \in Nat /\ Cardinality(Served') \in Nat
        /\ Cardinality(Served) <= Cardinality(Served')
    BY <1>2, ServedGrows
  <2>2. QED
    BY <1>3, <2>1 DEF CountOK, TypeOK, Numbers
<1>9. GenOK'
  <2>1. \A d \in Calls : pc'[d] \in {"unissued", "queued", "waiting", "joined"} => ~Reached(d)
    BY <1>2, <1>4 DEF GenOK
  <2>2. QED
    BY <1>3, <1>5, <2>1 DEF GenOK, AllNow, GenerationsTellProcessesApart
<1>10. FailOK'
  BY <1>2, <1>3, <1>4 DEF FailOK, FailuresReachSomeone, ShuttingDown
<1>11. NoticeOK'
  BY <1>2, <1>3, <1>5 DEF NoticeOK, RestartIsTold
<1>12. QED
  BY <1>2, <1>6, <1>7, <1>8, <1>9, <1>10, <1>11

(***************************************************************************)
(* It begins an attempt: the session died in no later generation than that *)
(* of the calls in the queue.                                              *)
(***************************************************************************)
LEMMA AdmittedNow ==
    ASSUME IInv, NEW c \in Calls, Admitted(c), MustStart
    PROVE  /\ AllNow /\ state \in {"idle", "dead"} /\ attempt = "none"
           /\ starts \in Nat /\ (state = "idle" => proc = 0)
<1> USE DEF IInv
<1>1. /\ Len(queue) \in Nat /\ 1 \in 1..Len(queue) /\ queue[1] = c
      /\ \A i \in 1..Len(queue) : queue[i] \in Calls
  BY TurnFacts DEF Admitted
<1>2. state \in {"idle", "dead"} /\ attempt = "none"
  BY DEF MustStart, Admitted, Open, PhaseOK, TypeOK
<1>3. /\ deadGeneration \in Nat /\ starts \in Nat /\ deadGeneration <= starts /\ proc \in Nat
      /\ \A i \in 1..Len(queue) : generation[queue[i]] \in Nat
  BY <1>1 DEF TypeOK, Numbers
<1>4. generation[c] >= deadGeneration
  BY <1>1, <1>2, <1>3 DEF Admitted, Stale, PhaseOK
<1>5. \A i \in 1..Len(queue) : generation[c] <= generation[queue[i]]
  BY <1>1 DEF GenOK
<1>6. \A i \in 1..Len(queue) : generation[queue[i]] <= deadGeneration
  BY <1>1 DEF GenOK
<1>7. \A i \in 1..Len(queue) : generation[queue[i]] = deadGeneration
  BY <1>1, <1>3, <1>4, <1>5, <1>6
<1>8. QED
  BY <1>2, <1>3, <1>7 DEF AllNow, PhaseOK

(***************************************************************************)
(* Why an attempt may not get as far as a process.                         *)
(***************************************************************************)
LEMMA ReasonFacts ==
    ASSUME NEW n \in Nat, NEW failure \in NotLaunchedReasons(n)
    PROVE  /\ failure[1] \in Messages /\ failure[1].kind # "noimage"
           /\ failure[1].start = n /\ failure[2] \in BOOLEAN
<1>1. \A k \in {"start", "sticky"} :
        /\ Failed(k, n) \in Messages /\ Failed(k, n).kind = k
        /\ Failed(k, n).start = n
  BY DEF Failed, Messages, Kinds
<1>2. PICK k \in {"start", "sticky"}, prepared \in BOOLEAN : failure = <<Failed(k, n), prepared>>
  BY DEF NotLaunchedReasons
<1>3. failure[1] = Failed(k, n) /\ failure[2] = prepared
  BY <1>2
<1>4. QED
  BY <1>1, <1>3

(***************************************************************************)
(* The three ways in which an attempt begins.                              *)
(***************************************************************************)
LEMMA StartKeeps ==
    ASSUME IInv, NEW c \in Calls, Start(c)
    PROVE  IInv'
<1> USE DEF IInv
<1>1. /\ HasTurn(c, "queued") /\ Open /\ MustStart /\ unobservedStartFailure = Nothing
      /\ starts' = starts + 1
      /\ UNCHANGED <<saidVars, shut, ticket, exited>>
      /\ "waiting" \in Pending
  BY DEF Start, Admitted, Pending
<1>2. /\ AllNow /\ state \in {"idle", "dead"} /\ attempt = "none"
      /\ starts \in Nat /\ (state = "idle" => proc = 0)
  BY AdmittedNow DEF Start
<1>3. pc[c] = "queued"
  BY <1>1 DEF HasTurn
<1>4. ASSUME pc'[c] \notin {"unissued", "queued"}, \A d \in Calls : d # c => pc'[d] = pc[d]
      PROVE  starts' \in Numbers /\ starts' <= Cardinality(Served')
  <2>1. /\ Cardinality(Served) \in Nat /\ Cardinality(Calls) \in Nat
        /\ Cardinality(Served') = Cardinality(Served) + 1
        /\ Cardinality(Served') <= Cardinality(Calls)
    BY <1>3, <1>4, ServedCounts
  <2>2. QED
    BY <1>1, <1>2, <2>1 DEF CountOK, Numbers
<1>5. ASSUME pc' = [pc EXCEPT ![c] = "waiting"], queue' = queue
      PROVE  /\ QueueOK' /\ pc'[c] = "waiting" /\ \A d \in Calls : d # c => pc'[d] = pc[d]
             /\ \A d \in Calls : ~HasTurn(d, "joined")' /\ ~HasTurn(d, "sending")'
             /\ pc' \in [Calls -> {"unissued", "queued", "waiting", "joined", "sending", "done"}]
             /\ starts' \in Numbers /\ starts' <= Cardinality(Served')
  <2>1. /\ QueueOK' /\ pc'[c] = "waiting" /\ \A d \in Calls : d # c => pc'[d] = pc[d]
        /\ \A d \in Calls : ~HasTurn(d, "joined")' /\ ~HasTurn(d, "sending")'
    BY <1>1, <1>5, MoveFacts DEF Pending
  <2>2. pc' \in [Calls -> {"unissued", "queued", "waiting", "joined", "sending", "done"}]
    BY <1>5 DEF TypeOK
  <2>3. QED
    BY <1>4, <2>1, <2>2
<1>6. CASE /\ proc # 0 /\ proc \notin exited
           /\ Kill(proc)
           /\ attempt' = "killing"
           /\ pc' = [pc EXCEPT ![c] = "waiting"]
           /\ UNCHANGED <<queue, result, generation, lifeVars, proc, dir, nextId, process,
                          fileVars>>
  <2>1. /\ result' = result /\ state' = state /\ deadGeneration' = deadGeneration
        /\ lastFailure' = lastFailure /\ stickyError' = stickyError
        /\ unobservedStartFailure' = unobservedStartFailure /\ everReady' = everReady
        /\ restartNoticePending' = restartNoticePending /\ attempt' = "killing"
        /\ proc' = proc /\ dir' = dir /\ nextId' = nextId
        /\ shut' = shut /\ ticket' = ticket /\ process' = process /\ exited' = exited
        /\ dirs' = dirs /\ requests' = requests /\ responses' = responses
        /\ queue' = queue /\ generation' = generation
    BY <1>1, <1>6 DEF lifeVars, saidVars, fileVars
  <2>2. /\ QueueOK' /\ pc'[c] = "waiting" /\ \A d \in Calls : d # c => pc'[d] = pc[d]
        /\ \A d \in Calls : ~HasTurn(d, "joined")' /\ ~HasTurn(d, "sending")'
        /\ pc' \in [Calls -> {"unissued", "queued", "waiting", "joined", "sending", "done"}]
        /\ starts' \in Numbers /\ starts' <= Cardinality(Served')
    BY <1>5, <1>6
  <2>3. /\ proc \in Numbers /\ proc <= starts /\ dir <= starts /\ dir \in Nat /\ proc \in Nat
        /\ state = "dead" /\ deadGeneration \in Nat /\ deadGeneration <= starts
    BY <1>2, <1>6 DEF TypeOK, PhaseOK, Numbers
  <2>4. /\ killed \subseteq killed'
        /\ \A p \in killed' : p \in killed \/ (p = proc /\ Lives(p))
        /\ Lives(proc) => proc \in killed'
    BY <1>6 DEF Kill
  <2>5. \A d \in Calls : Reached(d)' <=> Reached(d)
    BY <2>1 DEF Reached
  <2>6. TypeOK'
    <3>1. killed' \subseteq Numbers
      BY <2>3, <2>4 DEF TypeOK
    <3>2. deadGeneration' \in 0..starts'
      BY <1>1, <1>2, <2>1, <2>3
    <3>3. QED
      BY <2>1, <2>2, <3>1, <3>2 DEF TypeOK
  <2>7. PhaseOK'
    BY <1>1, <1>2, <1>6, <2>1, <2>3 DEF PhaseOK, ShuttingDown
  <2>8. TurnOK'
    BY <2>2 DEF TurnOK
  <2>9. CountOK'
    BY <1>1, <1>2, <2>1, <2>2, <2>3 DEF CountOK
  <2>10. ProcOK'
    <3>1. ASSUME NEW p \in Numbers
          PROVE  /\ p > starts' \/ p = starts' => process[p] = "none"
                 /\ p = proc /\ Lives(p) => p \in killed'
      <4>1. p > starts' \/ p = starts' => p > starts
        BY <1>1, <1>2 DEF Numbers
      <4>2. QED
        BY <2>4, <4>1 DEF ProcOK, Lives
    <3>2. ASSUME NEW p \in Numbers
          PROVE  /\ p \in exited => process[p] = "ended"
                 /\ p \in killed' => Lives(p)
      BY <2>4 DEF ProcOK
    <3>3. NoUnmanagedProcess'
      BY <2>1, <2>4 DEF ProcOK, NoUnmanagedProcess, Lives
    <3>4. QED
      BY <2>1, <3>1, <3>2, <3>3 DEF ProcOK, Lives
  <2>11. FileOK' /\ TicketOK'
    BY <2>1 DEF FileOK, TicketOK
  <2>12. GenOK'
    <3>1. \A d \in Calls : pc'[d] \in {"unissued", "queued", "waiting", "joined"} => ~Reached(d)
      BY <1>3, <2>2 DEF GenOK
    <3>2. AllNow'
      BY <1>2, <2>1 DEF AllNow
    <3>3. QED
      BY <2>1, <2>5, <3>1, <3>2 DEF GenOK, GenerationsTellProcessesApart
  <2>13. FailOK'
    <3>1. \A d \in Calls : pc'[d] # "done" => result'[d] = Nothing
      BY <1>3, <2>1, <2>2 DEF FailOK
    <3>2. ASSUME ~everReady, ~ShuttingDown, NEW n \in 1..starts', n # starts'
          PROVE  \E d \in Calls : result[d].start = n
      <4>1. n \in 1..starts /\ n # 0
        BY <1>1, <1>2, <3>2
      <4>2. QED
        BY <1>1, <1>2, <3>2, <4>1 DEF FailOK, FailuresReachSomeone, Nothing, Told
    <3>3. FailuresReachSomeone'
      BY <2>1, <3>2 DEF FailuresReachSomeone, ShuttingDown
    <3>4. QED
      BY <1>1, <2>1, <3>1, <3>3 DEF FailOK
  <2>14. NoticeOK'
    BY <2>1, <2>2, <2>3, <2>5 DEF NoticeOK, RestartIsTold
  <2>15. QED
    BY <2>2, <2>6, <2>7, <2>8, <2>9, <2>10, <2>11, <2>12, <2>13, <2>14
<1>7. CASE /\ proc = 0 \/ proc \in exited
           /\ Launched(starts')
           /\ pc' = [pc EXCEPT ![c] = "waiting"]
           /\ UNCHANGED <<queue, result, generation, killed>>
  <2>1. /\ QueueOK' /\ pc'[c] = "waiting" /\ \A d \in Calls : d # c => pc'[d] = pc[d]
        /\ \A d \in Calls : ~HasTurn(d, "joined")' /\ ~HasTurn(d, "sending")'
        /\ pc' \in [Calls -> {"unissued", "queued", "waiting", "joined", "sending", "done"}]
        /\ starts' \in Numbers /\ starts' <= Cardinality(Served')
    BY <1>5, <1>7
  <2>2. \A d \in Calls : pc'[d] = pc[d] \/ (pc[d] = "queued" /\ pc'[d] = "waiting")
    BY <1>3, <2>1
  <2>3. UNCHANGED <<saidVars, killed, exited, shut, ticket>>
    BY <1>1, <1>7
  <2>4. queue' = queue /\ generation' = generation /\ result' = result
    BY <1>7
  <2>5. QED
    BY <1>1, <1>2, <1>7, <2>1, <2>2, <2>3, <2>4, LaunchKeeps
<1>8. CASE /\ proc = 0 \/ proc \in exited
           /\ \E failure \in NotLaunchedReasons(starts') :
                /\ NotLaunched(starts', failure[1], failure[2])
                /\ Return(c, failure[1])
           /\ UNCHANGED <<attempt, proc, process, killed>>
  <2>1. PICK failure \in NotLaunchedReasons(starts') :
             NotLaunched(starts', failure[1], failure[2]) /\ Return(c, failure[1])
    BY <1>8
  <2>2. starts' \in Nat
    BY <1>1, <1>2
  <2>3. /\ failure[1] \in Messages /\ failure[1].kind # "noimage"
        /\ failure[1].start = starts' /\ failure[2] \in BOOLEAN
    BY <2>1, <2>2, ReasonFacts
  <2>4. unobservedStartFailure' = unobservedStartFailure /\ everReady' = everReady
        /\ restartNoticePending' = restartNoticePending
    BY <1>1 DEF saidVars
  <2>5. Settles(failure[1])
    BY <1>1, <2>1, <2>3, <2>4, ReturnSettles
  <2>6. starts' \in Numbers /\ starts' <= Cardinality(Served')
    <3>1. pc'[c] = "done" /\ \A d \in Calls : d # c => pc'[d] = pc[d]
      BY <2>1 DEF Return, TypeOK
    <3>2. QED
      BY <1>4, <3>1
  <2>7. attempt' = "none" /\ UNCHANGED <<proc, everReady, restartNoticePending, process, killed,
                                         exited, shut, ticket>>
    BY <1>1, <1>2, <1>8, <2>4
  <2>8. QED
    BY <1>1, <1>2, <2>1, <2>3, <2>5, <2>6, <2>7, NotLaunchedKeeps
<1>9. QED
  BY <1>6, <1>7, <1>8 DEF Start

-----------------------------------------------------------------------------
(* A request is sent *)

(***************************************************************************)
(* Its id is a new one in the directory.                                   *)
(***************************************************************************)
LEMMA RequestKeeps ==
    ASSUME IInv, NEW s \in Senders, WriteRequest(s), proc \in Numbers, dir = proc,
           proc' = proc, dir' = dir, responses' = responses
    PROVE  /\ TicketOK'
           /\ ticket' \in [Senders -> [proc : Nat, dir : Nat, id : Nat]]
           /\ ticket'[s].proc = proc /\ ticket'[s] # NoTicket
           /\ \A t \in Senders : t # s => ticket'[t] = ticket[t]
           /\ nextId' \in Nat /\ 1 <= nextId' /\ nextId < nextId' /\ nextId \in Nat
           /\ requests' \subseteq [dir : Numbers, id : Nat, by : Senders]
           /\ \A r \in requests' : r.dir = dir /\ r.id < nextId' /\ 1 <= r.id
           /\ \A r \in responses : r.id < nextId'
<1> USE DEF IInv
<1>1. /\ nextId \in Nat /\ 1 <= nextId /\ proc \in Nat /\ dir \in Nat /\ 1 <= proc
      /\ nextId' = nextId + 1
  BY DEF TypeOK, FileOK, Numbers, WriteRequest
<1>2. /\ ticket'[s] = [proc |-> proc, dir |-> dir, id |-> nextId]
      /\ \A t \in Senders : t # s => ticket'[t] = ticket[t]
      /\ ticket' \in [Senders -> [proc : Nat, dir : Nat, id : Nat]]
  BY <1>1 DEF WriteRequest, TypeOK
<1>3. ticket'[s] # NoTicket
  <2>1. ticket'[s].proc = proc /\ NoTicket.proc = 0
    BY <1>2 DEF NoTicket
  <2>2. QED
    BY <1>1, <2>1
<1>4. requests' = requests \cup {[dir |-> dir, id |-> nextId, by |-> s]}
  BY DEF WriteRequest
<1>5. requests' \subseteq [dir : Numbers, id : Nat, by : Senders]
  BY <1>1, <1>4 DEF TypeOK
<1>6. ASSUME NEW r \in requests'
      PROVE  /\ r.dir = dir /\ r.id < nextId' /\ 1 <= r.id
             /\ r \in requests \/ (r.id = nextId /\ r.by = s)
             /\ r \in requests => r.id < nextId
  <2>1. CASE r \in requests
    <3>1. r.id \in Nat /\ r.dir = dir /\ r.id < nextId /\ 1 <= r.id
      BY <2>1 DEF TypeOK, FileOK
    <3>2. QED
      BY <1>1, <2>1, <3>1
  <2>2. CASE r = [dir |-> dir, id |-> nextId, by |-> s]
    <3>1. r.dir = dir /\ r.id = nextId /\ r.by = s
      BY <2>2
    <3>2. r \in requests => r.id < nextId
      BY DEF FileOK
    <3>3. QED
      BY <1>1, <3>1, <3>2
  <2>3. QED
    BY <1>4, <1>6, <2>1, <2>2
<1>7. \A r \in responses : r.id < nextId' /\ r.id < nextId /\ r.dir = dir /\ r.id \in Nat
  BY <1>1 DEF FileOK, TypeOK
<1>8. ASSUME NEW t \in Senders
      PROVE  /\ ticket'[t].dir <= dir /\ ticket'[t].proc <= proc
             /\ ticket'[t].dir = dir => ticket'[t].id < nextId'
             /\ ticket'[t] # NoTicket => /\ 1 <= ticket'[t].id /\ 1 <= ticket'[t].dir
                                         /\ 1 <= ticket'[t].proc
  <2>1. CASE t = s
    BY <1>1, <1>2, <2>1
  <2>2. CASE t # s
    <3>1. ticket[t].id \in Nat
      BY DEF TypeOK
    <3>2. QED
      BY <1>1, <1>2, <2>2, <3>1 DEF TicketOK
  <2>3. QED
    BY <2>1, <2>2
<1>9. ASSUME NEW t \in Senders, NEW r \in requests', r.dir = ticket'[t].dir, r.id = ticket'[t].id
      PROVE  r.by = t
  <2>1. CASE t = s
    <3>1. r.id = nextId
      BY <1>2, <1>9, <2>1
    <3>2. QED
      BY <1>1, <1>6, <2>1, <3>1
  <2>2. CASE t # s
    <3>1. ticket'[t] = ticket[t] /\ ticket[t].dir = dir /\ r.id < nextId
      BY <1>2, <1>6, <1>9, <2>2 DEF TicketOK
    <3>2. r \in requests
      BY <1>1, <1>6, <3>1
    <3>3. QED
      BY <1>9, <3>1, <3>2 DEF TicketOK
  <2>3. QED
    BY <2>1, <2>2
<1>10. ASSUME NEW t \in Senders, NEW r \in responses, r.dir = ticket'[t].dir,
              r.id = ticket'[t].id
       PROVE  r.by = t
  <2>1. t # s
    BY <1>1, <1>2, <1>7, <1>10
  <2>2. QED
    BY <1>2, <1>10, <2>1 DEF TicketOK
<1>11. TicketOK'
  BY <1>8, <1>9, <1>10 DEF TicketOK
<1>12. QED
  BY <1>1, <1>2, <1>3, <1>5, <1>6, <1>7, <1>11

(***************************************************************************)
(* The request of a call.  When the process has just exited, the call      *)
(* finds out at once, and the session has died.                            *)
(***************************************************************************)
LEMMA SendKeeps ==
    ASSUME IInv, NEW c \in Calls, Send(c)
    PROVE  IInv'
<1> USE DEF IInv
<1>1. PICK from \in {"joined", "queued"} : HasTurn(c, from)
  BY DEF Send, Admitted
<1>2. /\ Len(queue) \in Nat /\ 1 <= Len(queue) /\ 1 \in 1..Len(queue) /\ queue[1] = c
      /\ pc[c] = from /\ from \in Pending /\ "sending" \in Pending /\ c \in Senders
  BY <1>1, TurnFacts DEF Pending, Senders
<1>3. state = "ready" /\ ~ShuttingDown
  BY DEF Send, Admitted, TurnOK, Open
<1>4. /\ attempt = "none" /\ proc = starts /\ dir = proc /\ proc \in Numbers /\ shut = "no"
      /\ everReady
  BY <1>3 DEF PhaseOK, TypeOK, NoticeOK, ShuttingDown
<1>5. generation[c] = deadGeneration /\ ~Reached(c) /\ result[c] = Nothing
  BY <1>1, <1>2, <1>3 DEF GenOK, AllNow, FailOK
<1>6. /\ WriteRequest(c)
      /\ stickyError' = stickyError /\ unobservedStartFailure' = unobservedStartFailure
      /\ everReady' = everReady /\ restartNoticePending' = restartNoticePending
      /\ attempt' = attempt /\ starts' = starts /\ proc' = proc /\ dir' = dir
      /\ shut' = shut /\ process' = process /\ exited' = exited
      /\ killed' = killed /\ dirs' = dirs /\ responses' = responses
  BY DEF Send, saidVars, osVars
<1>7. /\ TicketOK'
      /\ ticket' \in [Senders -> [proc : Nat, dir : Nat, id : Nat]]
      /\ ticket'[c].proc = proc /\ ticket'[c] # NoTicket
      /\ \A t \in Senders : t # c => ticket'[t] = ticket[t]
      /\ nextId' \in Nat /\ 1 <= nextId' /\ nextId < nextId' /\ nextId \in Nat
      /\ requests' \subseteq [dir : Numbers, id : Nat, by : Senders]
      /\ \A r \in requests' : r.dir = dir /\ r.id < nextId' /\ 1 <= r.id
      /\ \A r \in responses : r.id < nextId'
  BY <1>2, <1>4, <1>6, RequestKeeps
<1>8. \A d \in Calls : d # c => (Reached(d)' <=> Reached(d)) /\ ticket'[d] = ticket[d]
  BY <1>7 DEF Reached, Senders
<1>9. \A d \in Calls : /\ ticket[d].proc \in Nat /\ ticket[d].proc <= proc
                       /\ generation[d] \in Nat /\ generation[d] <= deadGeneration
  BY DEF TypeOK, TicketOK, GenOK, Senders
<1>10. /\ deadGeneration \in Nat /\ deadGeneration < starts /\ starts \in Nat /\ proc \in Nat
       /\ starts # 0 /\ Told("restarted") \in Messages /\ Told("restarted").kind = "restarted"
       /\ Told("restarted").start = 0
  BY <1>3, <1>4 DEF TypeOK, Numbers, CountOK, PhaseOK, Told, Messages, Kinds
<1>11. \/ /\ state' = "dead" /\ deadGeneration' = deadGeneration + 1
          /\ lastFailure' = Told("restarted") /\ Return(c, Told("restarted"))
       \/ /\ pc' = [pc EXCEPT ![c] = "sending"]
          /\ queue' = queue /\ result' = result /\ generation' = generation
          /\ state' = state /\ deadGeneration' = deadGeneration /\ lastFailure' = lastFailure
  BY <1>3 DEF Send, MarkDead
<1>12. /\ QueueOK' /\ queue' \in Seq(Calls)
       /\ pc' \in [Calls -> {"unissued", "queued", "waiting", "joined", "sending", "done"}]
       /\ result' \in [Calls -> Messages] /\ generation' = generation
       /\ pc'[c] \in {"sending", "done"}
       /\ \A d \in Calls : d # c => pc'[d] = pc[d] /\ result'[d] = result[d]
       /\ result'[c] \in {Nothing, Told("restarted")}
       /\ pc'[c] # "done" => result'[c] = Nothing
       /\ \A d \in Calls : ~HasTurn(d, "joined")'
       /\ \A d \in Calls : HasTurn(d, "sending")' => d = c /\ state' = "ready"
  <2>1. CASE Return(c, Told("restarted"))
    <3>1. /\ QueueOK' /\ queue' \in Seq(Calls)
          /\ pc' \in [Calls -> {"unissued", "queued", "waiting", "joined", "sending", "done"}]
          /\ result' \in [Calls -> Messages] /\ generation' = generation
          /\ pc'[c] = "done" /\ result'[c] = Told("restarted")
          /\ \A d \in Calls : d # c => pc'[d] = pc[d] /\ result'[d] = result[d]
          /\ \A d \in Calls : \A place : HasTurn(d, place)' => place = "queued"
      BY <1>1, <1>10, <2>1, ReturnFacts
    <3>2. QED
      BY <3>1
  <2>2. CASE /\ pc' = [pc EXCEPT ![c] = "sending"]
             /\ queue' = queue /\ result' = result /\ generation' = generation
             /\ state' = state
    <3>1. /\ QueueOK' /\ pc'[c] = "sending" /\ \A d \in Calls : d # c => pc'[d] = pc[d]
          /\ \A d \in Calls, place \in Pending : HasTurn(d, place)' => d = c /\ place = "sending"
      BY <1>1, <1>2, <2>2, MoveFacts
    <3>2. pc' \in [Calls -> {"unissued", "queued", "waiting", "joined", "sending", "done"}]
      BY <2>2 DEF TypeOK
    <3>3. QED
      BY <1>3, <1>5, <2>2, <3>1, <3>2 DEF Pending, TypeOK
  <2>3. QED
    BY <1>11, <2>1, <2>2
<1>13. /\ lastFailure' \in Messages /\ lastFailure'.kind # "noimage"
       /\ \/ state' = "ready" /\ deadGeneration' = deadGeneration
          \/ state' = "dead" /\ deadGeneration' = deadGeneration + 1
  BY <1>3, <1>10, <1>11 DEF TypeOK, NoticeOK
<1>14. TypeOK'
  <2>1. deadGeneration' \in 0..starts'
    BY <1>6, <1>10, <1>13
  <2>2. generation' \in [Calls -> Nat]
    BY <1>12 DEF TypeOK
  <2>3. QED
    BY <1>6, <1>7, <1>12, <1>13, <2>1, <2>2 DEF TypeOK
<1>15. PhaseOK'
  BY <1>4, <1>6, <1>10, <1>13 DEF PhaseOK, ShuttingDown
<1>16. TurnOK'
  <2>1. Reached(c)'
    BY <1>7 DEF Reached
  <2>2. QED
    BY <1>4, <1>6, <1>7, <1>12, <2>1 DEF TurnOK
<1>17. CountOK'
  <2>1. /\ Cardinality(Served) \in Nat /\ Cardinality(Served') \in Nat
        /\ Cardinality(Served) <= Cardinality(Served')
    BY <1>12, ServedGrows
  <2>2. QED
    BY <1>4, <1>6, <1>10, <1>13, <2>1 DEF CountOK
<1>18. ProcOK'
  BY <1>6 DEF ProcOK, Lives, NoUnmanagedProcess
<1>19. FileOK'
  BY <1>4, <1>6, <1>7 DEF FileOK
<1>20. GenOK'
  <2>1. \A d \in Calls : generation'[d] <= deadGeneration'
    BY <1>9, <1>10, <1>12, <1>13
  <2>2. /\ \A i, j \in 1..Len(queue') : i <= j => generation'[queue'[i]] <= generation'[queue'[j]]
        /\ state' = "ready" => AllNow'
    <3>1. CASE Return(c, Told("restarted")) /\ state' = "dead"
      <4>1. /\ Len(queue') \in Nat
            /\ \A i \in 1..Len(queue') : i + 1 \in 1..Len(queue) /\ queue'[i] = queue[i + 1]
        BY <1>1, <1>2, <1>10, <3>1, ReturnFacts
      <4>2. \A i \in 1..Len(queue') : generation[queue'[i]] = deadGeneration
        BY <1>3, <4>1 DEF GenOK, AllNow
      <4>3. QED
        BY <1>10, <1>12, <3>1, <4>2
    <3>2. CASE queue' = queue /\ deadGeneration' = deadGeneration
      BY <1>3, <1>12, <3>2 DEF GenOK, AllNow
    <3>3. QED
      BY <1>11, <3>1, <3>2
  <2>3. \A d \in Calls : pc'[d] \in {"unissued", "queued", "waiting", "joined"} => ~Reached(d)'
    BY <1>8, <1>12 DEF GenOK
  <2>4. ASSUME NEW d \in Calls, Reached(d)'
        PROVE  /\ state' \in {"idle", "dead", "starting"} => generation[d] < deadGeneration'
               /\ state' # "starting"
               /\ generation[d] = deadGeneration <=> ticket'[d].proc = proc
    <3>1. generation[d] = deadGeneration <=> ticket'[d].proc = proc
      BY <1>3, <1>5, <1>7, <1>8, <2>4 DEF GenOK
    <3>2. QED
      BY <1>9, <1>10, <1>13, <3>1
  <2>5. GenerationsTellProcessesApart'
    <3>1. ASSUME NEW x \in Calls, NEW y \in Calls, Reached(x)', Reached(y)'
          PROVE  generation[x] = generation[y] <=> ticket'[x].proc = ticket'[y].proc
      <4>1. CASE x = c \/ y = c
        BY <1>5, <1>7, <2>4, <3>1, <4>1
      <4>2. CASE x # c /\ y # c
        BY <1>8, <3>1, <4>2 DEF GenOK, GenerationsTellProcessesApart
      <4>3. QED
        BY <4>1, <4>2
    <3>2. QED
      BY <1>12, <3>1 DEF GenerationsTellProcessesApart
  <2>6. state' \in {"starting", "ready"} \/ attempt' = "killing" => AllNow'
    BY <1>4, <1>6, <1>13, <2>2
  <2>7. \A d \in Calls : Reached(d)' =>
          /\ state' \in {"idle", "dead", "starting"} => generation'[d] < deadGeneration'
          /\ state' = "starting" => ticket'[d].proc < proc'
          /\ state' = "ready" => (generation'[d] = deadGeneration' <=> ticket'[d].proc = proc')
    BY <1>6, <1>12, <1>13, <2>4
  <2>8. QED
    BY <2>1, <2>2, <2>3, <2>5, <2>6, <2>7 DEF GenOK
<1>21. FailOK'
  <2>1. \A d \in Calls : pc'[d] # "done" => result'[d] = Nothing
    BY <1>12 DEF FailOK
  <2>2. QED
    BY <1>4, <1>6, <2>1 DEF FailOK, FailuresReachSomeone
<1>22. NoticeOK'
  <2>1. /\ \A e \in Calls : ToldOfIt(e, result[e]) => /\ e # c /\ result'[e] = result[e]
                                                      /\ ticket'[e] = ticket[e]
        /\ result'[c].kind # "noimage"
    BY <1>5, <1>8, <1>10, <1>12 DEF ToldOfIt, Nothing, Told
  <2>2. ASSUME NEW d \in Calls, Reached(d)', ticket'[d].proc < proc, ~restartNoticePending
        PROVE  \E e \in Calls : ticket'[e].proc = proc /\ ToldOfIt(e, result'[e])
    <3>1. d # c /\ Reached(d) /\ ticket[d].proc < proc
      BY <1>7, <1>8, <1>10, <2>2
    <3>2. PICK e \in Calls : ticket[e].proc = proc /\ ToldOfIt(e, result[e])
      BY <1>3, <2>2, <3>1 DEF NoticeOK
    <3>3. QED
      BY <2>1, <3>2
  <2>3. ASSUME NEW x \in Calls, NEW d \in Calls, result'[x].kind = "noimage", Reached(d)',
               ticket'[d].proc < ticket'[x].proc
        PROVE  \E e \in Calls : ticket'[e].proc = ticket'[x].proc /\ ToldOfIt(e, result'[e])
    <3>1. x # c /\ ticket'[x] = ticket[x] /\ result'[x] = result[x]
      BY <1>8, <1>12, <2>1, <2>3
    <3>2. d # c
      BY <1>7, <1>9, <1>10, <2>3, <3>1
    <3>3. Reached(d) /\ ticket[d].proc < ticket[x].proc
      BY <1>8, <2>3, <3>1, <3>2
    <3>4. PICK e \in Calls : ticket[e].proc = ticket[x].proc /\ ToldOfIt(e, result[e])
      BY <2>3, <3>1, <3>3 DEF NoticeOK, RestartIsTold, ToldOfIt
    <3>5. QED
      BY <2>1, <3>1, <3>4
  <2>4. RestartIsTold'
    BY <2>3 DEF RestartIsTold, ToldOfIt
  <2>5. \A x \in {lastFailure', stickyError', unobservedStartFailure'} : x.kind # "noimage"
    BY <1>6, <1>13 DEF NoticeOK
  <2>6. QED
    BY <1>4, <1>6, <2>2, <2>4, <2>5 DEF NoticeOK
<1>23. QED
  BY <1>7, <1>12, <1>14, <1>15, <1>16, <1>17, <1>18, <1>19, <1>20, <1>21, <1>22

-----------------------------------------------------------------------------
(* The steps of an attempt *)

(***************************************************************************)
(* It fails, while or before the bridge is asked for its version.          *)
(***************************************************************************)
LEMMA FailsKeeps ==
    ASSUME IInv, attempt \in {"booting", "pinging"},
           NEW why \in Messages, why.kind # "noimage",
           NEW verdict \in Messages, verdict.kind # "noimage", verdict.start = starts,
           AttemptFails(why, verdict),
           UNCHANGED <<shut, ticket, process, exited, dirs, requests>>,
           responses' \subseteq responses
    PROVE  IInv'
<1>1. UNCHANGED <<dir, nextId, shut, ticket, process, exited, dirs, requests>>
  BY DEF AttemptFails
<1>2. CASE Open
  <2>1. MarkDead(why) /\ RememberSticky(verdict) /\ Kill(proc) /\ AttemptRejects(verdict)
    BY <1>2 DEF AttemptFails
  <2>2. QED
    BY <1>1, <2>1, AttemptEnds
<1>3. CASE ~Open
  <2>1. UNCHANGED lifeVars /\ killed' = killed /\ AttemptRejects(Told("closed"))
    BY <1>3 DEF AttemptFails
  <2>2. Told("closed") \in Messages /\ Told("closed").kind # "noimage"
    BY DEF Told, Messages, Kinds
  <2>3. QED
    BY <1>1, <1>3, <2>1, <2>2, AttemptEnds
<1>4. QED
  BY <1>2, <1>3

(***************************************************************************)
(* It ends because shutdown has begun.                                     *)
(***************************************************************************)
LEMMA ClosedKeeps ==
    ASSUME IInv, attempt # "none", ~Open, AttemptRejects(Told("closed")),
           UNCHANGED <<lifeVars, dir, nextId, shut, ticket, process, exited, dirs, requests>>,
           responses' \subseteq responses, killed' = killed \/ Kill(proc)
    PROVE  IInv'
<1>1. Told("closed") \in Messages /\ Told("closed").kind # "noimage"
  BY DEF Told, Messages, Kinds
<1>2. UNCHANGED <<dir, nextId, shut, ticket, process, exited, dirs, requests>>
      /\ UNCHANGED lifeVars
  OBVIOUS
<1>3. QED
  BY <1>1, <1>2, AttemptEnds

(***************************************************************************)
(* The messages it may fail with.                                          *)
(***************************************************************************)
LEMMA VerdictFacts ==
    ASSUME IInv
    PROVE  /\ \A k \in {"start", "sticky", "restarted", "timeout", "failed"} :
                  /\ Failed(k, starts) \in Messages /\ Failed(k, starts).kind # "noimage"
                  /\ Failed(k, starts).start = starts
           /\ Told("restarted") \in Messages /\ Told("restarted").kind # "noimage"
<1>1. starts \in Nat
  BY DEF IInv, TypeOK, Numbers
<1>2. QED
  BY <1>1 DEF Failed, Told, Messages, Kinds

(***************************************************************************)
(* The stale process is gone, or has been waited for long enough.          *)
(***************************************************************************)
LEMMA StaleGoneKeeps ==
    ASSUME IInv, StaleGone
    PROVE  IInv'
<1>1. attempt = "killing" /\ UNCHANGED <<shut, ticket, exited, killed>>
  BY DEF StaleGone
<1>2. CASE /\ ~Open
           /\ AttemptRejects(Told("closed"))
           /\ UNCHANGED <<lifeVars, dir, nextId, process, fileVars>>
  <2>1. /\ UNCHANGED <<lifeVars, dir, nextId, shut, ticket, process, exited, dirs, requests>>
        /\ responses' \subseteq responses /\ killed' = killed
    BY <1>1, <1>2 DEF fileVars
  <2>2. QED
    BY <1>1, <1>2, <2>1, ClosedKeeps
<1>3. /\ unobservedStartFailure = Nothing /\ starts \in Numbers /\ starts \in Nat
      /\ starts <= Cardinality(Served) /\ AllNow
      /\ \A d \in Calls : ~HasTurn(d, "joined") /\ ~HasTurn(d, "sending")
  BY <1>1 DEF IInv, FailOK, PhaseOK, TypeOK, CountOK, GenOK, TurnOK, Numbers
<1>4. CASE Open /\ Launched(starts) /\ UNCHANGED <<callVars, saidVars, starts>>
  <2>1. queue' = queue /\ generation' = generation /\ result' = result /\ pc' = pc
    BY <1>4 DEF callVars
  <2>2. /\ QueueOK' /\ Served' = Served
        /\ \A d \in Calls : ~HasTurn(d, "joined")' /\ ~HasTurn(d, "sending")'
        /\ pc' \in [Calls -> {"unissued", "queued", "waiting", "joined", "sending", "done"}]
    BY <1>3, <2>1 DEF IInv, QueueOK, Served, HasTurn, TypeOK
  <2>3. /\ starts' = starts /\ Launched(starts')
        /\ UNCHANGED <<saidVars, killed, exited, shut, ticket>>
        /\ starts' \in Numbers /\ starts' <= Cardinality(Served')
        /\ \A d \in Calls : pc'[d] = pc[d]
    BY <1>1, <1>3, <1>4, <2>1, <2>2
  <2>4. QED
    BY <1>1, <1>3, <1>4, <2>1, <2>2, <2>3, LaunchKeeps
<1>5. CASE /\ Open
           /\ \E failure \in NotLaunchedReasons(starts) :
                /\ NotLaunched(starts, failure[1], failure[2])
                /\ AttemptRejects(failure[1])
           /\ UNCHANGED process
  <2>1. PICK failure \in NotLaunchedReasons(starts) :
             NotLaunched(starts, failure[1], failure[2]) /\ AttemptRejects(failure[1])
    BY <1>5
  <2>2. /\ failure[1] \in Messages /\ failure[1].kind # "noimage"
        /\ failure[1].start = starts /\ failure[2] \in BOOLEAN
    BY <1>3, <2>1, ReasonFacts
  <2>3. /\ Settles(failure[1]) /\ attempt' = "none" /\ starts' = starts
        /\ UNCHANGED <<proc, everReady, restartNoticePending>>
    BY <1>1, <2>1, <2>2, RejectSettles
  <2>4. /\ Cardinality(Served) \in Nat /\ Cardinality(Served') \in Nat
        /\ Cardinality(Served) <= Cardinality(Served')
    BY <2>3, SettlesServed
  <2>5. starts' \in Numbers /\ starts' <= Cardinality(Served')
    BY <1>3, <2>3, <2>4
  <2>6. UNCHANGED <<proc, everReady, restartNoticePending, process, killed, exited,
                    shut, ticket>>
    BY <1>1, <1>5, <2>3
  <2>7. NotLaunched(starts', failure[1], failure[2]) /\ failure[1].start = starts'
    BY <2>1, <2>2, <2>3
  <2>8. QED
    BY <1>1, <1>3, <1>5, <2>2, <2>3, <2>5, <2>6, <2>7, NotLaunchedKeeps
<1>6. QED
  BY <1>2, <1>4, <1>5 DEF StaleGone

(***************************************************************************)
(* GIMP does not come up.                                                  *)
(***************************************************************************)
LEMMA BootFailsKeeps ==
    ASSUME IInv, BootFails
    PROVE  IInv'
<1>1. /\ attempt = "booting" /\ UNCHANGED <<shut, ticket, process, exited, fileVars>>
  BY DEF BootFails
<1>2. /\ UNCHANGED <<shut, ticket, process, exited, dirs, requests>>
      /\ responses' \subseteq responses
  BY <1>1 DEF fileVars
<1>3. CASE state = "dead" /\ AttemptFails(lastFailure, lastFailure)
  <2>1. /\ lastFailure \in Messages /\ lastFailure.kind # "noimage"
        /\ lastFailure.start = starts
    BY <1>1, <1>3 DEF IInv, TypeOK, NoticeOK, FailOK
  <2>2. QED
    BY <1>1, <1>2, <1>3, <2>1, FailsKeeps
<1>4. CASE \E kind \in {"start", "sticky"} :
              AttemptFails(Failed(kind, starts), Failed(kind, starts))
  <2>1. PICK kind \in {"start", "sticky"} :
             AttemptFails(Failed(kind, starts), Failed(kind, starts))
    BY <1>4
  <2>2. /\ Failed(kind, starts) \in Messages /\ Failed(kind, starts).kind # "noimage"
        /\ Failed(kind, starts).start = starts
    BY VerdictFacts
  <2>3. QED
    BY <1>1, <1>2, <2>1, <2>2, FailsKeeps
<1>5. QED
  BY <1>3, <1>4 DEF BootFails

(***************************************************************************)
(* GIMP comes up: it is pinged, unless it is gone or not wanted any more.  *)
(***************************************************************************)
LEMMA BootSucceedsKeeps ==
    ASSUME IInv, BootSucceeds
    PROVE  IInv'
<1> USE DEF IInv
<1>1. /\ attempt = "booting" /\ ReadyFile
      /\ UNCHANGED <<shut, process, exited, dirs, responses>>
  BY DEF BootSucceeds
<1>2. CASE /\ Kill(proc) /\ ~Open
           /\ AttemptRejects(Told("closed"))
           /\ UNCHANGED <<lifeVars, dir, nextId, ticket, requests>>
  <2>1. /\ UNCHANGED <<lifeVars, dir, nextId, shut, ticket, process, exited, dirs, requests>>
        /\ responses' \subseteq responses
    BY <1>1, <1>2
  <2>2. QED
    BY <1>1, <1>2, <2>1, ClosedKeeps
<1>3. CASE /\ AttemptFails(Told("restarted"), Failed("restarted", starts))
           /\ UNCHANGED <<ticket, requests>>
  <2>1. UNCHANGED <<shut, ticket, process, exited, dirs, requests>>
        /\ responses' \subseteq responses
    BY <1>1, <1>3
  <2>2. QED
    BY <1>1, <1>3, <2>1, VerdictFacts, FailsKeeps
<1>4. CASE /\ WriteRequest(Ping) /\ Open
           /\ attempt' = "pinging"
           /\ UNCHANGED <<lifeVars, callVars, saidVars, starts, proc, dir, killed>>
  <2>1. /\ result' = result /\ state' = state /\ deadGeneration' = deadGeneration
        /\ lastFailure' = lastFailure /\ stickyError' = stickyError
        /\ unobservedStartFailure' = unobservedStartFailure /\ everReady' = everReady
        /\ restartNoticePending' = restartNoticePending
        /\ starts' = starts /\ proc' = proc /\ dir' = dir
        /\ shut' = shut /\ process' = process /\ exited' = exited
        /\ killed' = killed /\ dirs' = dirs /\ responses' = responses
        /\ queue' = queue /\ pc' = pc /\ generation' = generation
    BY <1>1, <1>4 DEF lifeVars, saidVars, callVars
  <2>2. /\ state = "starting" /\ proc = starts /\ dir = proc /\ proc \in Numbers
        /\ process[proc] \in {"serving", "ended"}
    <3>1. /\ state \in {"starting", "dead"} /\ proc = starts /\ dir = starts /\ starts # 0
      BY <1>1, <1>4 DEF PhaseOK, Open
    <3>2. /\ responses # {} /\ process[dir] \in {"serving", "ended"}
      <4>1. PICK r \in responses : TRUE
        BY <1>1 DEF ReadyFile
      <4>2. QED
        BY <4>1 DEF FileOK
    <3>3. state # "dead"
      BY <1>1, <3>2 DEF FileOK
    <3>4. QED
      BY <3>1, <3>2, <3>3 DEF TypeOK
  <2>3. Ping \in Senders /\ \A d \in Calls : d \in Senders /\ d # Ping
    BY PingAssumption DEF Senders
  <2>4. /\ TicketOK'
        /\ ticket' \in [Senders -> [proc : Nat, dir : Nat, id : Nat]]
        /\ \A t \in Senders : t # Ping => ticket'[t] = ticket[t]
        /\ nextId' \in Nat /\ 1 <= nextId'
        /\ requests' \subseteq [dir : Numbers, id : Nat, by : Senders]
        /\ \A r \in requests' : r.dir = dir /\ r.id < nextId' /\ 1 <= r.id
        /\ \A r \in responses : r.id < nextId'
    BY <1>4, <2>1, <2>2, <2>3, RequestKeeps
  <2>5. \A d \in Calls : ticket'[d] = ticket[d] /\ (Reached(d)' <=> Reached(d))
    BY <2>3, <2>4 DEF Reached
  <2>6. TypeOK'
    BY <1>4, <2>1, <2>4 DEF TypeOK
  <2>7. PhaseOK'
    BY <1>1, <1>4, <2>1, <2>2 DEF PhaseOK, ShuttingDown
  <2>8. QueueOK' /\ TurnOK'
    BY <1>1, <1>4, <2>1, <2>2 DEF QueueOK, TurnOK, HasTurn
  <2>9. CountOK'
    <3>1. Served' = Served
      BY <2>1 DEF Served
    <3>2. QED
      BY <1>1, <1>4, <2>1, <3>1 DEF CountOK
  <2>10. ProcOK'
    BY <1>1, <1>4, <2>1 DEF ProcOK, Lives, NoUnmanagedProcess
  <2>11. FileOK'
    BY <1>4, <2>1, <2>2, <2>4 DEF FileOK
  <2>12. GenOK'
    BY <1>1, <1>4, <2>1, <2>5 DEF GenOK, AllNow, GenerationsTellProcessesApart
  <2>13. FailOK'
    BY <1>1, <1>4, <2>1, <2>2 DEF FailOK, FailuresReachSomeone, ShuttingDown
  <2>14. NoticeOK'
    BY <2>1, <2>5 DEF NoticeOK, RestartIsTold, HasTurn
  <2>15. QED
    BY <2>4, <2>6, <2>7, <2>8, <2>9, <2>10, <2>11, <2>12, <2>13, <2>14
<1>5. QED
  BY <1>2, <1>3, <1>4 DEF BootSucceeds

(***************************************************************************)
(* The ping fails.                                                         *)
(***************************************************************************)
LEMMA PingFailsKeeps ==
    ASSUME IInv, PingFails
    PROVE  IInv'
<1>1. /\ attempt = "pinging" /\ attempt \in {"booting", "pinging"} /\ attempt # "none"
      /\ UNCHANGED <<shut, ticket, process, exited, dirs, requests>>
  BY DEF PingFails
<1>2. responses' \subseteq responses
  BY DEF PingFails
<1>3. CASE \E k \in {"restarted", "timeout"} : AttemptFails(Told("restarted"), Failed(k, starts))
  <2>1. PICK k \in {"restarted", "timeout"} : AttemptFails(Told("restarted"), Failed(k, starts))
    BY <1>3
  <2>2. QED
    BY <1>1, <1>2, <2>1, VerdictFacts, FailsKeeps
<1>4. CASE AttemptFails(Failed("failed", starts), Failed("failed", starts))
  BY <1>1, <1>2, <1>4, VerdictFacts, FailsKeeps
<1>5. CASE /\ ~Open /\ Kill(proc)
           /\ AttemptRejects(Told("closed"))
           /\ UNCHANGED <<lifeVars, dir, nextId>>
  <2>1. UNCHANGED <<lifeVars, dir, nextId, shut, ticket, process, exited, dirs, requests>>
    BY <1>1, <1>5
  <2>2. QED
    BY <1>1, <1>2, <1>5, <2>1, ClosedKeeps
<1>6. QED
  BY <1>3, <1>4, <1>5 DEF PingFails

(***************************************************************************)
(* The bridge answers with a version: the session is in use, and the call  *)
(* that waited for it goes on.                                             *)
(***************************************************************************)
LEMMA PingAnsweredKeeps ==
    ASSUME IInv, PingAnswered
    PROVE  IInv'
<1> USE DEF IInv
<1>1. /\ attempt = "pinging" /\ attempt \in {"booting", "pinging"} /\ attempt # "none"
      /\ UNCHANGED <<shut, ticket, process, exited, dirs, requests>>
      /\ responses' \subseteq responses
  BY DEF PingAnswered
<1>2. CASE /\ ~Open /\ Kill(proc)
           /\ AttemptRejects(Told("closed"))
           /\ UNCHANGED <<lifeVars, dir, nextId>>
  <2>1. UNCHANGED <<lifeVars, dir, nextId, shut, ticket, process, exited, dirs, requests>>
    BY <1>1, <1>2
  <2>2. QED
    BY <1>1, <1>2, <2>1, ClosedKeeps
<1>3. CASE AttemptFails(Failed("sticky", starts), Failed("sticky", starts))
  BY <1>1, <1>3, VerdictFacts, FailsKeeps
<1>4. CASE /\ Open
           /\ state' = "ready"
           /\ attempt' = "none"
           /\ everReady' = TRUE
           /\ restartNoticePending' = (restartNoticePending \/ everReady)
           /\ pc' = [c \in Calls |-> IF Waiting(c) THEN "joined" ELSE pc[c]]
           /\ UNCHANGED <<deadGeneration, lastFailure, stickyError, unobservedStartFailure,
                          starts, proc, dir, nextId, queue, result, generation, killed>>
  <2>1. /\ deadGeneration' = deadGeneration
        /\ lastFailure' = lastFailure /\ stickyError' = stickyError
        /\ unobservedStartFailure' = unobservedStartFailure
        /\ starts' = starts /\ proc' = proc /\ dir' = dir /\ nextId' = nextId
        /\ shut' = shut /\ process' = process /\ exited' = exited /\ ticket' = ticket
        /\ killed' = killed /\ dirs' = dirs /\ requests' = requests
        /\ queue' = queue /\ result' = result /\ generation' = generation
    BY <1>1, <1>4
  <2>2. state = "starting" /\ ~ShuttingDown /\ proc = starts /\ dir = starts
    BY <1>1, <1>4 DEF PhaseOK, FileOK, Open
  <2>3. /\ \A d \in Calls : pc'[d] = pc[d] \/ (pc[d] = "waiting" /\ pc'[d] = "joined")
        /\ pc' \in [Calls -> {"unissued", "queued", "waiting", "joined", "sending", "done"}]
    BY <1>4 DEF TypeOK, Waiting, HasTurn
  <2>4. \A d \in Calls : ~HasTurn(d, "sending")'
    BY <1>1, <2>1, <2>3 DEF TurnOK, HasTurn
  <2>5. \A d \in Calls : Reached(d)' <=> Reached(d)
    BY <2>1 DEF Reached
  <2>6. TypeOK'
    <3>1. restartNoticePending' \in BOOLEAN
      BY <1>4
    <3>2. responses' \subseteq [dir : Numbers, id : Nat, by : Senders, says : Kinds]
      BY <1>1 DEF TypeOK
    <3>3. QED
      BY <1>4, <2>1, <2>3, <3>1, <3>2 DEF TypeOK
  <2>7. QueueOK'
    <3>1. \A i \in 1..Len(queue) : queue[i] \in Calls
      BY DEF TypeOK
    <3>2. \A i \in 1..Len(queue) : /\ pc'[queue[i]] \in Pending
                                   /\ i # 1 => pc'[queue[i]] = "queued"
      BY <2>3, <3>1 DEF QueueOK, Pending
    <3>3. QED
      BY <2>1, <3>2 DEF QueueOK
  <2>8. PhaseOK'
    BY <1>1, <1>4, <2>1, <2>2 DEF PhaseOK, ShuttingDown
  <2>9. TurnOK'
    BY <1>4, <2>1, <2>2, <2>4 DEF TurnOK, ShuttingDown
  <2>10. CountOK'
    <3>1. /\ Cardinality(Served) \in Nat /\ Cardinality(Served') \in Nat
          /\ Cardinality(Served) <= Cardinality(Served')
      BY <2>3, ServedGrows
    <3>2. QED
      BY <1>4, <2>1, <2>2, <3>1 DEF CountOK, TypeOK, Numbers
  <2>11. ProcOK'
    BY <1>1, <1>4, <2>1 DEF ProcOK, Lives, NoUnmanagedProcess
  <2>12. FileOK'
    BY <1>1, <1>4, <2>1 DEF FileOK
  <2>13. TicketOK'
    BY <1>1, <2>1 DEF TicketOK
  <2>14. GenOK'
    <3>1. \A d \in Calls : pc'[d] \in {"unissued", "queued", "waiting", "joined"} => ~Reached(d)
      BY <2>3 DEF GenOK
    <3>2. AllNow /\ AllNow'
      BY <2>1, <2>2 DEF GenOK, AllNow
    <3>3. ASSUME NEW d \in Calls, Reached(d)
          PROVE  generation[d] # deadGeneration /\ ticket[d].proc # proc
      <4>1. generation[d] \in Nat /\ generation[d] < deadGeneration /\ deadGeneration \in Nat
        BY <2>2, <3>3 DEF GenOK, TypeOK
      <4>2. ticket[d].proc \in Nat /\ ticket[d].proc < proc /\ proc \in Nat
        BY <2>2, <3>3 DEF GenOK, TypeOK, Numbers, Senders
      <4>3. QED
        BY <4>1, <4>2
    <3>4. QED
      BY <1>4, <2>1, <2>5, <3>1, <3>2, <3>3 DEF GenOK, GenerationsTellProcessesApart
  <2>15. FailOK'
    <3>1. \A d \in Calls : pc'[d] # "done" => result'[d] = Nothing
      BY <2>1, <2>3 DEF FailOK
    <3>2. QED
      BY <1>4, <2>1, <3>1 DEF FailOK, FailuresReachSomeone
  <2>16. NoticeOK'
    <3>1. ~restartNoticePending' => ~everReady
      BY <1>4
    <3>2. ~everReady => \A d \in Calls : ~Reached(d)'
      BY <2>5 DEF NoticeOK
    <3>3. RestartIsTold'
      BY <2>1, <2>5 DEF NoticeOK, RestartIsTold
    <3>4. QED
      BY <1>4, <2>1, <3>1, <3>2, <3>3 DEF NoticeOK
  <2>17. QED
    BY <2>6, <2>7, <2>8, <2>9, <2>10, <2>11, <2>12, <2>13, <2>14, <2>15, <2>16
<1>5. QED
  BY <1>2, <1>3, <1>4 DEF PingAnswered

-----------------------------------------------------------------------------
(* The events, the shutdown and the processes *)

(***************************************************************************)
(* What these steps have in common: they leave the calls and the attempt   *)
(* alone, and the session goes on, is closed or dies.                      *)
(***************************************************************************)
LEMMA EventKeeps ==
    ASSUME IInv, Quiet, UNCHANGED <<saidVars, startVars, callVars, ticket>>,
           \/ UNCHANGED lifeVars
           \/ state' = "closed" /\ UNCHANGED <<deadGeneration, lastFailure, stickyError>>
           \/ /\ state \in {"starting", "ready"} /\ state' = "dead"
              /\ deadGeneration' = deadGeneration + 1
              /\ lastFailure' \in Messages /\ lastFailure'.kind # "noimage"
              /\ stickyError' \in {stickyError, lastFailure'}
              /\ attempt = "booting" => lastFailure'.start = starts,
           shut' \in {"no", "stopping", "confirming", "done"},
           shut # "no" => shut' # "no",
           state' = "closed" => shut' # "no",
           shut' = "done" => state' = "closed",
           shut' = "stopping" => proc # 0,
           process' \in [Numbers -> {"none", "unspawned", "booting", "serving", "ended"}],
           exited' \subseteq Numbers, killed' \subseteq Numbers, dirs' \subseteq Numbers,
           requests' \subseteq requests,
           responses' \subseteq [dir : Numbers, id : Nat, by : Senders, says : Kinds],
           ProcOK', FileOK', TicketOK'
    PROVE  IInv'
<1> USE DEF IInv
<1>1. /\ unobservedStartFailure' = unobservedStartFailure /\ everReady' = everReady
      /\ restartNoticePending' = restartNoticePending /\ attempt' = attempt
      /\ starts' = starts /\ proc' = proc /\ dir' = dir /\ nextId' = nextId
      /\ ticket' = ticket
      /\ queue' = queue /\ pc' = pc /\ result' = result /\ generation' = generation
  BY DEF saidVars, startVars, callVars
<1>2. deadGeneration \in Nat /\ starts \in Nat /\ deadGeneration <= starts
  BY DEF TypeOK, Numbers
<1>3. /\ lastFailure' \in Messages /\ lastFailure'.kind # "noimage"
      /\ stickyError' \in Messages /\ stickyError'.kind # "noimage"
      /\ unobservedStartFailure' \in Messages
      /\ \/ state' = state /\ deadGeneration' = deadGeneration /\ lastFailure' = lastFailure
         \/ state' = "closed" /\ deadGeneration' = deadGeneration
         \/ /\ state \in {"starting", "ready"} /\ state' = "dead"
            /\ deadGeneration' = deadGeneration + 1
            /\ attempt = "booting" => lastFailure'.start = starts
  BY <1>1 DEF lifeVars, TypeOK, NoticeOK
<1>4. \A d \in Calls : Reached(d)' <=> Reached(d)
  BY <1>1 DEF Reached
<1>5. TypeOK'
  <2>1. deadGeneration' \in 0..starts'
    BY <1>1, <1>2, <1>3 DEF CountOK
  <2>2. state' \in {"idle", "starting", "ready", "dead", "closed"}
    BY <1>3 DEF TypeOK
  <2>3. requests' \subseteq [dir : Numbers, id : Nat, by : Senders]
    BY DEF TypeOK
  <2>4. QED
    BY <1>1, <1>3, <2>1, <2>2, <2>3 DEF TypeOK
<1>6. QueueOK'
  BY <1>1 DEF QueueOK
<1>7. PhaseOK'
  BY <1>1, <1>3 DEF PhaseOK, ShuttingDown
<1>8. TurnOK'
  <2>1. \A d \in Calls : ~HasTurn(d, "joined")' /\ (HasTurn(d, "sending")' => HasTurn(d, "sending"))
    BY <1>1 DEF HasTurn, Quiet
  <2>2. state \in {"ready", "dead", "closed"} => state' \in {"ready", "dead", "closed"}
    BY <1>3
  <2>3. QED
    BY <1>1, <1>4, <2>1, <2>2 DEF TurnOK
<1>9. CountOK'
  <2>1. Served' = Served
    BY <1>1 DEF Served
  <2>2. QED
    BY <1>1, <1>2, <1>3, <2>1 DEF CountOK, PhaseOK
<1>10. GenOK'
  <2>1. \A d \in Calls : generation[d] \in Nat /\ generation[d] <= deadGeneration
    BY DEF TypeOK, GenOK
  <2>2. \A d \in Calls : generation'[d] <= deadGeneration'
    BY <1>1, <1>2, <1>3, <2>1
  <2>3. state' \in {"starting", "ready"} \/ attempt' = "killing" => AllNow'
    BY <1>1, <1>3 DEF GenOK, AllNow, PhaseOK
  <2>4. ASSUME NEW d \in Calls, Reached(d)
        PROVE  /\ state' \in {"idle", "dead", "starting"} => generation[d] < deadGeneration'
               /\ state' = "starting" => ticket[d].proc < proc
               /\ state' = "ready" => (generation[d] = deadGeneration' <=> ticket[d].proc = proc)
    BY <1>2, <1>3, <2>1, <2>4 DEF GenOK
  <2>5. GenerationsTellProcessesApart'
    BY <1>1, <1>4 DEF GenOK, GenerationsTellProcessesApart
  <2>6. QED
    BY <1>1, <1>4, <2>2, <2>3, <2>4, <2>5 DEF GenOK
<1>11. FailOK'
  BY <1>1, <1>3 DEF FailOK, FailuresReachSomeone, ShuttingDown
<1>12. NoticeOK'
  <2>1. /\ state' = "ready" => state = "ready"
        /\ \A d \in Calls : HasTurn(d, "sending")' <=> HasTurn(d, "sending")
    BY <1>1, <1>3 DEF HasTurn
  <2>2. RestartIsTold'
    BY <1>1, <1>4 DEF NoticeOK, RestartIsTold
  <2>3. QED
    BY <1>1, <1>3, <1>4, <2>1, <2>2 DEF NoticeOK
<1>13. QED
  BY <1>5, <1>6, <1>7, <1>8, <1>9, <1>10, <1>11, <1>12

(***************************************************************************)
(* An exit is noticed.                                                     *)
(***************************************************************************)
LEMMA ExitEventKeeps ==
    ASSUME IInv, NEW p \in Numbers, ExitEvent(p)
    PROVE  IInv'
<1> USE DEF IInv
<1>1. /\ Quiet /\ process[p] = "ended" /\ exited' = exited \cup {p}
      /\ UNCHANGED <<saidVars, startVars, shut, callVars, ticket, process, killed, fileVars>>
  BY DEF ExitEvent
<1>2. /\ shut' = shut /\ ticket' = ticket /\ process' = process /\ killed' = killed
      /\ dirs' = dirs /\ requests' = requests /\ responses' = responses
      /\ attempt' = attempt /\ starts' = starts /\ proc' = proc /\ dir' = dir /\ nextId' = nextId
  BY <1>1 DEF fileVars, startVars
<1>3. \/ UNCHANGED lifeVars
      \/ /\ state' = "closed" /\ ShuttingDown
         /\ UNCHANGED <<deadGeneration, lastFailure, stickyError>>
      \/ /\ state = "ready" /\ state' = "dead"
         /\ deadGeneration' = deadGeneration + 1 /\ lastFailure' = Told("restarted")
         /\ stickyError' = stickyError
  <2>1. p = proc => proc # 0
    BY DEF Numbers
  <2>2. p = proc => state # "idle"
    BY <2>1 DEF PhaseOK, TypeOK, Numbers
  <2>3. CASE p # proc \/ state \in {"dead", "closed"}
    BY <2>3 DEF ExitEvent
  <2>4. CASE p = proc /\ state \notin {"dead", "closed"} /\ ShuttingDown
    BY <2>4 DEF ExitEvent
  <2>5. CASE p = proc /\ state \notin {"dead", "closed"} /\ ~ShuttingDown /\ state = "starting"
    BY <2>5 DEF ExitEvent
  <2>6. CASE p = proc /\ state \notin {"dead", "closed"} /\ ~ShuttingDown /\ state # "starting"
    <3>1. state = "ready"
      BY <2>2, <2>6 DEF TypeOK
    <3>2. MarkDead(Told("restarted")) /\ stickyError' = stickyError
      BY <2>6 DEF ExitEvent
    <3>3. QED
      BY <2>6, <3>1, <3>2 DEF MarkDead
  <2>7. QED
    BY <2>3, <2>4, <2>5, <2>6
<1>4. /\ Told("restarted") \in Messages /\ Told("restarted").kind # "noimage"
      /\ state = "ready" => attempt # "booting"
  BY DEF Told, Messages, Kinds, PhaseOK
<1>5. /\ state' = "closed" => shut # "no"
      /\ shut = "done" => state' = "closed"
      /\ shut = "stopping" => proc # 0
      /\ state' = "dead" => state = "dead" \/ (state = "ready" /\ attempt = "none")
  BY <1>3 DEF PhaseOK, ShuttingDown, lifeVars
<1>6. ProcOK'
  BY <1>1, <1>2 DEF ProcOK, Lives, NoUnmanagedProcess
<1>7. FileOK'
  BY <1>2, <1>5 DEF FileOK
<1>8. TicketOK'
  BY <1>2 DEF TicketOK
<1>9. /\ shut' \in {"no", "stopping", "confirming", "done"}
      /\ process' \in [Numbers -> {"none", "unspawned", "booting", "serving", "ended"}]
      /\ exited' \subseteq Numbers /\ killed' \subseteq Numbers /\ dirs' \subseteq Numbers
      /\ requests' \subseteq requests
      /\ responses' \subseteq [dir : Numbers, id : Nat, by : Senders, says : Kinds]
  BY <1>1, <1>2 DEF TypeOK
<1>10. QED
  BY <1>1, <1>2, <1>3, <1>4, <1>5, <1>6, <1>7, <1>8, <1>9, EventKeeps

(***************************************************************************)
(* A process turns out not to have been spawned.                           *)
(***************************************************************************)
LEMMA ErrorEventKeeps ==
    ASSUME IInv, NEW p \in Numbers, ErrorEvent(p)
    PROVE  IInv'
<1> USE DEF IInv
<1>1. /\ Quiet /\ process[p] = "unspawned" /\ process' = [process EXCEPT ![p] = "ended"]
      /\ exited' = exited \cup {p}
      /\ UNCHANGED <<saidVars, startVars, shut, callVars, ticket, killed, fileVars>>
  BY DEF ErrorEvent
<1>2. /\ shut' = shut /\ ticket' = ticket /\ killed' = killed
      /\ dirs' = dirs /\ requests' = requests /\ responses' = responses
      /\ attempt' = attempt /\ starts' = starts /\ proc' = proc /\ dir' = dir /\ nextId' = nextId
  BY <1>1 DEF fileVars, startVars
<1>3. /\ process' \in [Numbers -> {"none", "unspawned", "booting", "serving", "ended"}]
      /\ process'[p] = "ended" /\ \A q \in Numbers : q # p => process'[q] = process[q]
  BY <1>1 DEF TypeOK
<1>4. \/ UNCHANGED lifeVars
      \/ /\ p = proc /\ state \in {"starting", "ready"} /\ state' = "dead"
         /\ deadGeneration' = deadGeneration + 1
         /\ lastFailure' \in Messages /\ lastFailure'.kind # "noimage"
         /\ stickyError' \in {stickyError, lastFailure'}
         /\ lastFailure'.start = p
  <2>1. PICK kind \in {"start", "sticky"} :
         IF p = proc /\ state \notin {"dead", "closed"}
         THEN MarkDead(Failed(kind, p)) /\ RememberSticky(Failed(kind, p))
         ELSE UNCHANGED lifeVars
    BY DEF ErrorEvent
  <2>2. CASE p = proc /\ state \notin {"dead", "closed"}
    <3>1. p \in Nat /\ p # 0
      BY DEF Numbers
    <3>2. state \in {"starting", "ready"}
      BY <2>2, <3>1 DEF PhaseOK, TypeOK, Numbers
    <3>3. /\ Failed(kind, p) \in Messages /\ Failed(kind, p).kind # "noimage"
          /\ Failed(kind, p).start = p
      BY <3>1 DEF Failed, Messages, Kinds
    <3>4. /\ state' = "dead" /\ deadGeneration' = deadGeneration + 1
          /\ lastFailure' = Failed(kind, p)
          /\ stickyError' \in {stickyError, Failed(kind, p)}
      BY <2>1, <2>2, <3>2 DEF MarkDead, RememberSticky
    <3>5. QED
      BY <2>2, <3>2, <3>3, <3>4
  <2>3. CASE ~(p = proc /\ state \notin {"dead", "closed"})
    BY <2>1, <2>3
  <2>4. QED
    BY <2>2, <2>3
<1>5. /\ state' = "closed" => shut # "no"
      /\ shut = "done" => state' = "closed"
      /\ shut = "stopping" => proc # 0
      /\ p = proc /\ attempt = "booting" => p = starts
      /\ state' = "dead" => \/ state = "dead"
                            \/ p = proc /\ state \in {"starting", "ready"}
  BY <1>4 DEF PhaseOK, ShuttingDown, lifeVars
<1>6. p \notin killed /\ p \notin exited /\ ~Lives(p) /\ ~Lives(p)'
  BY <1>1, <1>3 DEF ProcOK, Lives
<1>7. ProcOK'
  <2>1. \A q \in Numbers : q # p => (Lives(q)' <=> Lives(q))
    BY <1>3 DEF Lives
  <2>2. p <= starts /\ ~(p = starts /\ attempt = "killing")
    BY <1>1 DEF ProcOK, TypeOK, Numbers
  <2>3. ~(p > starts)
    BY <2>2 DEF TypeOK, Numbers
  <2>4. NoUnmanagedProcess'
    BY <1>2, <1>6, <2>1 DEF ProcOK, NoUnmanagedProcess
  <2>5. QED
    BY <1>1, <1>2, <1>3, <1>6, <2>1, <2>2, <2>3, <2>4 DEF ProcOK
<1>8. FileOK'
  <2>1. \A r \in responses : r.dir \in Numbers /\ r.dir # p
    BY <1>1 DEF FileOK, TypeOK
  <2>2. attempt \in {"booting", "pinging"} => proc \in Numbers /\ proc = dir
    BY DEF PhaseOK, TypeOK
  <2>3. attempt = "pinging" => p # proc
    BY <1>1 DEF FileOK
  <2>4. \A r \in responses : r.dir = dir
    BY DEF FileOK
  <2>5. p = proc /\ attempt \in {"booting", "pinging"} => attempt = "booting" /\ responses = {}
    BY <2>1, <2>2, <2>3, <2>4
  <2>6. attempt \in {"booting", "pinging"} /\ state' = "dead"
          => process'[proc] = "ended" /\ responses = {} /\ attempt = "booting"
    BY <1>3, <1>5, <2>2, <2>5 DEF FileOK
  <2>7. \A r \in responses : process'[r.dir] \in {"serving", "ended"}
    BY <1>3, <2>1 DEF FileOK
  <2>8. attempt = "pinging" => process'[proc] \in {"serving", "ended"}
    BY <1>3, <2>2, <2>3 DEF FileOK
  <2>9. QED
    BY <1>2, <2>6, <2>7, <2>8 DEF FileOK
<1>9. TicketOK'
  BY <1>2 DEF TicketOK
<1>10. /\ shut' \in {"no", "stopping", "confirming", "done"}
       /\ exited' \subseteq Numbers /\ killed' \subseteq Numbers /\ dirs' \subseteq Numbers
       /\ requests' \subseteq requests
       /\ responses' \subseteq [dir : Numbers, id : Nat, by : Senders, says : Kinds]
  BY <1>1, <1>2 DEF TypeOK
<1>11. QED
  BY <1>1, <1>2, <1>3, <1>4, <1>5, <1>7, <1>8, <1>9, <1>10, EventKeeps

(***************************************************************************)
(* Shutdown and its waits.                                                 *)
(***************************************************************************)
LEMMA ShutdownKeeps ==
    ASSUME IInv, Shutdown \/ GraceEnds \/ KillConfirmed
    PROVE  IInv'
<1> USE DEF IInv
<1>1. /\ Quiet /\ UNCHANGED <<saidVars, startVars, callVars, ticket, process, exited>>
  BY DEF Shutdown, GraceEnds, KillConfirmed, osVars
<1>2. /\ ticket' = ticket /\ process' = process /\ exited' = exited
      /\ attempt' = attempt /\ starts' = starts /\ proc' = proc /\ dir' = dir /\ nextId' = nextId
  BY <1>1 DEF startVars
<1>3. \/ /\ Close /\ killed' = killed
         /\ proc = 0 \/ proc \in exited \/ shut = "confirming"
      \/ /\ shut' = "confirming" /\ Kill(proc) /\ UNCHANGED <<lifeVars, fileVars>>
         /\ shut # "done"
         /\ proc # 0
      \/ /\ shut' = "stopping" /\ UNCHANGED <<lifeVars, fileVars, killed>> /\ shut = "no"
         /\ proc # 0
  BY DEF Shutdown, GraceEnds, KillConfirmed, osVars, PhaseOK
<1>4. proc \in {0} \cup Numbers
  BY DEF TypeOK
<1>5. CASE /\ Close /\ killed' = killed
           /\ proc = 0 \/ proc \in exited \/ shut = "confirming"
  <2>1. /\ state' = "closed" /\ shut' = "done"
        /\ UNCHANGED <<deadGeneration, lastFailure, stickyError>>
        /\ dirs' \subseteq dirs /\ requests' \subseteq requests /\ responses' \subseteq responses
    BY <1>5 DEF Close, RemoveDir
  <2>2. ProcOK'
    <3>1. \A p \in Numbers : Lives(p) => p \in killed
      BY <1>5 DEF ProcOK, NoUnmanagedProcess, Lives, Numbers
    <3>2. QED
      BY <1>2, <1>5, <2>1, <3>1 DEF ProcOK, Lives, NoUnmanagedProcess
  <2>3. FileOK'
    BY <1>2, <2>1 DEF FileOK
  <2>4. TicketOK'
    BY <1>2, <2>1 DEF TicketOK
  <2>5. /\ process' \in [Numbers -> {"none", "unspawned", "booting", "serving", "ended"}]
        /\ exited' \subseteq Numbers /\ killed' \subseteq Numbers /\ dirs' \subseteq Numbers
        /\ responses' \subseteq [dir : Numbers, id : Nat, by : Senders, says : Kinds]
    BY <1>2, <1>5, <2>1 DEF TypeOK
  <2>6. QED
    BY <1>1, <2>1, <2>2, <2>3, <2>4, <2>5, EventKeeps
<1>6. CASE /\ shut' \in {"confirming", "stopping"} /\ proc # 0
           /\ UNCHANGED <<lifeVars, fileVars>>
           /\ shut # "done"
           /\ \/ killed' = killed /\ shut' = "stopping"
              \/ Kill(proc)
  <2>1. /\ dirs' = dirs /\ requests' = requests /\ responses' = responses /\ state' = state
    BY <1>6 DEF fileVars, lifeVars
  <2>2. /\ killed \subseteq killed'
        /\ \A p \in killed' : p \in killed \/ (p = proc /\ Lives(p))
        /\ shut' = "confirming" /\ Lives(proc) => proc \in killed'
    BY <1>6 DEF Kill
  <2>3. ProcOK'
    <3>1. \A p \in Numbers : p \in killed' => Lives(p)
      BY <2>2 DEF ProcOK
    <3>2. \A p \in Numbers : p = proc /\ shut' = "confirming" /\ Lives(p) => p \in killed'
      BY <2>2
    <3>3. \A p \in Numbers : Lives(p) /\ p \notin killed' => p = proc /\ shut' # "done"
      BY <1>6, <2>2 DEF ProcOK, NoUnmanagedProcess
    <3>4. NoUnmanagedProcess'
      BY <1>2, <3>3 DEF NoUnmanagedProcess, Lives
    <3>5. QED
      BY <1>2, <2>2, <3>1, <3>2, <3>4 DEF ProcOK, Lives
  <2>4. FileOK' /\ TicketOK'
    BY <1>2, <2>1 DEF FileOK, TicketOK
  <2>5. /\ process' \in [Numbers -> {"none", "unspawned", "booting", "serving", "ended"}]
        /\ exited' \subseteq Numbers /\ killed' \subseteq Numbers /\ dirs' \subseteq Numbers
        /\ requests' \subseteq requests
        /\ responses' \subseteq [dir : Numbers, id : Nat, by : Senders, says : Kinds]
    BY <1>2, <1>4, <1>6, <2>1, <2>2 DEF TypeOK
  <2>6. UNCHANGED lifeVars /\ shut' \in {"no", "stopping", "confirming", "done"}
        /\ shut' # "no" /\ shut' # "done"
    BY <1>6
  <2>7. QED
    BY <1>1, <1>6, <2>3, <2>4, <2>5, <2>6, EventKeeps
<1>7. QED
  BY <1>3, <1>5, <1>6

(***************************************************************************)
(* GIMP comes up, serves a request, or ends.                               *)
(***************************************************************************)
LEMMA ProcessKeeps ==
    ASSUME IInv, NEW p \in Numbers, Boots(p) \/ Serves(p) \/ Ends(p)
    PROVE  IInv'
<1> USE DEF IInv
<1>1. /\ Quiet /\ UNCHANGED <<lifeVars, saidVars, startVars, shut, callVars, ticket, exited, dirs>>
  BY DEF Boots, Serves, Ends, osVars, fileVars
<1>2. /\ state' = state /\ shut' = shut /\ ticket' = ticket /\ exited' = exited /\ dirs' = dirs
      /\ attempt' = attempt /\ starts' = starts /\ proc' = proc /\ dir' = dir /\ nextId' = nextId
  BY <1>1 DEF lifeVars, startVars
<1>3. /\ shut' \in {"no", "stopping", "confirming", "done"}
      /\ exited' \subseteq Numbers /\ dirs' \subseteq Numbers
      /\ state' = "closed" => shut' # "no"
      /\ shut' = "done" => state' = "closed"
      /\ shut' = "stopping" => proc # 0
  BY <1>2 DEF TypeOK, PhaseOK, ShuttingDown
<1>4. p \in Nat /\ p # 0 /\ nextId \in Nat /\ 1 <= nextId
  BY DEF Numbers, TypeOK, FileOK
<1>5. attempt \in {"booting", "pinging"} => proc = dir /\ proc \in Numbers
  BY DEF PhaseOK, TypeOK
<1>6. CASE Boots(p)
  <2>1. /\ process[p] = "booting" /\ p \in dirs /\ process' = [process EXCEPT ![p] = "serving"]
        /\ responses' = responses \cup {[dir |-> p, id |-> 0, by |-> Ping, says |-> "ok"]}
        /\ killed' = killed /\ requests' = requests
    BY <1>6 DEF Boots
  <2>2. /\ process' \in [Numbers -> {"none", "unspawned", "booting", "serving", "ended"}]
        /\ process'[p] = "serving" /\ \A q \in Numbers : q # p => process'[q] = process[q]
        /\ p = dir
    BY <2>1 DEF TypeOK, FileOK
  <2>3. \A q \in Numbers : Lives(q)' <=> Lives(q)
    BY <2>1, <2>2 DEF Lives
  <2>4. ProcOK'
    <3>1. \A q \in Numbers : /\ q > starts \/ (q = starts /\ attempt = "killing")
                                => process'[q] = "none"
                             /\ q \in exited => process'[q] = "ended"
      BY <2>1, <2>2 DEF ProcOK
    <3>2. NoUnmanagedProcess'
      BY <1>2, <2>1, <2>3 DEF ProcOK, NoUnmanagedProcess
    <3>3. QED
      BY <1>2, <2>1, <2>3, <3>1, <3>2 DEF ProcOK
  <2>5. FileOK'
    <3>1. ASSUME NEW r \in responses'
          PROVE  /\ r.dir = dir /\ r.id < nextId /\ r.says \in {"ok", "noimage"}
                 /\ process'[r.dir] \in {"serving", "ended"}
      BY <1>4, <2>1, <2>2, <3>1 DEF FileOK
    <3>2. attempt = "pinging" => process'[proc] \in {"serving", "ended"}
      BY <1>5, <2>2 DEF FileOK
    <3>3. ~(attempt \in {"booting", "pinging"} /\ state = "dead")
      BY <1>5, <2>1, <2>2 DEF FileOK
    <3>4. QED
      BY <1>2, <2>1, <3>1, <3>2, <3>3 DEF FileOK
  <2>6. TicketOK'
    <3>1. ASSUME NEW s \in Senders, NEW r \in responses', r.dir = ticket[s].dir,
                 r.id = ticket[s].id
          PROVE  r.by = s
      <4>1. CASE r \in responses
        BY <3>1, <4>1 DEF TicketOK
      <4>2. CASE r = [dir |-> p, id |-> 0, by |-> Ping, says |-> "ok"]
        <5>1. ticket[s].dir = p /\ ticket[s].id = 0
          BY <3>1, <4>2
        <5>2. ticket[s] # NoTicket
          BY <1>4, <5>1 DEF NoTicket
        <5>3. QED
          BY <5>1, <5>2 DEF TicketOK
      <4>3. QED
        BY <2>1, <3>1, <4>1, <4>2
    <3>2. QED
      BY <1>2, <2>1, <3>1 DEF TicketOK
  <2>7. /\ killed' \subseteq Numbers /\ requests' \subseteq requests
        /\ responses' \subseteq [dir : Numbers, id : Nat, by : Senders, says : Kinds]
    BY <2>1 DEF TypeOK, Senders, Kinds
  <2>8. QED
    BY <1>1, <1>3, <2>2, <2>4, <2>5, <2>6, <2>7, EventKeeps
<1>7. CASE Serves(p)
  <2>1. /\ process[p] = "serving" /\ p \in dirs /\ UNCHANGED osVars
    BY <1>7 DEF Serves
  <2>2. PICK r \in requests, says \in {"ok", "noimage"} :
          /\ r.dir = p /\ requests' = requests \ {r}
          /\ responses' = responses \cup
                            {[dir |-> p, id |-> r.id, by |-> r.by, says |-> says]}
    BY <1>7 DEF Serves, Says
  <2>3. /\ process' = process /\ killed' = killed /\ p = dir
    BY <2>1 DEF osVars, FileOK
  <2>4. ProcOK'
    BY <1>2, <2>3 DEF ProcOK, Lives, NoUnmanagedProcess
  <2>5. FileOK'
    <3>1. ASSUME NEW x \in responses'
          PROVE  /\ x.dir = dir /\ x.id < nextId /\ x.says \in {"ok", "noimage"}
                 /\ process[x.dir] \in {"serving", "ended"}
      BY <2>1, <2>2, <2>3, <3>1 DEF FileOK
    <3>2. ~(attempt \in {"booting", "pinging"} /\ state = "dead")
      BY <1>5, <2>1, <2>3 DEF FileOK
    <3>3. QED
      BY <1>2, <2>2, <2>3, <3>1, <3>2 DEF FileOK
  <2>6. TicketOK'
    <3>1. ASSUME NEW s \in Senders, NEW x \in responses', x.dir = ticket[s].dir,
                 x.id = ticket[s].id
          PROVE  x.by = s
      <4>1. CASE x \in responses
        BY <3>1, <4>1 DEF TicketOK
      <4>2. CASE x = [dir |-> p, id |-> r.id, by |-> r.by, says |-> says]
        <5>1. r.dir = ticket[s].dir /\ r.id = ticket[s].id /\ x.by = r.by
          BY <2>2, <3>1, <4>2
        <5>2. QED
          BY <5>1 DEF TicketOK
      <4>3. QED
        BY <2>2, <3>1, <4>1, <4>2
    <3>2. QED
      BY <1>2, <2>2, <3>1 DEF TicketOK
  <2>7. /\ killed' \subseteq Numbers /\ requests' \subseteq requests
        /\ process' \in [Numbers -> {"none", "unspawned", "booting", "serving", "ended"}]
        /\ responses' \subseteq [dir : Numbers, id : Nat, by : Senders, says : Kinds]
    BY <2>2, <2>3 DEF TypeOK, Kinds
  <2>8. QED
    BY <1>1, <1>3, <2>4, <2>5, <2>6, <2>7, EventKeeps
<1>8. CASE Ends(p)
  <2>1. /\ Lives(p) /\ process' = [process EXCEPT ![p] = "ended"] /\ killed' = killed \ {p}
        /\ requests' = requests /\ responses' = responses
    BY <1>8 DEF Ends, fileVars
  <2>2. /\ process' \in [Numbers -> {"none", "unspawned", "booting", "serving", "ended"}]
        /\ process'[p] = "ended" /\ \A q \in Numbers : q # p => process'[q] = process[q]
    BY <2>1 DEF TypeOK
  <2>3. \A q \in Numbers : Lives(q)' <=> Lives(q) /\ q # p
    BY <2>2 DEF Lives
  <2>4. ProcOK'
    <3>1. \A q \in Numbers : /\ q > starts \/ (q = starts /\ attempt = "killing")
                                => process'[q] = "none"
                             /\ q \in exited => process'[q] = "ended"
      BY <2>1, <2>2 DEF ProcOK, Lives
    <3>2. NoUnmanagedProcess'
      BY <1>2, <2>1, <2>3 DEF ProcOK, NoUnmanagedProcess
    <3>3. QED
      BY <1>2, <2>1, <2>3, <3>1, <3>2 DEF ProcOK
  <2>5. FileOK'
    <3>1. \A r \in responses : r.dir \in Numbers
      BY DEF TypeOK
    <3>2. QED
      BY <1>2, <1>5, <2>1, <2>2, <3>1 DEF FileOK
  <2>6. TicketOK'
    BY <1>2, <2>1 DEF TicketOK
  <2>7. /\ killed' \subseteq Numbers /\ requests' \subseteq requests
        /\ responses' \subseteq [dir : Numbers, id : Nat, by : Senders, says : Kinds]
    BY <2>1 DEF TypeOK
  <2>8. QED
    BY <1>1, <1>3, <2>2, <2>4, <2>5, <2>6, <2>7, EventKeeps
<1>9. QED
  BY <1>6, <1>7, <1>8

-----------------------------------------------------------------------------
(* The invariant *)

(***************************************************************************)
(* It holds of a new session.                                              *)
(***************************************************************************)
LEMMA InitKeeps ==
    ASSUME Init
    PROVE  IInv
<1> USE DEF Init
<1>1. /\ Nothing \in Messages /\ Nothing.kind = "none" /\ Nothing.start = 0
      /\ Told("restarted") \in Messages /\ Told("restarted").kind = "restarted"
      /\ NoTicket \in [proc : Nat, dir : Nat, id : Nat]
      /\ NoTicket.proc = 0 /\ NoTicket.dir = 0 /\ NoTicket.id = 0
  BY DEF Nothing, Told, Messages, Kinds, NoTicket
<1>2. /\ queue \in Seq(Calls) /\ Len(queue) = 0
      /\ \A i \in 1..Len(queue) : FALSE
  OBVIOUS
<1>3. TypeOK
  <2>1. /\ {lastFailure, stickyError, unobservedStartFailure} \subseteq Messages
        /\ deadGeneration \in 0..starts /\ {starts, proc, dir} \subseteq {0} \cup Numbers
        /\ nextId \in Nat
    BY <1>1
  <2>2. /\ pc \in [Calls -> {"unissued", "queued", "waiting", "joined", "sending", "done"}]
        /\ result \in [Calls -> Messages]
        /\ generation \in [Calls -> Nat]
        /\ ticket \in [Senders -> [proc : Nat, dir : Nat, id : Nat]]
        /\ process \in [Numbers -> {"none", "unspawned", "booting", "serving", "ended"}]
    BY <1>1
  <2>3. QED
    BY <1>2, <2>1, <2>2 DEF TypeOK
<1>4. QueueOK
  BY <1>2 DEF QueueOK
<1>5. PhaseOK
  BY DEF PhaseOK, ShuttingDown
<1>6. TurnOK
  BY DEF TurnOK, HasTurn
<1>7. CountOK
  <2>1. Served \subseteq Calls
    BY DEF Served
  <2>2. Cardinality(Served) \in Nat
    BY <2>1, CallsAssumption, FS_Subset, FS_CardinalityType
  <2>3. QED
    BY <2>2 DEF CountOK
<1>8. ProcOK
  BY DEF ProcOK, Lives, NoUnmanagedProcess
<1>9. FileOK
  BY DEF FileOK
<1>10. TicketOK
  BY <1>1 DEF TicketOK
<1>11. \A d \in Calls : ~Reached(d)
  BY DEF Reached, Senders
<1>12. GenOK
  BY <1>2, <1>11 DEF GenOK, AllNow, GenerationsTellProcessesApart
<1>13. FailOK
  <2>1. 1..starts = {}
    OBVIOUS
  <2>2. QED
    BY <2>1 DEF FailOK, FailuresReachSomeone
<1>14. NoticeOK
  BY <1>1, <1>11 DEF NoticeOK, RestartIsTold, HasTurn
<1>15. QED
  BY <1>3, <1>4, <1>5, <1>6, <1>7, <1>8, <1>9, <1>10, <1>12, <1>13, <1>14 DEF IInv

(***************************************************************************)
(* Every step keeps it.                                                    *)
(***************************************************************************)
LEMMA StepKeeps ==
    ASSUME IInv, [Next]_vars
    PROVE  IInv'
<1>1. CASE UNCHANGED vars
  <2>1. /\ state' = state /\ deadGeneration' = deadGeneration /\ lastFailure' = lastFailure
        /\ stickyError' = stickyError /\ unobservedStartFailure' = unobservedStartFailure
        /\ everReady' = everReady /\ restartNoticePending' = restartNoticePending
        /\ attempt' = attempt /\ starts' = starts /\ proc' = proc /\ dir' = dir
        /\ nextId' = nextId /\ shut' = shut /\ queue' = queue /\ pc' = pc
        /\ result' = result /\ generation' = generation /\ ticket' = ticket
        /\ process' = process /\ exited' = exited /\ killed' = killed
        /\ dirs' = dirs /\ requests' = requests /\ responses' = responses
    BY <1>1 DEF vars, lifeVars, saidVars, startVars, callVars, osVars, fileVars
  <2>2. TypeOK' /\ QueueOK' /\ PhaseOK' /\ ProcOK' /\ FileOK' /\ TicketOK'
    BY <2>1 DEF IInv, TypeOK, QueueOK, PhaseOK, ShuttingDown, ProcOK, Lives,
                NoUnmanagedProcess, FileOK, TicketOK
  <2>3. TurnOK' /\ CountOK' /\ GenOK'
    BY <2>1 DEF IInv, TurnOK, HasTurn, ShuttingDown, Reached, CountOK, Served, GenOK, AllNow,
                GenerationsTellProcessesApart
  <2>4. FailOK' /\ NoticeOK'
    BY <2>1 DEF IInv, FailOK, FailuresReachSomeone, ShuttingDown, NoticeOK, RestartIsTold,
                HasTurn, Reached
  <2>5. QED
    BY <2>2, <2>3, <2>4 DEF IInv
<1>2. CASE \E c \in Calls : Issue(c) \/ CallStep(c)
  BY <1>2, IssueKeeps, RefuseKeeps, JoinKeeps, StartKeeps, OutcomeKeeps, SendKeeps DEF CallStep
<1>3. CASE AttemptStep
  BY <1>3, StaleGoneKeeps, BootFailsKeeps, BootSucceedsKeeps, PingFailsKeeps, PingAnsweredKeeps
     DEF AttemptStep
<1>4. CASE Shutdown \/ ShutdownStep
  BY <1>4, ShutdownKeeps DEF ShutdownStep
<1>5. CASE \E p \in Numbers : ProcessStep(p)
  BY <1>5, ProcessKeeps, ExitEventKeeps, ErrorEventKeeps DEF ProcessStep
<1>6. QED
  BY <1>1, <1>2, <1>3, <1>4, <1>5 DEF Next

(***************************************************************************)
(* The invariant always holds.                                             *)
(***************************************************************************)
LEMMA Invariant == Spec => []IInv
<1>1. Init => IInv
  BY InitKeeps
<1>2. IInv /\ [Next]_vars => IInv'
  BY StepKeeps
<1>3. QED
  BY <1>1, <1>2, PTL DEF Spec

-----------------------------------------------------------------------------
(* What it says of the session *)

(***************************************************************************)
(* The state is well formed, and a response that a poll of #send would     *)
(* take for its own is the answer to its own request, although every       *)
(* session numbers its requests from 1.                                    *)
(***************************************************************************)
THEOREM AnswersGoHome == Spec => []SessionInv
<1>1. IInv => SessionInv
  <2>1. IInv => TypeOK
    BY DEF IInv
  <2>2. IInv => AnswersAreOwn
    BY DEF IInv, TicketOK, AnswersAreOwn, Response
  <2>3. QED
    BY <2>1, <2>2 DEF SessionInv
<1>2. QED
  BY <1>1, Invariant, PTL

(***************************************************************************)
(* #startFresh leaves no process behind that nobody will kill, whichever   *)
(* of its awaits shutdown or another failure falls into.                   *)
(***************************************************************************)
THEOREM EveryProcessIsManaged == Spec => []NoUnmanagedProcess
<1>1. IInv => NoUnmanagedProcess
  BY DEF IInv, ProcOK
<1>2. QED
  BY <1>1, Invariant, PTL

(***************************************************************************)
(* Two calls that reached a process reached the same one if and only if    *)
(* they were issued in the same generation.                                *)
(***************************************************************************)
THEOREM AGenerationIsAProcess == Spec => []GenerationsTellProcessesApart
<1>1. IInv => GenerationsTellProcessesApart
  BY DEF IInv, GenOK
<1>2. QED
  BY <1>1, Invariant, PTL

(***************************************************************************)
(* The failure of an attempt nobody waited for any longer is kept for the  *)
(* next call.                                                              *)
(***************************************************************************)
THEOREM NoFailureIsLost == Spec => []FailuresReachSomeone
<1>1. IInv => FailuresReachSomeone
  BY DEF IInv, FailOK
<1>2. QED
  BY <1>1, Invariant, PTL

(***************************************************************************)
(* Before a call gets a plain "no open image" from a process that replaced *)
(* another, some call was told that the images were lost with it, or       *)
(* opened an image anew.                                                   *)
(***************************************************************************)
THEOREM LostImagesAreAnnounced == Spec => []RestartIsTold
<1>1. IInv => RestartIsTold
  BY DEF IInv, NoticeOK
<1>2. QED
  BY <1>1, Invariant, PTL

-----------------------------------------------------------------------------
(* Deaths and the shutdown *)

(***************************************************************************)
(* No step starts anything once shutdown has begun.                        *)
(***************************************************************************)
FinalStep == ShuttingDown => /\ proc' = proc
                             /\ state = "closed" => state' = "closed"
                             /\ \A p \in Numbers : process[p] = "none" => process'[p] = "none"

(***************************************************************************)
(* The calls.                                                              *)
(***************************************************************************)
LEMMA CallIsFinal ==
    ASSUME IInv, NEW c \in Calls, CallStep(c)
    PROVE  FinalStep
<1> USE DEF IInv, FinalStep
<1>1. CASE Refuse(c) \/ Join(c) \/ GiveUp(c) \/ Answered(c)
  BY <1>1 DEF Refuse, Join, GiveUp, Answered, lifeVars, startVars, osVars
<1>2. CASE Start(c)
  BY <1>2 DEF Start, Admitted, Open
<1>3. CASE Send(c)
  <2>1. ~ShuttingDown
    BY <1>3 DEF Send, Admitted, Open, TurnOK
  <2>2. QED
    BY <2>1
<1>4. CASE Lost(c) \/ TimesOut(c)
  BY <1>4 DEF Lost, TimesOut, DeadUnlessShuttingDown, startVars, osVars
<1>5. QED
  BY <1>1, <1>2, <1>3, <1>4 DEF CallStep

(***************************************************************************)
(* The start attempts: each of them looks at the shutdown after its awaits.*)
(***************************************************************************)
LEMMA AttemptIsFinal ==
    ASSUME IInv, AttemptStep
    PROVE  FinalStep
<1> USE DEF IInv, FinalStep
<1>1. SUFFICES ASSUME ShuttingDown
               PROVE  proc' = proc /\ state' = state /\ process' = process
  OBVIOUS
<1>2. ~Open
  BY <1>1 DEF Open
<1>3. ASSUME NEW v, AttemptRejects(v)
      PROVE  proc' = proc
  BY <1>3 DEF AttemptRejects
<1>4. ASSUME NEW why, NEW verdict, AttemptFails(why, verdict)
      PROVE  proc' = proc /\ state' = state
  BY <1>2, <1>3, <1>4 DEF AttemptFails, lifeVars
<1>5. CASE StaleGone
  BY <1>2, <1>3, <1>5 DEF StaleGone, lifeVars
<1>6. CASE BootFails
  BY <1>4, <1>6 DEF BootFails
<1>7. CASE BootSucceeds
  BY <1>2, <1>3, <1>7 DEF BootSucceeds, lifeVars
<1>8. CASE PingFails
  <2>1. CASE \E why, verdict : AttemptFails(why, verdict)
    BY <1>4, <1>8, <2>1 DEF PingFails
  <2>2. CASE AttemptRejects(Told("closed")) /\ UNCHANGED lifeVars
    BY <1>3, <1>8, <2>2 DEF PingFails, lifeVars
  <2>3. QED
    BY <1>8, <2>1, <2>2 DEF PingFails
<1>9. CASE PingAnswered
  BY <1>2, <1>3, <1>9 DEF PingAnswered, lifeVars
<1>10. QED
  BY <1>5, <1>6, <1>7, <1>8, <1>9, <1>1 DEF AttemptStep

(***************************************************************************)
(* The rest.                                                               *)
(***************************************************************************)
LEMMA StepIsFinal ==
    ASSUME IInv, [Next]_vars
    PROVE  FinalStep
<1> USE DEF IInv, FinalStep
<1>1. CASE UNCHANGED vars
  BY <1>1 DEF vars, lifeVars, startVars, osVars
<1>2. CASE \E c \in Calls : Issue(c)
  BY <1>2 DEF Issue, lifeVars, startVars, osVars
<1>3. CASE Shutdown \/ ShutdownStep
  BY <1>3 DEF Shutdown, ShutdownStep, GraceEnds, KillConfirmed, Close, lifeVars, startVars, osVars
<1>4. ASSUME NEW p \in Numbers, ProcessStep(p)
      PROVE  FinalStep
  <2>1. proc' = proc /\ (state = "closed" => state' = "closed")
    BY <1>4 DEF ProcessStep, Boots, Serves, Ends, ExitEvent, ErrorEvent, MarkDead, lifeVars,
                startVars
  <2>2. process' = process \/ (process[p] # "none" /\ \E now : process' = [process EXCEPT ![p] = now])
    BY <1>4 DEF ProcessStep, Boots, Serves, Ends, ExitEvent, ErrorEvent, Lives, osVars
  <2>3. \A q \in Numbers : process[q] = "none" => process'[q] = "none"
    BY <2>2 DEF TypeOK
  <2>4. QED
    BY <2>1, <2>3
<1>5. QED
  BY <1>1, <1>2, <1>3, <1>4, CallIsFinal, AttemptIsFinal DEF Next

(***************************************************************************)
(* A session in use dies only with its process, or when that is killed.    *)
(***************************************************************************)
LEMMA StepIsTrue ==
    ASSUME IInv, [Next]_vars, state = "ready", state' = "dead"
    PROVE  ~Lives(proc) \/ proc \in killed'
<1> USE DEF IInv
<1>1. /\ attempt = "none" /\ proc \in Numbers
      /\ \A p \in exited : process[p] = "ended"
  BY DEF PhaseOK, TypeOK, ProcOK
<1>2. ~(UNCHANGED vars) /\ ~AttemptStep /\ ~(Shutdown \/ ShutdownStep)
  BY <1>1 DEF vars, lifeVars, AttemptStep, StaleGone, BootFails, BootSucceeds, PingFails,
              PingAnswered, Shutdown, ShutdownStep, GraceEnds, KillConfirmed, Close
<1>3. ASSUME NEW c \in Calls, Issue(c) \/ CallStep(c)
      PROVE  ~Lives(proc) \/ proc \in killed'
  <2>1. ~(Issue(c) \/ Refuse(c) \/ Join(c) \/ Start(c) \/ GiveUp(c) \/ Answered(c))
    BY DEF Issue, Refuse, Join, Start, MustStart, GiveUp, Answered, lifeVars
  <2>2. CASE Send(c)
    BY <1>1, <2>2 DEF Send, Lives
  <2>3. CASE Lost(c)
    <3>1. ticket[c].proc = proc /\ proc \in exited
      BY <2>3 DEF Lost, ProcessLost, TurnOK
    <3>2. QED
      BY <1>1, <3>1 DEF Lives
  <2>4. CASE TimesOut(c)
    <3>1. ticket[c].proc = proc /\ Kill(ticket[c].proc)
      BY <2>4 DEF TimesOut, TurnOK
    <3>2. QED
      BY <3>1 DEF Kill
  <2>5. QED
    BY <1>3, <2>1, <2>2, <2>3, <2>4 DEF CallStep
<1>4. ASSUME NEW p \in Numbers, ProcessStep(p)
      PROVE  ~Lives(proc)
  <2>1. p = proc /\ process[p] \in {"ended", "unspawned"}
    BY <1>4 DEF ProcessStep, Boots, Serves, Ends, ExitEvent, ErrorEvent, lifeVars
  <2>2. QED
    BY <2>1 DEF Lives
<1>5. QED
  BY <1>2, <1>3, <1>4 DEF Next

(***************************************************************************)
(* After a shutdown nothing is started and "closed" is not left, and a     *)
(* session in use is not declared dead in error.                           *)
(***************************************************************************)
THEOREM DeathsAreReal == Spec => EndsAreTrue
<1>1. IInv /\ [Next]_vars =>
        [ShuttingDown => /\ proc' = proc
                         /\ state = "closed" => state' = "closed"
                         /\ \A p \in Numbers : process[p] = "none" => process'[p] = "none"]_vars
  BY StepIsFinal DEF FinalStep
<1>2. IInv /\ [Next]_vars =>
        [state = "ready" /\ state' = "dead" => ~Lives(proc) \/ proc \in killed']_vars
  BY StepIsTrue
<1>3. Spec => ShutdownIsFinal
  BY <1>1, Invariant, PTL DEF Spec, ShutdownIsFinal
<1>4. Spec => DeclaredDeadIsDead
  BY <1>2, Invariant, PTL DEF Spec, DeclaredDeadIsDead
<1>5. QED
  BY <1>3, <1>4 DEF EndsAreTrue

-----------------------------------------------------------------------------
(* The contract of SessionContract *)

(***************************************************************************)
(* What the contract sees of a call at each place.                         *)
(***************************************************************************)
LEMMA FateFacts ==
    ASSUME NEW c \in Calls
    PROVE  /\ pc[c] = "unissued" => Fate(c) = "unissued"
           /\ pc[c] \in {"queued", "waiting", "joined"} => Fate(c) = "waiting"
           /\ pc[c] = "sending" => Fate(c) = "running"
           /\ pc[c] = "done" /\ ~Reached(c) => Fate(c) = "refused"
           /\ pc[c] = "done" /\ Reached(c) /\ result[c].kind \in {"restarted", "timeout"}
                => Fate(c) = "lost"
           /\ pc[c] = "done" /\ Reached(c) /\ result[c].kind \notin {"restarted", "timeout"}
                => Fate(c) = "answered"
  BY DEF Fate

(***************************************************************************)
(* And of the others, which a step of a call leaves as they are.           *)
(***************************************************************************)
LEMMA FateKept ==
    ASSUME NEW c \in Calls, pc'[c] = pc[c], result'[c] = result[c], ticket'[c] = ticket[c]
    PROVE  Fate(c)' = Fate(c)
  BY DEF Fate, Reached

(***************************************************************************)
(* The step of an attempt or of a process: the session may die.            *)
(***************************************************************************)
MayDie == \/ deadGeneration' = deadGeneration
          \/ deadGeneration' = deadGeneration + 1

(***************************************************************************)
(* A call that returns leaves the line.                                    *)
(***************************************************************************)
LEMMA ReturnLeaves ==
    ASSUME IInv, NEW c \in Calls, NEW from \in Pending, HasTurn(c, from),
           NEW m \in Messages, Return(c, m),
           \A d \in Calls : d # c => ticket'[d] = ticket[d],
           shut' = shut
    PROVE  /\ Fate(c) = (IF from = "sending" THEN "running" ELSE "waiting")
           /\ Contract!Leaves(c, {Fate(c)}, Fate(c)')
<1> USE DEF IInv
<1>1. /\ queue # <<>> /\ c = Head(queue) /\ pc[c] = from
  BY DEF HasTurn
<1>2. /\ pc'[c] = "done" /\ queue' = Tail(queue) /\ generation' = generation
      /\ \A d \in Calls : d # c => pc'[d] = pc[d] /\ result'[d] = result[d]
  BY DEF Return, TypeOK
<1>3. \A d \in Calls : d # c => Fate(d)' = Fate(d)
  BY <1>2, FateKept
<1>4. [d \in Calls |-> Fate(d)]' = [[d \in Calls |-> Fate(d)] EXCEPT ![c] = Fate(c)']
  BY <1>3
<1>5. UNCHANGED <<~ShuttingDown, generation>>
  BY <1>2 DEF ShuttingDown
<1>6. Fate(c) = (IF from = "sending" THEN "running" ELSE "waiting")
  BY <1>1, FateFacts DEF Pending
<1>7. QED
  BY <1>1, <1>2, <1>4, <1>5, <1>6 DEF Contract!Leaves

(***************************************************************************)
(* What the contract does not see is allowed by it, and so is the death of *)
(* a session.                                                              *)
(***************************************************************************)
LEMMA QuietSteps ==
    ASSUME IInv, UNCHANGED callVars, \A d \in Calls : ticket'[d] = ticket[d],
           shut' = shut, MayDie
    PROVE  [Contract!Next]_Contract!vars
<1>1. queue' = queue /\ pc' = pc /\ result' = result /\ generation' = generation
  BY DEF callVars
<1>2. \A d \in Calls : Fate(d)' = Fate(d)
  BY <1>1, FateKept
<1>3. [d \in Calls |-> Fate(d)]' = [d \in Calls |-> Fate(d)]
  BY <1>2
<1>4. UNCHANGED <<~ShuttingDown, queue, [d \in Calls |-> Fate(d)], generation>>
  BY <1>1, <1>3 DEF ShuttingDown
<1>5. CASE deadGeneration' = deadGeneration
  BY <1>4, <1>5 DEF Contract!vars
<1>6. CASE deadGeneration' = deadGeneration + 1
  BY <1>4, <1>6 DEF Contract!Next, Contract!Die
<1>7. QED
  BY <1>5, <1>6 DEF MayDie

(***************************************************************************)
(* A call that gets further without the contract's seeing it.              *)
(***************************************************************************)
LEMMA WaitsOn ==
    ASSUME IInv, UNCHANGED <<queue, generation, shut, deadGeneration, result>>,
           \A d \in Calls : /\ ticket'[d] = ticket[d]
                            /\ \/ pc'[d] = pc[d]
                               \/ {pc[d], pc'[d]} \subseteq {"queued", "waiting", "joined"}
    PROVE  [Contract!Next]_Contract!vars
<1>1. ASSUME NEW d \in Calls
      PROVE  Fate(d)' = Fate(d)
  <2>1. CASE pc'[d] = pc[d]
    BY <2>1, FateKept
  <2>2. CASE {pc[d], pc'[d]} \subseteq {"queued", "waiting", "joined"}
    BY <2>2 DEF Fate, Reached
  <2>3. QED
    BY <2>1, <2>2
<1>2. [d \in Calls |-> Fate(d)]' = [d \in Calls |-> Fate(d)]
  BY <1>1
<1>3. UNCHANGED <<deadGeneration, ~ShuttingDown, queue, [d \in Calls |-> Fate(d)], generation>>
  BY <1>2 DEF ShuttingDown
<1>4. QED
  BY <1>3 DEF Contract!vars

(***************************************************************************)
(* A call that returns without having reached a process was refused.       *)
(***************************************************************************)
LEMMA RefusedInTurn ==
    ASSUME IInv, NEW c \in Calls, NEW from \in {"queued", "waiting", "joined"},
           HasTurn(c, from), NEW m \in Messages, Return(c, m),
           \A d \in Calls : ticket'[d] = ticket[d], shut' = shut, MayDie
    PROVE  [Contract!Next]_Contract!vars
<1>1. /\ from \in Pending /\ from # "sending" /\ pc[c] = from
  BY DEF Pending, HasTurn
<1>2. /\ Fate(c) = "waiting" /\ Contract!Leaves(c, {Fate(c)}, Fate(c)')
  BY <1>1, ReturnLeaves
<1>3. Fate(c)' = "refused"
  <2>1. ~Reached(c)
    BY <1>1 DEF IInv, GenOK
  <2>2. pc'[c] = "done" /\ ~Reached(c)'
    BY <2>1 DEF Return, Reached, IInv, TypeOK
  <2>3. QED
    BY <2>2 DEF Fate, Reached
<1>4. Contract!Refuse(c)
  BY <1>2, <1>3 DEF Contract!Refuse, MayDie
<1>5. QED
  BY <1>4 DEF Contract!Next

(***************************************************************************)
(* So was the call an attempt failed for.                                  *)
(***************************************************************************)
LEMMA RejectMaps ==
    ASSUME IInv, NEW v \in Messages, AttemptRejects(v),
           \A d \in Calls : ticket'[d] = ticket[d], shut' = shut, MayDie
    PROVE  [Contract!Next]_Contract!vars
<1>1. CASE \E c \in Calls : Waiting(c)
  <2>1. PICK c \in Calls : Waiting(c) /\ Return(c, v)
    BY <1>1 DEF AttemptRejects
  <2>2. QED
    BY <2>1, RefusedInTurn DEF Waiting
<1>2. CASE ~\E c \in Calls : Waiting(c)
  <2>1. UNCHANGED callVars
    BY <1>2 DEF AttemptRejects
  <2>2. QED
    BY <2>1, QuietSteps
<1>3. QED
  BY <1>1, <1>2

(***************************************************************************)
(* The steps of the calls.                                                 *)
(***************************************************************************)
LEMMA CallMaps ==
    ASSUME IInv, NEW c \in Calls, Issue(c) \/ CallStep(c)
    PROVE  [Contract!Next]_Contract!vars
<1> USE DEF IInv
<1>1. CASE Issue(c)
  <2>1. /\ pc[c] = "unissued" /\ pc'[c] = "queued"
        /\ \A d \in Calls : d # c => pc'[d] = pc[d]
        /\ generation' = [generation EXCEPT ![c] = deadGeneration]
        /\ queue' = Append(queue, c) /\ result' = result /\ ticket' = ticket
        /\ deadGeneration' = deadGeneration /\ shut' = shut
    BY <1>1 DEF Issue, TypeOK, lifeVars
  <2>2. \A d \in Calls : d # c => Fate(d)' = Fate(d)
    BY <2>1, FateKept
  <2>3. Fate(c) = "unissued" /\ Fate(c)' = "waiting"
    BY <2>1 DEF Fate, Reached
  <2>4. [d \in Calls |-> Fate(d)]' = [[d \in Calls |-> Fate(d)] EXCEPT ![c] = "waiting"]
    BY <2>2, <2>3
  <2>5. UNCHANGED <<deadGeneration, ~ShuttingDown>>
    BY <2>1 DEF ShuttingDown
  <2>6. Contract!Issue(c)
    BY <2>1, <2>3, <2>4, <2>5 DEF Contract!Issue
  <2>7. QED
    BY <2>6 DEF Contract!Next
<1>2. CASE Refuse(c)
  <2>1. PICK m \in {Told("closed"), stickyError, lastFailure, unobservedStartFailure} :
            Return(c, m)
    BY <1>2 DEF Refuse
  <2>2. m \in Messages
    BY DEF TypeOK, Told, Messages, Kinds
  <2>3. HasTurn(c, "queued") /\ ticket' = ticket /\ shut' = shut
        /\ deadGeneration' = deadGeneration
    BY <1>2 DEF Refuse, lifeVars
  <2>4. QED
    BY <2>1, <2>2, <2>3, RefusedInTurn DEF MayDie
<1>3. CASE Join(c)
  <2>1. /\ HasTurn(c, "queued") /\ pc' = [pc EXCEPT ![c] = "waiting"]
        /\ UNCHANGED <<queue, generation, shut, deadGeneration, result, ticket>>
    BY <1>3 DEF Join, Admitted, lifeVars
  <2>2. pc[c] = "queued" /\ pc'[c] = "waiting" /\ \A d \in Calls : d # c => pc'[d] = pc[d]
    BY <2>1 DEF HasTurn, TypeOK
  <2>3. QED
    BY <2>1, <2>2, WaitsOn
<1>4. CASE Start(c)
  <2>1. HasTurn(c, "queued") /\ ticket' = ticket /\ shut' = shut /\ pc[c] = "queued"
    BY <1>4 DEF Start, Admitted, HasTurn
  <2>2. CASE /\ pc' = [pc EXCEPT ![c] = "waiting"]
             /\ UNCHANGED <<queue, result, generation, deadGeneration>>
    <3>1. pc'[c] = "waiting" /\ \A d \in Calls : d # c => pc'[d] = pc[d]
      BY <2>2 DEF TypeOK
    <3>2. QED
      BY <2>1, <2>2, <3>1, WaitsOn
  <2>3. CASE \E failure \in NotLaunchedReasons(starts') :
                /\ NotLaunched(starts', failure[1], failure[2])
                /\ Return(c, failure[1])
    <3>1. PICK failure \in NotLaunchedReasons(starts') :
               /\ NotLaunched(starts', failure[1], failure[2])
               /\ Return(c, failure[1])
      BY <2>3
    <3>2. starts' \in Nat
      BY <1>4 DEF Start, TypeOK, Numbers
    <3>3. failure[1] \in Messages /\ MayDie
      BY <3>1, <3>2, ReasonFacts DEF NotLaunched, MayDie
    <3>4. QED
      BY <2>1, <3>1, <3>3, RefusedInTurn
  <2>4. QED
    BY <1>4, <2>2, <2>3 DEF Start, Launched, lifeVars
<1>5. CASE GiveUp(c)
  <2>1. HasTurn(c, "waiting") /\ Return(c, Told("starting")) /\ ticket' = ticket /\ shut' = shut
        /\ deadGeneration' = deadGeneration
    BY <1>5 DEF GiveUp, Waiting, lifeVars
  <2>2. Told("starting") \in Messages
    BY DEF Told, Messages, Kinds
  <2>3. QED
    BY <2>1, <2>2, RefusedInTurn DEF MayDie
<1>6. CASE Send(c)
  <2>1. PICK from \in {"joined", "queued"} : HasTurn(c, from)
    BY <1>6 DEF Send, Admitted
  <2>2. state = "ready" /\ ~ShuttingDown /\ shut' = shut
    BY <1>6 DEF Send, Admitted, TurnOK, Open
  <2>3. generation[c] = deadGeneration
    BY <2>1, <2>2, TurnFacts DEF GenOK, AllNow
  <2>4. c \in Senders /\ proc \in Numbers /\ proc # 0
    BY <2>2 DEF Senders, PhaseOK, TypeOK, Numbers
  <2>5. /\ ticket'[c].proc = proc
        /\ \A d \in Calls : d # c => ticket'[d] = ticket[d]
    BY <1>6, <2>4 DEF Send, WriteRequest, TypeOK, Senders
  <2>6. ticket'[c] # NoTicket
    BY <2>4, <2>5 DEF NoTicket
  <2>7. pc[c] = from /\ from \in Pending
    BY <2>1 DEF HasTurn, Pending
  <2>8. Fate(c) = "waiting"
    BY <2>7 DEF Fate, Reached
  <2>9. CASE MarkDead(Told("restarted")) /\ Return(c, Told("restarted"))
    <3>1. Told("restarted") \in Messages /\ Told("restarted").kind = "restarted"
      BY DEF Told, Messages, Kinds
    <3>2. Contract!Leaves(c, {Fate(c)}, Fate(c)')
      BY <2>1, <2>2, <2>5, <2>7, <2>9, <3>1, ReturnLeaves
    <3>3. Fate(c)' = "lost"
      <4>1. pc'[c] = "done" /\ result'[c] = Told("restarted") /\ Reached(c)'
        BY <2>6, <2>9 DEF Return, TypeOK, Reached
      <4>2. QED
        BY <3>1, <4>1 DEF Fate, Reached
    <3>4. deadGeneration' = deadGeneration + 1
      BY <2>2, <2>9 DEF MarkDead
    <3>5. Contract!Leaves(c, {"waiting", "running"}, "lost")
      BY <2>8, <3>2, <3>3 DEF Contract!Leaves
    <3>6. Contract!Lose(c)
      BY <3>4, <3>5 DEF Contract!Lose
    <3>7. QED
      BY <3>6 DEF Contract!Next
  <2>10. CASE /\ pc' = [pc EXCEPT ![c] = "sending"]
              /\ UNCHANGED <<queue, result, generation, state, deadGeneration, lastFailure>>
    <3>1. pc'[c] = "sending" /\ \A d \in Calls : d # c => pc'[d] = pc[d] /\ result'[d] = result[d]
      BY <2>10 DEF TypeOK
    <3>2. Fate(c)' = "running" /\ \A d \in Calls : d # c => Fate(d)' = Fate(d)
      <4>1. Fate(c)' = "running"
        BY <3>1 DEF Fate, Reached
      <4>2. QED
        BY <2>5, <3>1, <4>1, FateKept
    <3>3. [d \in Calls |-> Fate(d)]' = [[d \in Calls |-> Fate(d)] EXCEPT ![c] = "running"]
      BY <3>2
    <3>4. queue # <<>> /\ c = Head(queue)
      BY <2>1 DEF HasTurn
    <3>5. UNCHANGED <<deadGeneration, ~ShuttingDown, queue, generation>> /\ ~ShuttingDown
      BY <2>2, <2>10 DEF ShuttingDown
    <3>6. Contract!Run(c)
      BY <2>3, <2>8, <3>3, <3>4, <3>5 DEF Contract!Run
    <3>7. QED
      BY <3>6 DEF Contract!Next
  <2>11. QED
    BY <1>6, <2>9, <2>10 DEF Send
<1>7. ASSUME HasTurn(c, "sending"), NEW m \in Messages, Return(c, m), ticket' = ticket,
             shut' = shut
      PROVE  /\ Fate(c) = "running" /\ Contract!Leaves(c, {"running"}, Fate(c)')
             /\ Fate(c)' = (IF m.kind \in {"restarted", "timeout"} THEN "lost" ELSE "answered")
  <2>1. "sending" \in Pending
    BY DEF Pending
  <2>2. Fate(c) = "running" /\ Contract!Leaves(c, {Fate(c)}, Fate(c)')
    BY <1>7, <2>1, ReturnLeaves
  <2>3. pc'[c] = "done" /\ result'[c] = m /\ Reached(c)'
    BY <1>7 DEF Return, TypeOK, TurnOK, Reached
  <2>4. QED
    BY <2>2, <2>3 DEF Fate, Reached
<1>8. CASE Answered(c)
  <2>1. PICK r \in Response(c) :
         \/ Return(c, Told("lostimage"))
         \/ Return(c, Told(r.says))
         \/ Return(c, Told("failed"))
    BY <1>8 DEF Answered
  <2>2. r.says \in {"ok", "noimage"}
    BY DEF Response, FileOK
  <2>3. PICK k \in {"ok", "noimage", "lostimage", "failed"} : Return(c, Told(k))
    BY <2>1, <2>2
  <2>4. Told(k) \in Messages /\ Told(k).kind = k
    BY DEF Told, Messages, Kinds
  <2>5. HasTurn(c, "sending") /\ ticket' = ticket /\ shut' = shut /\ deadGeneration' = deadGeneration
    BY <1>8 DEF Answered, lifeVars
  <2>6. Contract!Leaves(c, {"running"}, "answered")
    BY <1>7, <2>3, <2>4, <2>5
  <2>7. Contract!Answer(c)
    BY <2>5, <2>6 DEF Contract!Answer
  <2>8. QED
    BY <2>7 DEF Contract!Next
<1>9. CASE Lost(c) \/ TimesOut(c)
  <2>1. PICK k \in {"restarted", "timeout"} : Return(c, Told(k))
    BY <1>9 DEF Lost, TimesOut
  <2>2. Told(k) \in Messages /\ Told(k).kind = k
    BY DEF Told, Messages, Kinds
  <2>3. HasTurn(c, "sending") /\ ticket' = ticket /\ shut' = shut /\ DeadUnlessShuttingDown
    BY <1>9 DEF Lost, TimesOut
  <2>4. Contract!Leaves(c, {"running"}, "lost")
    BY <1>7, <2>1, <2>2, <2>3
  <2>5. MayDie
    BY <2>3 DEF DeadUnlessShuttingDown, MarkDead, MayDie
  <2>6. Contract!Leaves(c, {"waiting", "running"}, "lost")
    BY <2>4 DEF Contract!Leaves
  <2>7. Contract!Lose(c)
    BY <2>5, <2>6 DEF Contract!Lose, MayDie
  <2>8. QED
    BY <2>7 DEF Contract!Next
<1>10. QED
  BY <1>1, <1>2, <1>3, <1>4, <1>5, <1>6, <1>8, <1>9 DEF CallStep

(***************************************************************************)
(* The steps of an attempt: a failed one refuses the call that waited, and *)
(* one that succeeds is not seen.                                          *)
(***************************************************************************)
LEMMA AttemptMaps ==
    ASSUME IInv, AttemptStep
    PROVE  [Contract!Next]_Contract!vars
<1> USE DEF IInv
<1>1. shut' = shut /\ \A d \in Calls : d \in Senders /\ d # Ping
  BY PingAssumption
     DEF AttemptStep, StaleGone, BootFails, BootSucceeds, PingFails, PingAnswered, Senders
<1>2. Told("closed") \in Messages
  BY DEF Told, Messages, Kinds
<1>3. ASSUME AttemptRejects(Told("closed")), ticket' = ticket, UNCHANGED lifeVars
      PROVE  [Contract!Next]_Contract!vars
  BY <1>1, <1>2, <1>3, RejectMaps DEF MayDie, lifeVars
<1>4. ASSUME NEW why, NEW v \in Messages, AttemptFails(why, v), ticket' = ticket
      PROVE  [Contract!Next]_Contract!vars
  <2>1. CASE Open
    <3>1. MarkDead(why) /\ AttemptRejects(v)
      BY <1>4, <2>1 DEF AttemptFails
    <3>2. MayDie
      BY <3>1 DEF MarkDead, MayDie
    <3>3. QED
      BY <1>1, <1>4, <3>1, <3>2, RejectMaps
  <2>2. CASE ~Open
    BY <1>3, <1>4, <2>2 DEF AttemptFails
  <2>3. QED
    BY <2>1, <2>2
<1>5. ASSUME UNCHANGED callVars, \A d \in Calls : ticket'[d] = ticket[d],
             deadGeneration' = deadGeneration
      PROVE  [Contract!Next]_Contract!vars
  BY <1>1, <1>5, QuietSteps DEF MayDie
<1>6. CASE StaleGone
  <2>1. ticket' = ticket
    BY <1>6 DEF StaleGone
  <2>2. CASE AttemptRejects(Told("closed")) /\ UNCHANGED lifeVars
    BY <1>3, <2>1, <2>2
  <2>3. CASE Launched(starts) /\ UNCHANGED callVars
    BY <1>5, <2>1, <2>3 DEF Launched
  <2>4. CASE \E failure \in NotLaunchedReasons(starts) :
                /\ NotLaunched(starts, failure[1], failure[2])
                /\ AttemptRejects(failure[1])
    <3>1. PICK failure \in NotLaunchedReasons(starts) :
                /\ NotLaunched(starts, failure[1], failure[2])
                /\ AttemptRejects(failure[1])
      BY <2>4
    <3>2. starts \in Nat
      BY DEF TypeOK, Numbers
    <3>3. failure[1] \in Messages /\ MayDie
      BY <3>1, <3>2, ReasonFacts DEF NotLaunched, MayDie
    <3>4. QED
      BY <1>1, <2>1, <3>1, <3>3, RejectMaps
  <2>5. QED
    BY <1>6, <2>2, <2>3, <2>4 DEF StaleGone
<1>7. CASE BootFails
  <2>1. CASE AttemptFails(lastFailure, lastFailure)
    BY <1>4, <1>7, <2>1 DEF BootFails, TypeOK
  <2>2. CASE \E kind \in {"start", "sticky"} :
                AttemptFails(Failed(kind, starts), Failed(kind, starts))
    BY <1>4, <1>7, <2>2, VerdictFacts DEF BootFails
  <2>3. QED
    BY <1>7, <2>1, <2>2 DEF BootFails
<1>8. CASE BootSucceeds
  <2>1. CASE AttemptRejects(Told("closed")) /\ UNCHANGED <<lifeVars, ticket>>
    BY <1>3, <2>1
  <2>2. CASE AttemptFails(Told("restarted"), Failed("restarted", starts)) /\ ticket' = ticket
    BY <1>4, <2>2, VerdictFacts
  <2>3. CASE WriteRequest(Ping) /\ UNCHANGED <<lifeVars, callVars>>
    <3>1. \A d \in Calls : ticket'[d] = ticket[d]
      BY <1>1, <2>3 DEF WriteRequest, TypeOK
    <3>2. QED
      BY <1>5, <2>3, <3>1 DEF lifeVars
  <2>4. QED
    BY <1>8, <2>1, <2>2, <2>3 DEF BootSucceeds
<1>9. CASE PingFails
  <2>1. ticket' = ticket
    BY <1>9 DEF PingFails
  <2>2. CASE \E k \in {"restarted", "timeout"} :
                AttemptFails(Told("restarted"), Failed(k, starts))
    BY <1>4, <2>1, <2>2, VerdictFacts
  <2>3. CASE AttemptFails(Failed("failed", starts), Failed("failed", starts))
    BY <1>4, <2>1, <2>3, VerdictFacts
  <2>4. CASE AttemptRejects(Told("closed")) /\ UNCHANGED lifeVars
    BY <1>3, <2>1, <2>4
  <2>5. QED
    BY <1>9, <2>2, <2>3, <2>4 DEF PingFails
<1>10. CASE PingAnswered
  <2>1. ticket' = ticket
    BY <1>10 DEF PingAnswered
  <2>2. CASE AttemptRejects(Told("closed")) /\ UNCHANGED lifeVars
    BY <1>3, <2>1, <2>2
  <2>3. CASE AttemptFails(Failed("sticky", starts), Failed("sticky", starts))
    BY <1>4, <2>1, <2>3, VerdictFacts
  <2>4. CASE /\ pc' = [c \in Calls |-> IF Waiting(c) THEN "joined" ELSE pc[c]]
             /\ UNCHANGED <<deadGeneration, queue, result, generation>>
    <3>1. \A d \in Calls : pc'[d] = pc[d] \/ (pc[d] = "waiting" /\ pc'[d] = "joined")
      BY <2>4 DEF Waiting, HasTurn
    <3>2. QED
      BY <1>1, <2>1, <2>4, <3>1, WaitsOn
  <2>5. QED
    BY <1>10, <2>2, <2>3, <2>4 DEF PingAnswered
<1>11. QED
  BY <1>6, <1>7, <1>8, <1>9, <1>10 DEF AttemptStep

(***************************************************************************)
(* The other steps: a death, the shutdown, or nothing.                     *)
(***************************************************************************)
LEMMA OtherMaps ==
    ASSUME IInv, Shutdown \/ ShutdownStep \/ \E p \in Numbers : ProcessStep(p)
    PROVE  [Contract!Next]_Contract!vars
<1>1. UNCHANGED callVars /\ ticket' = ticket
  BY DEF Shutdown, ShutdownStep, GraceEnds, KillConfirmed, ProcessStep, Boots, Serves, Ends,
         ExitEvent, ErrorEvent
<1>2. CASE \E p \in Numbers : ProcessStep(p)
  <2>1. PICK p \in Numbers : ProcessStep(p)
    BY <1>2
  <2>2. shut' = shut
    BY <2>1 DEF ProcessStep, Boots, Serves, Ends, ExitEvent, ErrorEvent
  <2>3. MayDie
    BY <2>1 DEF ProcessStep, Boots, Serves, Ends, ExitEvent, ErrorEvent, MarkDead, MayDie, lifeVars
  <2>4. QED
    BY <1>1, <2>2, <2>3, QuietSteps
<1>3. CASE Shutdown \/ ShutdownStep
  <2>1. /\ deadGeneration' = deadGeneration /\ ShuttingDown'
        /\ queue' = queue /\ pc' = pc /\ result' = result /\ generation' = generation
    BY <1>1, <1>3 DEF Shutdown, ShutdownStep, GraceEnds, KillConfirmed, Close, lifeVars,
                      ShuttingDown, callVars
  <2>2. \A d \in Calls : Fate(d)' = Fate(d)
    BY <1>1, <2>1, FateKept
  <2>3. [d \in Calls |-> Fate(d)]' = [d \in Calls |-> Fate(d)]
    BY <2>2
  <2>4. (~ShuttingDown)' = FALSE
    BY <2>1
  <2>5. Contract!Close
    BY <2>1, <2>3, <2>4 DEF Contract!Close
  <2>6. QED
    BY <2>5 DEF Contract!Next
<1>4. QED
  BY <1>2, <1>3

(***************************************************************************)
(* The session keeps the contract of SessionContract: calls are taken one  *)
(* at a time in the order they were issued, each is run once at most, and  *)
(* in no later generation than its own.                                    *)
(***************************************************************************)
THEOREM ContractIsKept == Spec => KeepsContract
<1>1. Init => Contract!Init
  <2> SUFFICES ASSUME Init PROVE Contract!Init
    OBVIOUS
  <2>1. \A c \in Calls : Fate(c) = "unissued"
    BY FateFacts DEF Init
  <2>2. QED
    BY <2>1 DEF Init, Contract!Init, ShuttingDown
<1>2. IInv /\ [Next]_vars => [Contract!Next]_Contract!vars
  <2> SUFFICES ASSUME IInv, [Next]_vars PROVE [Contract!Next]_Contract!vars
    OBVIOUS
  <2>1. CASE UNCHANGED vars
    <3>1. /\ UNCHANGED callVars /\ ticket' = ticket /\ shut' = shut
          /\ deadGeneration' = deadGeneration
      BY <2>1 DEF vars, lifeVars
    <3>2. QED
      BY <3>1, QuietSteps DEF MayDie
  <2>2. CASE \E c \in Calls : Issue(c) \/ CallStep(c)
    BY <2>2, CallMaps
  <2>3. CASE AttemptStep
    BY <2>3, AttemptMaps
  <2>4. CASE Shutdown \/ ShutdownStep \/ \E p \in Numbers : ProcessStep(p)
    BY <2>4, OtherMaps
  <2>5. QED
    BY <2>1, <2>2, <2>3, <2>4 DEF Next
<1>3. QED
  BY <1>1, <1>2, Invariant, PTL DEF Spec, KeepsContract, Contract!Spec

-----------------------------------------------------------------------------
(* The backend over the session *)

(***************************************************************************)
(* A backend without a session has not touched one, and the session's      *)
(* shutdown is the backend's; the session knows the calls it was given.    *)
(***************************************************************************)
LinkOK ==
    /\ ~made => starts = 0 /\ queue = <<>> /\ shut = "no"
    /\ ShuttingDown <=> closed /\ made
    /\ \A c \in Calls : at[c] = "session" <=> pc[c] # "unissued"

(***************************************************************************)
(* Nobody searches while a search is still owed; and when it is not, only  *)
(* somebody who is searching may yet find what there is to be found.       *)
(***************************************************************************)
SearchOK ==
    /\ redetectPending => ~installInfo /\ \A c \in Calls : at[c] # "searching"
    /\ IsThere /\ ~installInfo /\ ~redetectPending => \E c \in Calls : at[c] = "searching"
    /\ RefusalsAreReal

BInv == BackendTypeOK /\ LinkOK /\ SearchOK

(***************************************************************************)
(* What the session does by itself.                                        *)
(***************************************************************************)
OwnStep ==
    \/ \E c \in Calls : CallStep(c)
    \/ AttemptStep
    \/ ShutdownStep
    \/ \E p \in Numbers : ProcessStep(p)

(***************************************************************************)
(* To the session a step of the backend is a new call, its shutdown, a     *)
(* step of its own, or nothing.                                            *)
(***************************************************************************)
LEMMA BackendCases ==
    ASSUME BackendNext
    PROVE  \/ \E c \in Calls : \/ Ask(c) /\ (Issue(c) \/ UNCHANGED vars)
                               \/ SearchEnds(c) /\ (Issue(c) \/ UNCHANGED vars)
           \/ BackendShutdown /\ (Shutdown \/ UNCHANGED vars)
           \/ SessionStep(OwnStep)
<1>1. ASSUME NEW c \in Calls, Proceeds(c) PROVE Issue(c) \/ UNCHANGED vars
  BY <1>1 DEF Proceeds, Refused
<1>2. ASSUME NEW c \in Calls, Ask(c) PROVE Issue(c) \/ UNCHANGED vars
  BY <1>1, <1>2 DEF Ask
<1>3. ASSUME NEW c \in Calls, SearchEnds(c) PROVE Issue(c) \/ UNCHANGED vars
  BY <1>1, <1>3 DEF SearchEnds
<1>4. ASSUME BackendShutdown PROVE Shutdown \/ UNCHANGED vars
  BY <1>4 DEF BackendShutdown
<1>5. ASSUME \/ \E c \in Calls : SessionStep(CallStep(c))
             \/ SessionStep(AttemptStep)
             \/ SessionStep(ShutdownStep)
             \/ \E p \in Numbers : SessionStep(ProcessStep(p))
      PROVE  SessionStep(OwnStep)
  BY <1>5 DEF SessionStep, OwnStep
<1>6. QED
  BY <1>2, <1>3, <1>4, <1>5 DEF BackendNext

(***************************************************************************)
(* What the session does by itself is a step of it.                        *)
(***************************************************************************)
LEMMA OwnStepIsNext ==
    ASSUME OwnStep
    PROVE  Next
BY DEF OwnStep, Next

(***************************************************************************)
(* So a step of the backend is one of the session, or no step of it.       *)
(***************************************************************************)
LEMMA BackendStepsAreSteps ==
    ASSUME [BackendNext]_allVars
    PROVE  [Next]_vars
<1>1. CASE UNCHANGED allVars
  BY <1>1 DEF allVars
<1>2. CASE BackendNext
  BY <1>2, BackendCases, OwnStepIsNext DEF Next, SessionStep
<1>3. QED
  BY <1>1, <1>2

(***************************************************************************)
(* The backend does with its session only what a session allows: whatever  *)
(* is proved of GimpSession holds behind the backend.                      *)
(***************************************************************************)
THEOREM BackendUsesTheSession == BackendSpec => Spec
<1>1. BackendInit => Init
  BY DEF BackendInit
<1>2. [BackendNext]_allVars => [Next]_vars
  BY BackendStepsAreSteps
<1>3. QED
  BY <1>1, <1>2, PTL DEF BackendSpec, Spec

(***************************************************************************)
(* The session by itself issues no call.                                   *)
(***************************************************************************)
LEMMA OwnCalls ==
    ASSUME IInv, OwnStep
    PROVE  \A c \in Calls : pc'[c] = "unissued" <=> pc[c] = "unissued"
<1> USE DEF IInv
<1>1. ASSUME NEW c \in Calls, NEW m, Return(c, m), pc[c] # "unissued"
      PROVE  \A d \in Calls : pc'[d] = "unissued" <=> pc[d] = "unissued"
  BY <1>1 DEF Return, TypeOK
<1>2. ASSUME NEW c \in Calls, CallStep(c)
      PROVE  \A d \in Calls : pc'[d] = "unissued" <=> pc[d] = "unissued"
  <2>1. \A place : HasTurn(c, place) => pc[c] = place
    BY DEF HasTurn
  <2>2. CASE \E m : Return(c, m)
    <3>1. pc[c] # "unissued"
      BY <1>2, <2>1, <2>2 DEF CallStep, Refuse, Join, Admitted, Start, GiveUp, Waiting, Send,
                             Answered, Lost, TimesOut
    <3>2. QED
      BY <1>1, <2>2, <3>1
  <2>3. CASE \E to \in {"waiting", "sending"} : pc' = [pc EXCEPT ![c] = to]
    <3>1. pc[c] # "unissued"
      BY <1>2, <2>1 DEF CallStep, Refuse, Join, Admitted, Start, GiveUp, Waiting, Send,
                       Answered, Lost, TimesOut
    <3>2. QED
      BY <2>3, <3>1 DEF TypeOK
  <2>4. (\E m : Return(c, m)) \/ (\E to \in {"waiting", "sending"} : pc' = [pc EXCEPT ![c] = to])
    <3>1. CASE Refuse(c) \/ GiveUp(c) \/ Lost(c) \/ TimesOut(c)
      BY <3>1 DEF Refuse, GiveUp, Lost, TimesOut
    <3>2. CASE Answered(c)
      BY <3>2 DEF Answered
    <3>3. CASE Join(c) \/ Start(c)
      BY <3>3 DEF Join, Start
    <3>4. CASE Send(c)
      BY <3>4 DEF Send
    <3>5. QED
      BY <1>2, <3>1, <3>2, <3>3, <3>4 DEF CallStep
  <2>5. QED
    BY <2>2, <2>3, <2>4
<1>3. ASSUME NEW why, AttemptRejects(why)
      PROVE  \A d \in Calls : pc'[d] = "unissued" <=> pc[d] = "unissued"
  <2>1. CASE UNCHANGED callVars
    BY <2>1 DEF callVars
  <2>2. CASE \E c \in Calls : Waiting(c) /\ Return(c, why)
    BY <1>1, <2>2 DEF Waiting, HasTurn
  <2>3. QED
    BY <1>3, <2>1, <2>2 DEF AttemptRejects
<1>4. ASSUME AttemptStep
      PROVE  \A d \in Calls : pc'[d] = "unissued" <=> pc[d] = "unissued"
  <2>1. CASE \E why : AttemptRejects(why)
    BY <1>3, <2>1
  <2>2. CASE UNCHANGED callVars
    BY <2>2 DEF callVars
  <2>3. CASE pc' = [c \in Calls |-> IF Waiting(c) THEN "joined" ELSE pc[c]]
    BY <2>3 DEF Waiting, HasTurn
  <2>4. \A why, verdict : AttemptFails(why, verdict) => \E v : AttemptRejects(v)
    BY DEF AttemptFails
  <2>5. QED
    BY <1>4, <2>1, <2>2, <2>3, <2>4
       DEF AttemptStep, StaleGone, BootFails, BootSucceeds, PingFails, PingAnswered
<1>5. ASSUME ShutdownStep \/ \E p \in Numbers : ProcessStep(p)
      PROVE  UNCHANGED callVars
  BY <1>5 DEF ShutdownStep, GraceEnds, KillConfirmed, ProcessStep, Boots, Serves, Ends,
              ExitEvent, ErrorEvent
<1>6. QED
  BY <1>2, <1>4, <1>5 DEF OwnStep, callVars

(***************************************************************************)
(* Nor does it begin its shutdown, or end it.                              *)
(***************************************************************************)
LEMMA OwnShutdown ==
    ASSUME OwnStep
    PROVE  ShuttingDown' <=> ShuttingDown
<1>1. ASSUME NEW c \in Calls, CallStep(c) PROVE shut' = shut
  BY <1>1 DEF CallStep, Refuse, Join, Start, GiveUp, Send, Answered, Lost, TimesOut
<1>2. ASSUME AttemptStep PROVE shut' = shut
  BY <1>2 DEF AttemptStep, StaleGone, BootFails, BootSucceeds, PingFails, PingAnswered
<1>3. ASSUME NEW p \in Numbers, ProcessStep(p) PROVE shut' = shut
  BY <1>3 DEF ProcessStep, Boots, Serves, Ends, ExitEvent, ErrorEvent
<1>4. ASSUME ShutdownStep PROVE shut # "no" /\ shut' # "no"
  BY <1>4 DEF ShutdownStep, GraceEnds, KillConfirmed, Close
<1>5. QED
  BY <1>1, <1>2, <1>3, <1>4 DEF OwnStep, ShuttingDown

(***************************************************************************)
(* Before its first call it does nothing.                                  *)
(***************************************************************************)
LEMMA OwnNeedsUse ==
    ASSUME IInv, OwnStep
    PROVE  starts # 0 \/ queue # <<>> \/ shut # "no"
<1> USE DEF IInv
<1>1. ASSUME NEW c \in Calls, CallStep(c) PROVE queue # <<>>
  BY <1>1 DEF CallStep, Refuse, Join, Admitted, Start, GiveUp, Waiting, Send, Answered, Lost,
              TimesOut, HasTurn
<1>2. ASSUME AttemptStep PROVE starts # 0
  BY <1>2 DEF AttemptStep, StaleGone, BootFails, BootSucceeds, PingFails, PingAnswered, PhaseOK
<1>3. ASSUME ShutdownStep PROVE shut # "no"
  BY <1>3 DEF ShutdownStep, GraceEnds, KillConfirmed
<1>4. ASSUME NEW p \in Numbers, ProcessStep(p) PROVE starts # 0
  <2>1. process[p] # "none"
    BY <1>4 DEF ProcessStep, Boots, Serves, Ends, ExitEvent, ErrorEvent, Lives
  <2>2. ~(p > starts) /\ p \in Nat /\ p # 0
    BY <2>1 DEF ProcOK, Numbers
  <2>3. QED
    BY <2>2
<1>5. QED
  BY <1>1, <1>2, <1>3, <1>4 DEF OwnStep

(***************************************************************************)
(* A call that proceeds is refused for a reason there is, or given to a    *)
(* session that is there by then.                                          *)
(***************************************************************************)
LEMMA ProceedsFacts ==
    ASSUME IInv, BInv, NEW c \in Calls, at[c] # "session", Proceeds(c),
           installInfo' \in BOOLEAN
    PROVE  /\ at' \in [Calls -> {"unasked", "searching", "session"} \cup Refusals]
           /\ made' \in BOOLEAN /\ (made => made')
           /\ at'[c] \in {"session"} \cup Refusals
           /\ at'[c] = "not_installed" => ~installInfo'
           /\ \A d \in Calls : d # c => at'[d] = at[d]
           /\ ~made' => starts' = 0 /\ queue' = <<>> /\ shut' = "no"
           /\ shut' = shut
           /\ closed /\ made' => made
           /\ \A d \in Calls : at'[d] = "session" <=> pc'[d] # "unissued"
<1> USE DEF BInv, BackendTypeOK, LinkOK, Refusals
<1>1. ASSUME NEW why \in Refusals, Refused(c, why)
      PROVE  /\ at' \in [Calls -> {"unasked", "searching", "session"} \cup Refusals]
             /\ at'[c] = why
             /\ \A d \in Calls : d # c => at'[d] = at[d]
             /\ UNCHANGED <<starts, queue, shut, pc>>
             /\ \A d \in Calls : at'[d] = "session" <=> pc'[d] # "unissued"
  <2>1. UNCHANGED <<starts, queue, shut, pc>>
    BY <1>1 DEF Refused, vars, startVars, callVars
  <2>2. at' = [at EXCEPT ![c] = why]
    BY <1>1 DEF Refused
  <2>3. QED
    BY <2>1, <2>2
<1>2. CASE Refused(c, "over_budget") /\ made' \in {made, made \/ HasSession}
  BY <1>1, <1>2 DEF HasSession
<1>3. CASE closed /\ Refused(c, "closed") /\ UNCHANGED made
  BY <1>1, <1>3
<1>4. CASE ~closed /\ ~installInfo' /\ Refused(c, "not_installed") /\ UNCHANGED made
  BY <1>1, <1>4
<1>5. CASE HasSession /\ made' = TRUE /\ at' = [at EXCEPT ![c] = "session"] /\ Issue(c)
  <2>1. shut' = shut /\ pc' = [pc EXCEPT ![c] = "queued"] /\ ~closed
    BY <1>5 DEF Issue, HasSession
  <2>2. /\ pc'[c] = "queued" /\ at'[c] = "session"
        /\ \A d \in Calls : d # c => pc'[d] = pc[d] /\ at'[d] = at[d]
    BY <1>5, <2>1 DEF IInv, TypeOK
  <2>3. QED
    BY <1>5, <2>1, <2>2
<1>6. QED
  BY <1>2, <1>3, <1>4, <1>5 DEF Proceeds

(***************************************************************************)
(* The call that begins the owed search, and those that go on at once.     *)
(***************************************************************************)
LEMMA AskKeeps ==
    ASSUME IInv, BInv, NEW c \in Calls, Ask(c)
    PROVE  BInv'
<1> USE DEF BInv, BackendTypeOK, LinkOK, SearchOK, RefusalsAreReal, IsThere
<1>1. at[c] = "unasked" /\ UNCHANGED <<there, pathGiven, closed>>
  BY DEF Ask, machineVars
<1>2. CASE redetectPending
  <2>1. /\ redetectPending' = FALSE /\ at' = [at EXCEPT ![c] = "searching"]
        /\ UNCHANGED <<installInfo, made, overtaken, starts, queue, shut, pc>>
    BY <1>2 DEF Ask, vars, startVars, callVars
  <2>2. at'[c] = "searching" /\ \A d \in Calls : d # c => at'[d] = at[d]
    BY <2>1
  <2>3. QED
    BY <1>1, <1>2, <2>1, <2>2 DEF ShuttingDown
<1>3. CASE ~redetectPending
  <2>1. /\ UNCHANGED <<installInfo, redetectPending>> /\ Proceeds(c)
        /\ overtaken' = IF \E d \in Calls : at[d] = "searching"
                        THEN overtaken \cup {c} ELSE overtaken
    BY <1>3 DEF Ask, searchVars
  <2>2. BackendTypeOK'
    BY <1>1, <2>1, ProceedsFacts
  <2>3. LinkOK'
    BY <1>1, <2>1, ProceedsFacts DEF ShuttingDown
  <2>4. IsThere' /\ ~installInfo' => \E d \in Calls : at'[d] = "searching"
    BY <1>1, <1>3, <2>1, ProceedsFacts
  <2>5. ASSUME NEW d \in Calls, at'[d] = "not_installed"
        PROVE  ~IsThere' \/ d \in overtaken'
    <3>1. CASE d # c
      BY <1>1, <2>1, <2>5, <3>1, ProceedsFacts
    <3>2. CASE d = c
      <4>1. ~installInfo
        BY <1>1, <2>1, <2>5, <3>2, ProceedsFacts
      <4>2. QED
        BY <1>1, <1>3, <2>1, <3>2, <4>1
    <3>3. QED
      BY <3>1, <3>2
  <2>6. SearchOK'
    BY <1>3, <2>1, <2>4, <2>5
  <2>7. QED
    BY <2>2, <2>3, <2>6
<1>4. QED
  BY <1>2, <1>3

(***************************************************************************)
(* The search ends with what there is.                                     *)
(***************************************************************************)
LEMMA SearchEndsKeeps ==
    ASSUME IInv, BInv, NEW c \in Calls, SearchEnds(c)
    PROVE  BInv'
<1> USE DEF BInv, BackendTypeOK, LinkOK, SearchOK, RefusalsAreReal, IsThere
<1>1. /\ at[c] = "searching" /\ Proceeds(c) /\ installInfo' = IsThere
      /\ UNCHANGED <<there, pathGiven, closed, redetectPending, overtaken>>
  BY DEF SearchEnds, machineVars, Findable
<1>2. installInfo' \in BOOLEAN
  BY <1>1
<1>3. BackendTypeOK'
  BY <1>1, <1>2, ProceedsFacts
<1>4. LinkOK'
  BY <1>1, <1>2, ProceedsFacts DEF ShuttingDown
<1>5. ~redetectPending'
  BY <1>1
<1>6. IsThere' = installInfo'
  BY <1>1
<1>7. ASSUME NEW d \in Calls, at'[d] = "not_installed"
      PROVE  ~IsThere' \/ d \in overtaken'
  <2>1. CASE d = c
    BY <1>1, <1>2, <1>6, <1>7, <2>1, ProceedsFacts
  <2>2. CASE d # c
    <3>1. at[d] = "not_installed"
      BY <1>1, <1>2, <1>7, <2>2, ProceedsFacts
    <3>2. QED
      BY <1>1, <3>1
  <2>3. QED
    BY <2>1, <2>2
<1>8. SearchOK'
  BY <1>5, <1>6, <1>7
<1>9. QED
  BY <1>3, <1>4, <1>8

(***************************************************************************)
(* The shutdown is passed on to the session there is.                      *)
(***************************************************************************)
LEMMA BackendShutdownKeeps ==
    ASSUME IInv, BInv, BackendShutdown
    PROVE  BInv'
<1> USE DEF BInv, BackendTypeOK, LinkOK, SearchOK, RefusalsAreReal, IsThere
<1>1. /\ ~closed /\ closed' = TRUE
      /\ UNCHANGED <<there, pathGiven, installInfo, redetectPending, made, at, overtaken>>
  BY DEF BackendShutdown, machineVars, searchVars
<1>2. CASE made
  <2>1. Shutdown
    BY <1>2 DEF BackendShutdown
  <2>2. pc' = pc /\ shut' # "no"
    BY <2>1 DEF Shutdown, Close, callVars
  <2>3. QED
    BY <1>1, <1>2, <2>2 DEF ShuttingDown
<1>3. CASE ~made
  <2>1. UNCHANGED <<starts, queue, shut, pc>>
    BY <1>3 DEF BackendShutdown, vars, startVars, callVars
  <2>2. QED
    BY <1>1, <1>3, <2>1 DEF ShuttingDown
<1>4. QED
  BY <1>2, <1>3

(***************************************************************************)
(* Every step of the backend keeps its invariant.                          *)
(***************************************************************************)
LEMMA BackendKeeps ==
    ASSUME IInv, BInv, [BackendNext]_allVars
    PROVE  BInv'
<1>1. CASE UNCHANGED allVars
  BY <1>1 DEF allVars, backendVars, machineVars, searchVars, vars, startVars, callVars, BInv,
              BackendTypeOK, LinkOK, SearchOK, RefusalsAreReal, IsThere, ShuttingDown
<1>2. CASE SessionStep(OwnStep)
  <2>1. UNCHANGED <<there, pathGiven, installInfo, redetectPending, made, closed, at, overtaken>>
    BY <1>2 DEF SessionStep, backendVars, machineVars, searchVars
  <2>2. OwnStep
    BY <1>2 DEF SessionStep
  <2>3. BackendTypeOK' /\ SearchOK'
    BY <2>1 DEF BInv, BackendTypeOK, SearchOK, RefusalsAreReal, IsThere
  <2>4. made
    BY <2>2, OwnNeedsUse DEF BInv, LinkOK
  <2>5. LinkOK'
    BY <2>1, <2>2, <2>4, OwnCalls, OwnShutdown DEF BInv, LinkOK
  <2>6. QED
    BY <2>3, <2>5 DEF BInv
<1>3. CASE BackendNext
  BY <1>2, <1>3, BackendCases, AskKeeps, SearchEndsKeeps, BackendShutdownKeeps
<1>4. QED
  BY <1>1, <1>3

(***************************************************************************)
(* The session's invariant and the backend's hold together.                *)
(***************************************************************************)
LEMMA BackendInvariant == BackendSpec => [](IInv /\ BInv)
<1>1. BackendInit => BInv
  BY DEF BackendInit, Init, BInv, BackendTypeOK, LinkOK, SearchOK, RefusalsAreReal, IsThere,
         Findable, ShuttingDown, Refusals
<1>2. IInv /\ BInv /\ [BackendNext]_allVars => BInv'
  BY BackendKeeps
<1>3. BackendSpec => []IInv
  BY BackendUsesTheSession, Invariant, PTL
<1>4. QED
  BY <1>1, <1>2, <1>3, PTL DEF BackendSpec

(***************************************************************************)
(* No call is told that there is no GIMP while there is one, but those     *)
(* that overtook the search (backend.ts: "a real answer").                 *)
(***************************************************************************)
THEOREM NoRushedAnswer == BackendSpec => []RefusalsAreReal
<1>1. BInv => RefusalsAreReal
  BY DEF BInv, SearchOK
<1>2. QED
  BY <1>1, BackendInvariant, PTL

(***************************************************************************)
(* A backend that is closed has no session or has shut it down, and when   *)
(* that is over no process is left that was not killed.                    *)
(***************************************************************************)
THEOREM ClosedIsClosed == BackendSpec => []BackendInv
<1>1. IInv /\ BInv => NothingBehindAClosedBackend
  BY DEF IInv, BInv, LinkOK, ProcOK, NoUnmanagedProcess, NothingBehindAClosedBackend
<1>2. IInv /\ BInv => BackendInv
  BY <1>1 DEF BInv, BackendInv
<1>3. QED
  BY <1>2, BackendInvariant, PTL

=============================================================================
