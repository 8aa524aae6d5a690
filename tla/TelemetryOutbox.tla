-------------------------- MODULE TelemetryOutbox --------------------------
(***************************************************************************)
(* The durable outbox of telemetry: outbox.ts and the delivery half of     *)
(* client.ts.  Server processes share one directory.  A process queues     *)
(* events in memory and flushes them in batches over the network; a batch  *)
(* that cannot be delivered, and whatever is queued at shutdown, is        *)
(* appended to telemetry-outbox.ndjson.  A starting process claims that    *)
(* file, and the claims dead processes have left, by renaming them, sends  *)
(* the events and appends what it could not send to a new outbox.  An      *)
(* append that finds the outbox over its cap compacts it first, claiming   *)
(* it the same way.                                                        *)
(*                                                                         *)
(* Each step is one access to the file system, or what is done between two *)
(* of them; the synchronous code of one process (op) is interleaved with   *)
(* that of the others, and a kill can come between any two steps.  What    *)
(* awaits the network continues when no such code is under way: there is   *)
(* one event loop per process.                                             *)
(*                                                                         *)
(* A file is an identity of its own, as an inode is, so that a writer that *)
(* opened the outbox before it was renamed or deleted still writes there.  *)
(* The usage events stand for all kinds of events; events the content      *)
(* filter refuses and corrupt lines are left out.                          *)
(***************************************************************************)
EXTENDS Naturals, Sequences, Functions

CONSTANTS Processes,    \* process ids, each given out once
          Events,       \* the events that may be recorded, each once
          Files,        \* the identities of files, taken in ascending order
          BatchSize,    \* MAX_BATCH_SIZE
          Cap,          \* MAX_OUTBOX_BYTES: lines beyond which an append compacts
          MaxEvents,    \* MAX_OUTBOX_EVENTS
          Departed,     \* the processes that ended before the behaviour begins
          Left,         \* the events they left in a file
          SlowWriters,  \* whether a step of a sibling can come between the
                        \* opening of a file and the write of an append
          MaxMishaps    \* bound on the number of kills, of answers to a POST
                        \* that are lost and of writes that fail, together

ASSUME OutboxAssumption ==
    /\ Files \subseteq Nat \ {0} /\ 1 \in Files
    /\ {"live", "gone"} \cap Processes = {}
    /\ {BatchSize, MaxEvents} \subseteq Nat \ {0}
    /\ {Cap, MaxMishaps} \subseteq Nat
    /\ SlowWriters \in BOOLEAN
    /\ Departed \subseteq Processes /\ Left \in Seq(Events)
    /\ \A i, j \in DOMAIN Left : Left[i] = Left[j] => i = j

VARIABLES
    running,    \* the pids of running processes
    mem,        \* mem[p]: the memory of process p
    place,      \* place[f]: "live" (the outbox), the pid that claimed f, or "gone"
    lines       \* lines[f]: the events in f, oldest first

\* History, and the counter behind the bound.
VARIABLES
    pids,       \* the pids given out
    recorded,   \* the events recorded
    written,    \* the events appended to the outbox
    forgone,    \* those discarded and counted, and those consent was withdrawn for
    sent,       \* how often the server received each
    doubtful,   \* those whose answer was lost, or whose claim was left half done
    strayed,    \* those written to a claim after its last reading
    mishaps

disk       == <<place, lines>>
ghosts     == <<pids, recorded, written, forgone, sent, doubtful, strayed, mishaps>>
outboxVars == <<running, mem, disk, ghosts>>

Blank == [usage    |-> TRUE,   \* consent, read at boot
          closed   |-> FALSE,  \* shutdown has been called
          queue    |-> <<>>,   \* events recorded and not flushed
          flights  |-> {},     \* batches awaiting the transport
          op       |-> "none", \* the file operation the synchronous code has come to
          batch    |-> <<>>,   \* what the append under way adds
          handle   |-> 0,      \* the file it has opened
          seized   |-> 0,      \* the compaction claim
          mark     |-> 0,      \* the lines read of it
          kept     |-> <<>>,   \* the lines kept of it
          drain    |-> "none", \* the startup drain: none, sending, releasing
          listed   |-> {},     \* abandoned claims not yet taken
          claimed  |-> <<>>,   \* the files the drain has claimed and not read,
          consumed |-> {},     \* read up to a mark,
          carried  |-> {},     \* read to the end
          unsent   |-> <<>>]   \* what it has read and not delivered

Doing(p, op) == p \in running /\ mem[p].op = op
Idle(p) == Doing(p, "none")
Live == {f \in Files : place[f] = "live"}
HeldBy(p) == {f \in Files : place[f] = p}

\* The last n elements of s, the first n, and those after the first n.
Newest(s, n) == IF Len(s) <= n THEN s ELSE SubSeq(s, Len(s) - n + 1, Len(s))
First(s, n)  == IF n < Len(s) THEN SubSeq(s, 1, n) ELSE s
From(s, n)   == SubSeq(s, n + 1, Len(s))

Become(p, m) == mem' = [mem EXCEPT ![p] = m]

(***************************************************************************)
(* What an earlier process left is in the outbox, or in a claim it held    *)
(* when it ended.                                                          *)
(***************************************************************************)
OutboxInit ==
    /\ running = {}
    /\ mem = [p \in Processes |-> Blank]
    /\ \E old \in IF Left = <<>> THEN {"gone"} ELSE {"live"} \cup Departed :
         place = [f \in Files |-> IF f = 1 THEN old ELSE "gone"]
    /\ lines = [f \in Files |-> IF f = 1 THEN Left ELSE <<>>]
    /\ pids = Departed
    /\ recorded = Range(Left)
    /\ written = Range(Left)
    /\ forgone = {}
    /\ sent = [e \in Events |-> 0]
    /\ doubtful = {}
    /\ strayed = {}
    /\ mishaps = 0

-----------------------------------------------------------------------------
(***************************************************************************)
(* appendOutboxSync: the size is looked at, the outbox compacted if it is  *)
(* over the cap, and the events are written with one append.  Appending    *)
(* nothing does nothing.  A drain that has appended deletes its claims.    *)
(***************************************************************************)
Releasing(m) == IF m.drain = "releasing" THEN "remove" ELSE "none"

Appending(m, events) ==
    [m EXCEPT !.batch = events, !.op = IF events = <<>> THEN Releasing(m) ELSE "stat"]

Writing   == IF SlowWriters THEN "open" ELSE "write"
Restoring == IF SlowWriters THEN "reopen" ELSE "restore"

Stat(p) ==
    /\ Doing(p, "stat")
    /\ LET over == \E f \in Live : Len(lines[f]) > Cap
       IN  Become(p, [mem[p] EXCEPT !.op = IF over THEN "seize" ELSE Writing])
    /\ UNCHANGED <<running, disk, ghosts>>

\* The outbox, created by the first that opens it.
Unused == {f \in Files : place[f] = "gone" /\ \A q \in Processes : mem[q].handle # f}
Outbox == IF Live # {} THEN Live ELSE {f \in Unused : \A g \in Unused : f <= g}

Open(p) ==
    /\ Doing(p, "open") \/ Doing(p, "reopen")
    /\ \E f \in Outbox :
         /\ place' = [place EXCEPT ![f] = "live"]
         /\ Become(p, [mem[p] EXCEPT !.handle = f,
                                     !.op = IF @ = "open" THEN "write" ELSE "restore"])
    /\ UNCHANGED <<running, lines, ghosts>>

\* The claimant of f has read it for the last time and will delete it.
PastTail(f) ==
    \E q \in running :
        /\ place[f] = q
        /\ \/ f = mem[q].seized /\ mem[q].op \in {"reopen", "restore", "drop"}
           \/ f \in mem[q].carried

(***************************************************************************)
(* The append itself, of the events of a process (write) or of what its    *)
(* compaction keeps (restore).  Through a handle it goes to the file that  *)
(* was opened, under whatever name it is by now, or under none.            *)
(***************************************************************************)
AppendTo(p, events, next) ==
    /\ \E f \in IF mem[p].handle # 0 THEN {mem[p].handle} ELSE Outbox :
         LET opened == mem[p].handle # 0
             stray  == opened /\ (place[f] = "gone" \/ PastTail(f))
         IN  /\ place' = IF opened THEN place ELSE [place EXCEPT ![f] = "live"]
             /\ lines' = IF opened /\ place[f] = "gone" THEN lines
                         ELSE [lines EXCEPT ![f] = @ \o events]
             /\ strayed' = IF stray THEN strayed \cup Range(events) ELSE strayed
    /\ written' = written \cup Range(events)
    /\ Become(p, [mem[p] EXCEPT !.handle = 0, !.op = next])
    /\ UNCHANGED <<running, pids, recorded, forgone, sent, doubtful, mishaps>>

Write(p) == Doing(p, "write") /\ AppendTo(p, mem[p].batch, Releasing(mem[p]))
Restore(p) == Doing(p, "restore") /\ AppendTo(p, mem[p].kept, "drop")

(***************************************************************************)
(* A write fails (a full disk, no permission; for an append also a stat of *)
(* a file that was claimed since it was seen to exist).  The events of an  *)
(* append are lost and counted, a compaction leaves its claim as it is.    *)
(***************************************************************************)
WriteFails(p) ==
    /\ mishaps < MaxMishaps
    /\ mishaps' = mishaps + 1
    /\ \/ /\ Doing(p, "write")
          /\ forgone' = forgone \cup Range(mem[p].batch)
          /\ Become(p, [mem[p] EXCEPT !.handle = 0, !.op = Releasing(mem[p])])
       \/ /\ Doing(p, "restore")
          /\ Become(p, [mem[p] EXCEPT !.handle = 0, !.seized = 0, !.op = Writing])
          /\ UNCHANGED forgone
    /\ UNCHANGED <<running, disk, pids, recorded, written, sent, doubtful, strayed>>

(***************************************************************************)
(* compactOutbox: claim the outbox, read it, keep the newest lines that    *)
(* fit half the cap, one at least, and what was written to it meanwhile,   *)
(* append them to the new outbox and delete the claim.                     *)
(***************************************************************************)
Seize(p) ==
    /\ Doing(p, "seize")
    /\ \/ /\ Live = {}
          /\ Become(p, [mem[p] EXCEPT !.op = Writing])
          /\ UNCHANGED place
       \/ \E f \in Live :
          /\ place' = [place EXCEPT ![f] = p]
          /\ Become(p, [mem[p] EXCEPT !.seized = f, !.op = "inspect"])
    /\ UNCHANGED <<running, lines, ghosts>>

Inspect(p) ==
    /\ Doing(p, "inspect")
    /\ LET read == lines[mem[p].seized]
           half == IF Cap \div 2 > 1 THEN Cap \div 2 ELSE 1
       IN  Become(p, [mem[p] EXCEPT !.mark = Len(read),
                                    !.kept = Newest(Newest(read, MaxEvents), half),
                                    !.op = "tail"])
    /\ UNCHANGED <<running, disk, ghosts>>

ReadTail(p) ==
    /\ Doing(p, "tail")
    /\ LET back == mem[p].kept \o From(lines[mem[p].seized], mem[p].mark)
       IN  Become(p, [mem[p] EXCEPT !.kept = back,
                                    !.op = IF back = <<>> THEN "drop" ELSE Restoring])
    /\ UNCHANGED <<running, disk, ghosts>>

Drop(p) ==
    /\ Doing(p, "drop")
    /\ LET f == mem[p].seized
       IN  /\ forgone' = forgone \cup (Range(First(lines[f], mem[p].mark)) \ Range(mem[p].kept))
           /\ place' = [place EXCEPT ![f] = "gone"]
           /\ lines' = [lines EXCEPT ![f] = <<>>]
    /\ Become(p, [mem[p] EXCEPT !.seized = 0, !.op = Writing])
    /\ UNCHANGED <<running, pids, recorded, written, sent, doubtful, strayed, mishaps>>

-----------------------------------------------------------------------------
(***************************************************************************)
(* A server process starts: flushOutboxOnStartup is called once, right     *)
(* after the transport is connected.                                       *)
(***************************************************************************)
Starts(p) ==
    /\ p \notin pids
    /\ pids' = pids \cup {p}
    /\ running' = running \cup {p}
    /\ \E consent \in BOOLEAN :
         Become(p, [Blank EXCEPT !.usage = consent, !.op = "list"])
    /\ UNCHANGED <<disk, recorded, written, forgone, sent, doubtful, strayed, mishaps>>

(***************************************************************************)
(* claimOutboxForDrain: the claims whose process is not running, each      *)
(* unless a sibling has renamed it since it was listed, then the outbox.   *)
(* Pids are given out once, so no claim found carries this process's own.  *)
(***************************************************************************)
ListClaims(p) ==
    /\ Doing(p, "list")
    /\ LET left == {f \in Files : place[f] \in Processes \ running}
       IN  Become(p, [mem[p] EXCEPT !.listed = {[file |-> f, holder |-> place[f]] : f \in left},
                                    !.op = "take"])
    /\ UNCHANGED <<running, disk, ghosts>>

Claim(p, f, m) ==
    /\ place' = [place EXCEPT ![f] = p]
    /\ Become(p, [m EXCEPT !.claimed = Append(@, f)])

TakeClaim(p) ==
    /\ Doing(p, "take")
    /\ \E c \in mem[p].listed :
         LET m == [mem[p] EXCEPT !.listed = @ \ {c}]
         IN  /\ \A d \in mem[p].listed : c.file <= d.file
             /\ IF place[c.file] = c.holder THEN Claim(p, c.file, m)
                ELSE Become(p, m) /\ UNCHANGED place
    /\ UNCHANGED <<running, lines, ghosts>>

TakeLive(p) ==
    /\ Doing(p, "take")
    /\ mem[p].listed = {}
    /\ LET m == [mem[p] EXCEPT !.op = "read"]
       IN  \/ Live = {} /\ Become(p, m) /\ UNCHANGED place
           \/ \E f \in Live : Claim(p, f, m)
    /\ UNCHANGED <<running, lines, ghosts>>

(***************************************************************************)
(* The claimed files are read, one after the other.                        *)
(***************************************************************************)
ReadClaim(p) ==
    /\ Doing(p, "read")
    /\ mem[p].claimed # <<>>
    /\ LET f == Head(mem[p].claimed)
       IN  Become(p, [mem[p] EXCEPT
               !.claimed = Tail(@),
               !.consumed = @ \cup {[file |-> f, bytes |-> Len(lines[f])]},
               !.unsent = @ \o lines[f]])
    /\ UNCHANGED <<running, disk, ghosts>>

(***************************************************************************)
(* The oldest events beyond the bound are counted and forgotten.  With     *)
(* nothing to send, or without consent, the drain is released at once.     *)
(***************************************************************************)
Bound(p) ==
    /\ Doing(p, "read")
    /\ mem[p].claimed = <<>>
    /\ LET pending == Newest(mem[p].unsent, MaxEvents)
           send    == mem[p].usage /\ pending # <<>>
       IN  /\ forgone' = forgone \cup (Range(mem[p].unsent) \ IF send THEN Range(pending) ELSE {})
           /\ Become(p, [mem[p] EXCEPT !.unsent = IF send THEN pending ELSE <<>>,
                                       !.drain = IF send THEN "sending" ELSE "releasing",
                                       !.op = IF send THEN "none" ELSE "tails"])
    /\ UNCHANGED <<running, disk, pids, recorded, written, sent, doubtful, strayed, mishaps>>

(***************************************************************************)
(* What becomes of a POST: it arrives and is answered, it arrives and the  *)
(* answer is lost, or it does not arrive.  Only the first returns.         *)
(***************************************************************************)
Post(events, outcome) ==
    /\ sent' = IF outcome = "failed" THEN sent
               ELSE [e \in Events |-> IF e \in Range(events) THEN sent[e] + 1 ELSE sent[e]]
    /\ doubtful' = IF outcome = "unanswered" THEN doubtful \cup Range(events) ELSE doubtful
    /\ mishaps' = IF outcome = "unanswered" THEN mishaps + 1 ELSE mishaps
    /\ UNCHANGED <<running, disk, pids, recorded, written, forgone, strayed>>

Outcomes == {"answered", "failed"} \cup
              (IF mishaps < MaxMishaps THEN {"unanswered"} ELSE {})

\* What the drain goes on with when all of unsent has landed but after.
Sends(m, after, over) ==
    [m EXCEPT !.unsent = after,
              !.drain = IF over THEN "releasing" ELSE "sending",
              !.op = IF over THEN "tails" ELSE "none"]

\* Mutant: one of the events that have landed is taken for one that has not.
DrainSendsAgain(p) ==
    /\ Idle(p)
    /\ mem[p].drain = "sending"
    /\ \E outcome \in Outcomes :
         LET batch == First(mem[p].unsent, BatchSize)
             after == IF outcome = "answered" THEN From(mem[p].unsent, Len(batch) - 1)
                      ELSE mem[p].unsent
         IN  /\ Post(batch, outcome)
             /\ Become(p, Sends(mem[p], after, outcome # "answered" \/ Len(after) <= 1))

(***************************************************************************)
(* The drain sends one batch after the other until one fails; what is left *)
(* is handed back.                                                         *)
(***************************************************************************)
DrainSends(p) ==
    /\ Idle(p)
    /\ mem[p].drain = "sending"
    /\ \E outcome \in Outcomes :
         LET batch == First(mem[p].unsent, BatchSize)
             after == IF outcome = "answered" THEN From(mem[p].unsent, BatchSize)
                      ELSE mem[p].unsent
         IN  /\ Post(batch, outcome)
             /\ Become(p, Sends(mem[p], after, outcome # "answered" \/ after = <<>>))

\* Mutant: the tails of the claimed files are not read.
CarryNothing(p) ==
    /\ Doing(p, "tails")
    /\ \E c \in mem[p].consumed :
         Become(p, [mem[p] EXCEPT !.consumed = @ \ {c}, !.carried = @ \cup {c.file}])
    /\ UNCHANGED <<running, disk, ghosts>>

(***************************************************************************)
(* release: what siblings have written to the claimed files since they     *)
(* were read is carried over, and appended to the outbox after what was    *)
(* not delivered; then the claimed files are deleted.  Their order, which  *)
(* matters to nobody by now, is left open.                                 *)
(***************************************************************************)
CarryTail(p) ==
    /\ Doing(p, "tails")
    /\ \E c \in mem[p].consumed :
         Become(p, [mem[p] EXCEPT !.consumed = @ \ {c},
                                  !.carried = @ \cup {c.file},
                                  !.unsent = @ \o From(lines[c.file], c.bytes)])
    /\ UNCHANGED <<running, disk, ghosts>>

HandBack(p) ==
    /\ Doing(p, "tails")
    /\ mem[p].consumed = {}
    /\ Become(p, Appending([mem[p] EXCEPT !.unsent = <<>>], mem[p].unsent))
    /\ UNCHANGED <<running, disk, ghosts>>

RemoveClaim(p) ==
    /\ Doing(p, "remove")
    /\ \E f \in mem[p].carried :
         /\ place' = [place EXCEPT ![f] = "gone"]
         /\ lines' = [lines EXCEPT ![f] = <<>>]
         /\ Become(p, [mem[p] EXCEPT !.carried = @ \ {f}])
    /\ UNCHANGED <<running, ghosts>>

Released(p) ==
    /\ Doing(p, "remove")
    /\ mem[p].carried = {}
    /\ Become(p, [mem[p] EXCEPT !.drain = "none", !.op = "none"])
    /\ UNCHANGED <<running, disk, ghosts>>

-----------------------------------------------------------------------------
(***************************************************************************)
(* An event is queued.  A full batch is flushed at once, so the queue      *)
(* never comes to its own bound; the rest is flushed by the timer, which   *)
(* shutdown clears.  Nothing keeps a call that ends after shutdown from    *)
(* being recorded.                                                         *)
(***************************************************************************)
Record(p) ==
    /\ Idle(p)
    /\ mem[p].usage
    /\ \E e \in Events \ recorded :
         LET queue == Append(mem[p].queue, e)
             full  == Len(queue) >= BatchSize
         IN  /\ recorded' = recorded \cup {e}
             /\ Become(p, [mem[p] EXCEPT
                     !.queue = IF full THEN <<>> ELSE queue,
                     !.flights = IF full THEN @ \cup {queue} ELSE @])
    /\ UNCHANGED <<running, disk, pids, written, forgone, sent, doubtful, strayed, mishaps>>

Flush(p) ==
    /\ Idle(p)
    /\ ~mem[p].closed
    /\ mem[p].queue # <<>>
    /\ Become(p, [mem[p] EXCEPT !.queue = <<>>, !.flights = @ \cup {mem[p].queue}])
    /\ UNCHANGED <<running, disk, ghosts>>

FlushEnds(p) ==
    /\ Idle(p)
    /\ \E b \in mem[p].flights, outcome \in Outcomes :
         LET m == [mem[p] EXCEPT !.flights = @ \ {b}]
         IN  /\ Post(b, outcome)
             /\ Become(p, IF outcome = "answered" THEN m ELSE Appending(m, b))

(***************************************************************************)
(* shutdown: the queue is appended to the outbox, without the network.     *)
(* (The summary appended after it is the subject of SessionRecovery.)      *)
(***************************************************************************)
ShutsDown(p) ==
    /\ Idle(p)
    /\ ~mem[p].closed
    /\ Become(p, Appending([mem[p] EXCEPT !.closed = TRUE, !.queue = <<>>], mem[p].queue))
    /\ UNCHANGED <<running, disk, ghosts>>

(***************************************************************************)
(* The process ends, after shutdown (index.ts calls process.exit when stop *)
(* has returned, whatever is on the network) or killed.  Its claims stay.  *)
(* Half done are those whose events it has sent, or handed back.           *)
(***************************************************************************)
HandedBack(p, f) ==
    \/ mem[p].op = "drop" /\ f = mem[p].seized
    \/ mem[p].op = "remove" /\ f \in mem[p].carried

LeftHalfDone(p) ==
    UNION {{e \in Range(lines[f]) : sent[e] > 0 \/ HandedBack(p, f)} : f \in HeldBy(p)}

Ends(p) ==
    /\ running' = running \ {p}
    /\ Become(p, Blank)
    /\ doubtful' = doubtful \cup LeftHalfDone(p)
    /\ UNCHANGED <<disk, pids, recorded, written, forgone, sent, strayed>>

Leaves(p) ==
    /\ Idle(p)
    /\ mem[p].closed
    /\ Ends(p)
    /\ UNCHANGED mishaps

IsKilled(p) ==
    /\ p \in running
    /\ mishaps < MaxMishaps
    /\ mishaps' = mishaps + 1
    /\ Ends(p)

OutboxNext ==
    \E p \in Processes :
        \/ Starts(p) \/ ListClaims(p) \/ TakeClaim(p) \/ TakeLive(p) \/ ReadClaim(p) \/ Bound(p)
        \/ DrainSends(p) \/ CarryTail(p) \/ HandBack(p) \/ RemoveClaim(p) \/ Released(p)
        \/ Record(p) \/ Flush(p) \/ FlushEnds(p)
        \/ Stat(p) \/ Open(p) \/ Write(p) \/ Restore(p) \/ WriteFails(p)
        \/ Seize(p) \/ Inspect(p) \/ ReadTail(p) \/ Drop(p)
        \/ ShutsDown(p) \/ Leaves(p) \/ IsKilled(p)

OutboxSpec == OutboxInit /\ [][OutboxNext]_outboxVars

-----------------------------------------------------------------------------

OnDisk == UNION {Range(lines[f]) : f \in Files}

\* The files the drain of a process has claimed.
Claims(m) == Range(m.claimed) \cup {c.file : c \in m.consumed} \cup m.carried

(***************************************************************************)
(* There is one outbox, deleted files are empty, the files a process works *)
(* on are its own, and what it has not delivered is still in its claims.   *)
(***************************************************************************)
OutboxTypeOK ==
    /\ running \subseteq pids /\ pids \subseteq Processes
    /\ place \in [Files -> Processes \cup {"live", "gone"}]
    /\ \A f \in Files : lines[f] \in Seq(Events)
    /\ \A f, g \in Live : f = g
    /\ \A f \in Files : place[f] = "gone" => lines[f] = <<>>
    /\ \A p \in running :
         /\ Claims(mem[p]) \cup ({mem[p].seized} \ {0}) \subseteq HeldBy(p)
         /\ Range(mem[p].unsent) \subseteq UNION {Range(lines[f]) : f \in HeldBy(p)}

(***************************************************************************)
(* An event that was once appended is never lost, whoever dies where: it   *)
(* is in a file, it was sent, it was discarded and counted, or the consent *)
(* to send it was withdrawn.  Writes that reach a claimed file after its   *)
(* claimant has looked at it for the last time are the exception.          *)
(***************************************************************************)
Accounted(e) == e \in OnDisk \cup forgone \/ sent[e] > 0

NothingWrittenIsLost == \A e \in written \ strayed : Accounted(e)

(***************************************************************************)
(* An event is sent twice only when the answer to a POST was lost, or its  *)
(* process ended after it had sent it or handed it back and before it had  *)
(* deleted the claim: drains, compactions and appends of siblings at the   *)
(* same time never do it.                                                  *)
(***************************************************************************)
SentTwiceForAReason == \A e \in Events : sent[e] > 1 => e \in doubtful

(***************************************************************************)
(* The files and queues are well formed, and no event is sent twice        *)
(* without a reason.                                                       *)
(***************************************************************************)
OutboxInv == OutboxTypeOK /\ SentTwiceForAReason

=============================================================================
