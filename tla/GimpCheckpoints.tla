-------------------------- MODULE GimpCheckpoints --------------------------
(***************************************************************************)
(* tools/gimp-checkpoint-tools.ts: create, list, restore and delete, any   *)
(* number of them under way at once, over a GIMP process that numbers its  *)
(* images from 1 and starts again with new ones after it has died.         *)
(*                                                                         *)
(* The session is what SessionContract says of it: bridge calls run one at *)
(* a time, in the order of issue, and only in the generation they were     *)
(* issued in.  A handler goes on at once when its bridge call is answered, *)
(* so the answer and what the handler makes of it are one action.          *)
(***************************************************************************)
EXTENDS Naturals, Sequences, FiniteSets

CONSTANTS Calls,        \* tool calls
          Ids,          \* checkpoint ids, used again once forgotten
          MaxPerImage,  \* MAX_CHECKPOINTS_PER_IMAGE
          MaxTotal,     \* MAX_CHECKPOINTS_TOTAL
          MaxImages,    \* bound on the images of one process
          MaxDocs,      \* bound on the documents that are opened, in all
          MaxTroubles   \* bound on deaths, failed operations, lost files and mistakes

Images == 1 .. MaxImages

ASSUME CheckpointAssumption ==
    /\ IsFiniteSet(Calls) /\ IsFiniteSet(Ids) /\ Ids \subseteq Nat \ {0}
    /\ Cardinality(Ids) >= MaxTotal + Cardinality(Calls)   \* a fresh id is left
    /\ MaxPerImage \in Nat /\ MaxTotal \in Nat
    /\ MaxImages \in Nat /\ MaxDocs \in Nat /\ MaxTroubles \in Nat

VARIABLES
    generation, \* of the session
    up,         \* its process is running
    doc,        \* doc[n]: the document that image n shows, or 0
    used,       \* the numbers the process has given out
    docs,       \* the documents opened so far
    record,     \* record[i]: the record of checkpoint i
    known,      \* the keys of the registry
    file,       \* the checkpoints whose file exists
    pc,         \* pc[c]: the bridge call, or removal, that c awaits
    its,        \* its[c]: the locals of c
    line,       \* the calls whose bridge call has not been answered, in order
    issuedIn,   \* issuedIn[c]: the generation that was issued in
    troubles

gimp  == <<generation, up, doc, used, docs>>
store == <<record, known, file>>
vars  == <<gimp, store, pc, its, line, issuedIn, troubles>>

\* `early` is history: the process had not given the number out when the
\* record was reserved under it.
NoRecord == [image |-> 0, open |-> FALSE, generation |-> 0, pending |-> FALSE,
             shows |-> 0, early |-> FALSE]
NoLocals == [id |-> 0, image |-> 0, opened |-> 0]

Init ==
    /\ generation = 0 /\ up = FALSE
    /\ doc = [n \in Images |-> 0] /\ used = 0 /\ docs = 0
    /\ record = [i \in Ids |-> NoRecord] /\ known = {} /\ file = {}
    /\ pc = [c \in Calls |-> "idle"]
    /\ its = [c \in Calls |-> NoLocals]
    /\ line = <<>>
    /\ issuedIn = [c \in Calls |-> 0]
    /\ troubles = 0

Trouble == troubles < MaxTroubles /\ troubles' = troubles + 1

-----------------------------------------------------------------------------
(* Bridge calls. *)

Behind(c) == IF pc[c] \in {"idle", "rm", "unregister"} THEN line ELSE Tail(line)

\* c issues its next bridge call; g is the generation at that moment.
Issue(c, what, locals, g) ==
    /\ pc' = [pc EXCEPT ![c] = what]
    /\ its' = [its EXCEPT ![c] = locals]
    /\ line' = Append(Behind(c), c)
    /\ issuedIn' = [issuedIn EXCEPT ![c] = g]

\* The tool call returns.
Return(c) ==
    /\ pc' = [pc EXCEPT ![c] = "idle"]
    /\ its' = [its EXCEPT ![c] = NoLocals]
    /\ line' = Behind(c)
    /\ issuedIn' = [issuedIn EXCEPT ![c] = 0]

AtHead(c, what) == pc[c] = what /\ line # <<>> /\ Head(line) = c

\* The call of c runs, in a process that is started if there is none.
Runs(c, what) ==
    /\ AtHead(c, what)
    /\ issuedIn[c] = generation
    /\ up' = TRUE

Dies == generation' = generation + 1 /\ up' = FALSE /\ doc' = [n \in Images |-> 0] /\ used' = 0

\* The process dies under the call of c, or has died since it was issued.
Lost(c, what) ==
    /\ AtHead(c, what)
    /\ \/ issuedIn[c] < generation /\ UNCHANGED <<generation, up, doc, used, troubles>>
       \/ issuedIn[c] = generation /\ Trouble /\ Dies
    /\ UNCHANGED docs

-----------------------------------------------------------------------------
(* What the registry believes. *)

\* Registers nobody can reach any more are forgotten.
Keep(records, keys, c) ==
    [i \in Ids |-> IF i \in keys \/ \E d \in Calls \ {c} : its[d].id = i
                   THEN records[i] ELSE NoRecord]

\* refreshOpenness, its first half: a record of another process is gone.
OfNow(g) ==
    [i \in Ids |-> IF i \in known /\ record[i].generation # g
                   THEN [record[i] EXCEPT !.open = FALSE] ELSE record[i]]

\* Its second half: an image that the ping does not list is gone.
Listed ==
    [i \in Ids |-> IF i \in known /\ doc[record[i].image] = 0
                   THEN [record[i] EXCEPT !.open = FALSE] ELSE record[i]]

SameImage(i, n, g) == i \in known /\ record[i].image = n /\ record[i].generation = g

\* repointSiblings
Repointed(from, to, g) ==
    [i \in Ids |-> IF SameImage(i, from, g)
                   THEN [record[i] EXCEPT !.image = to, !.open = TRUE, !.early = FALSE]
                   ELSE record[i]]

\* markSiblingsGone
SiblingsGone(n, g) ==
    [i \in Ids |-> IF SameImage(i, n, g) THEN [record[i] EXCEPT !.open = FALSE] ELSE record[i]]

-----------------------------------------------------------------------------
(* create *)

OpenOn(records, n) == {i \in known : records[i].image = n /\ records[i].open}

Fresh == CHOOSE i \in Ids \ (known \cup {its[d].id : d \in Calls}) : TRUE

Full(records, n) ==
    \/ Cardinality(known) >= MaxTotal
    \/ Cardinality(OpenOn(records, n)) >= MaxPerImage

\* From the refresh on: both caps and, with no await, the reservation.  g is
\* the generation by now and `given` the numbers its process has given out.
Reserve(c, n, records, g, given) ==
    IF Full(records, n)
    THEN /\ record' = records
         /\ Return(c)
         /\ UNCHANGED <<known, file>>
    ELSE /\ record' = [records EXCEPT ![Fresh] =
                [image |-> n, open |-> TRUE, generation |-> g, pending |-> TRUE, shows |-> 0,
                 early |-> n > given]]
         /\ known' = known \cup {Fresh}
         /\ Issue(c, "export", [NoLocals EXCEPT !.id = Fresh, !.image = n], g)
         /\ UNCHANGED file

\* Of an image that is open, or by mistake of any other number.
Create(c) ==
    /\ pc[c] = "idle"
    /\ \E n \in 1 .. MaxImages :
         /\ IF doc[n] = 0 THEN Trouble ELSE UNCHANGED troubles
         /\ IF known = {}
            THEN Reserve(c, n, record, generation, used)
            ELSE /\ record' = OfNow(generation)
                 /\ Issue(c, "pingForCreate", [NoLocals EXCEPT !.image = n], generation)
                 /\ UNCHANGED <<known, file>>
    /\ UNCHANGED gimp

\* The ping is answered, or is not: create goes on.
Refreshed(c) ==
    \/ /\ Runs(c, "pingForCreate")
       /\ UNCHANGED <<generation, doc, used, docs, troubles>>
       /\ Reserve(c, its[c].image, Listed, generation, used)
    \/ /\ Lost(c, "pingForCreate")
       /\ Reserve(c, its[c].image, OfNow(generation'), generation', used')

ExportFails(c) ==
    /\ known' = known \ {its[c].id}
    /\ record' = Keep(record, known', c)
    /\ file' = file \ {its[c].id}
    /\ Return(c)

Export(c) ==
    \/ /\ Runs(c, "export")
       /\ UNCHANGED <<generation, doc, used, docs>>
       /\ \/ /\ doc[its[c].image] # 0
             /\ record' = [record EXCEPT ![its[c].id].pending = FALSE,
                                         ![its[c].id].shows = doc[its[c].image]]
             /\ file' = file \cup {its[c].id}
             /\ Return(c)
             /\ UNCHANGED <<known, troubles>>
          \/ /\ IF doc[its[c].image] = 0 THEN UNCHANGED troubles ELSE Trouble
             /\ ExportFails(c)
    \/ Lost(c, "export") /\ ExportFails(c)

-----------------------------------------------------------------------------
(* list and delete *)

\* A list starts no process: without one it refreshes by generation alone.
List(c) ==
    /\ pc[c] = "idle" /\ known # {}
    /\ record' = OfNow(generation)
    /\ IF up THEN Issue(c, "pingForList", NoLocals, generation)
       ELSE UNCHANGED <<pc, its, line, issuedIn>>
    /\ UNCHANGED <<gimp, known, file, troubles>>

ListRefreshed(c) ==
    /\ \/ /\ Runs(c, "pingForList")
          /\ record' = Listed
          /\ UNCHANGED <<generation, doc, used, docs, troubles>>
       \/ /\ Lost(c, "pingForList")
          /\ record' = OfNow(generation')
    /\ Return(c)
    /\ UNCHANGED <<known, file>>

Settled == {i \in known : ~record[i].pending}

Delete(c) ==
    /\ pc[c] = "idle"
    /\ \E i \in Settled : its' = [its EXCEPT ![c].id = i]
    /\ pc' = [pc EXCEPT ![c] = "rm"]
    /\ UNCHANGED <<gimp, store, line, issuedIn, troubles>>

\* The file is removed, or cannot be.
Rm(c) ==
    /\ pc[c] = "rm"
    /\ \/ /\ file' = file \ {its[c].id}
          /\ pc' = [pc EXCEPT ![c] = "unregister"]
          /\ UNCHANGED <<record, known, its, line, issuedIn, troubles>>
       \/ /\ Trouble
          /\ Return(c)
          /\ record' = Keep(record, known, c)
          /\ UNCHANGED <<known, file>>
    /\ UNCHANGED gimp

Unregister(c) ==
    /\ pc[c] = "unregister"
    /\ known' = known \ {its[c].id}
    /\ record' = Keep(record, known', c)
    /\ Return(c)
    /\ UNCHANGED <<gimp, file, troubles>>

-----------------------------------------------------------------------------
(* restore *)

Restore(c) ==
    /\ pc[c] = "idle"
    /\ \E i \in Settled : Issue(c, "open", [NoLocals EXCEPT !.id = i], generation)
    /\ UNCHANGED <<gimp, store, troubles>>

\* Mutant: the record is still believed to be gone.
DescribesGone(c, records, n) ==
    /\ record' = Keep([records EXCEPT ![its[c].id].image = n,
                                      ![its[c].id].generation = generation,
                                      ![its[c].id].early = FALSE], known, c)
    /\ UNCHANGED <<known, file>>

\* The record describes the image just opened, whatever became of the old.
Describes(c, records, n) ==
    /\ record' = Keep([records EXCEPT ![its[c].id].image = n, ![its[c].id].open = TRUE,
                                      ![its[c].id].generation = generation,
                                      ![its[c].id].early = FALSE], known, c)
    /\ UNCHANGED <<known, file>>

\* Mutant: no generations.
AfterOpenByNumber(c, n) ==
    LET old == record[its[c].id]
    IN  IF old.image = n THEN Describes(c, record, n) /\ Return(c)
        ELSE /\ Issue(c, "close", [id |-> its[c].id, image |-> old.image, opened |-> n], generation)
             /\ UNCHANGED store

\* The old image is closed, unless it is the one just opened, or one of
\* another process.
AfterOpen(c, n) ==
    LET old == record[its[c].id]
    IN  IF old.generation # generation
        THEN Describes(c, SiblingsGone(old.image, old.generation), n) /\ Return(c)
        ELSE IF old.image = n THEN Describes(c, record, n) /\ Return(c)
        ELSE /\ Issue(c, "close", [id |-> its[c].id, image |-> old.image, opened |-> n], generation)
             /\ UNCHANGED store

RestoreFails(c) ==
    /\ Return(c)
    /\ record' = Keep(record, known, c)
    /\ UNCHANGED <<known, file>>

\* With the file gone, so is the record.
Open(c) ==
    \/ /\ Runs(c, "open")
       /\ UNCHANGED <<generation, docs>>
       /\ \/ /\ its[c].id \in file
             /\ used < MaxImages
             /\ used' = used + 1
             /\ doc' = [doc EXCEPT ![used + 1] = record[its[c].id].shows]
             /\ AfterOpen(c, used + 1)
             /\ UNCHANGED troubles
          \/ /\ its[c].id \notin file
             /\ known' = known \ {its[c].id}
             /\ record' = Keep(record, known', c)
             /\ Return(c)
             /\ UNCHANGED <<file, doc, used, troubles>>
          \/ /\ Trouble
             /\ RestoreFails(c)
             /\ UNCHANGED <<doc, used>>
    \/ Lost(c, "open") /\ RestoreFails(c)

\* Mutant: a close that is lost with its process is as good as any.
CloseTolerant(c) ==
    LET old == its[c].image
        new == its[c].opened
    IN  \/ /\ Runs(c, "close")
           /\ doc' = [doc EXCEPT ![old] = 0]
           /\ Describes(c, IF doc[old] # 0 THEN Repointed(old, new, generation)
                           ELSE SiblingsGone(old, generation), new)
           /\ Return(c)
           /\ UNCHANGED <<generation, used, docs, troubles>>
        \/ /\ Lost(c, "close")
           /\ Describes(c, SiblingsGone(old, generation), new)
           /\ Return(c)

\* Siblings follow after a close that succeeded and are gone after one that
\* found nothing; a close that failed says nothing; a death fails the restore.
Close(c) ==
    LET old == its[c].image
        new == its[c].opened
    IN  \/ /\ Runs(c, "close")
           /\ UNCHANGED <<generation, used, docs>>
           /\ \/ /\ doc' = [doc EXCEPT ![old] = 0]
                 /\ Describes(c, IF doc[old] # 0 THEN Repointed(old, new, generation)
                                 ELSE SiblingsGone(old, generation), new)
                 /\ UNCHANGED troubles
              \/ /\ Trouble
                 /\ Describes(c, record, new)
                 /\ UNCHANGED doc
           /\ Return(c)
        \/ Lost(c, "close") /\ RestoreFails(c)

-----------------------------------------------------------------------------
(* The environment: other tools, the process, the disk. *)

OpenDocument ==
    /\ used < MaxImages /\ docs < MaxDocs
    /\ up' = TRUE
    /\ used' = used + 1 /\ docs' = docs + 1
    /\ doc' = [doc EXCEPT ![used + 1] = docs + 1]
    /\ UNCHANGED <<generation, store, pc, its, line, issuedIn, troubles>>

CloseDocument ==
    /\ \E n \in Images : doc[n] # 0 /\ doc' = [doc EXCEPT ![n] = 0]
    /\ UNCHANGED <<generation, up, used, docs, store, pc, its, line, issuedIn, troubles>>

Die ==
    /\ up
    /\ Trouble /\ Dies
    /\ UNCHANGED <<docs, store, pc, its, line, issuedIn>>

LoseFile ==
    /\ Trouble
    /\ \E i \in file : file' = file \ {i}
    /\ UNCHANGED <<gimp, record, known, pc, its, line, issuedIn>>

Next ==
    \/ \E c \in Calls :
         \/ Create(c) \/ Refreshed(c) \/ Export(c)
         \/ List(c) \/ ListRefreshed(c)
         \/ Delete(c) \/ Rm(c) \/ Unregister(c)
         \/ Restore(c) \/ Open(c) \/ Close(c)
    \/ OpenDocument \/ CloseDocument \/ Die \/ LoseFile

Spec == Init /\ [][Next]_vars

-----------------------------------------------------------------------------
(* Properties. *)

Records == [image : 0 .. MaxImages, open : BOOLEAN, generation : 0 .. MaxTroubles,
            pending : BOOLEAN, shows : 0 .. MaxDocs, early : BOOLEAN]

Awaits == {"idle", "pingForCreate", "export", "pingForList", "rm", "unregister", "open", "close"}

TypeOK ==
    /\ generation \in 0 .. MaxTroubles /\ up \in BOOLEAN
    /\ doc \in [Images -> 0 .. MaxDocs]
    /\ used \in 0 .. MaxImages /\ docs \in 0 .. MaxDocs
    /\ record \in [Ids -> Records]
    /\ known \subseteq Ids /\ file \subseteq Ids
    /\ pc \in [Calls -> Awaits]
    /\ its \in [Calls -> [id : Ids \cup {0}, image : 0 .. MaxImages, opened : 0 .. MaxImages]]
    /\ line \in Seq(Calls) /\ Len(line) <= Cardinality(Calls)
    /\ issuedIn \in [Calls -> 0 .. MaxTroubles]
    /\ troubles \in 0 .. MaxTroubles

(***************************************************************************)
(* "Restore never issues a close for an unrelated image the model may      *)
(* still be using": the image it closes shows the document that the        *)
(* checkpoint was taken of.                                                *)
(***************************************************************************)
NoStrangerClosed ==
    [][\A c \in Calls, n \in Images :
         (Close(c) /\ up /\ doc[n] # 0 /\ doc'[n] = 0 /\ generation' = generation) =>
             doc[n] = record[its[c].id].shows]_vars

(***************************************************************************)
(* A record that is believed to be gone is: no image that is open is left  *)
(* out of its scoped list and of its cap.  The exception is a create that  *)
(* reserves a number before the process gives it out: one whose ping was   *)
(* lost with the old process and which goes on, for the new process, or    *)
(* one that was told a number no image has yet.                            *)
(***************************************************************************)
GoneIsGone ==
    \A i \in known :
        (~record[i].open /\ record[i].generation = generation /\ ~record[i].early) =>
            doc[record[i].image] = 0

(***************************************************************************)
(* Creates that run at once, each of which awaits an export, never fill    *)
(* the store beyond its limit.                                             *)
(***************************************************************************)
TotalCap == Cardinality(known) <= MaxTotal

(***************************************************************************)
(* "Reporting success would hand the model a new image id that is itself   *)
(* already stale": a restore that awaited a close changes its record only  *)
(* while the process that opened the new image is there.                   *)
(***************************************************************************)
AnswersAreLive ==
    [][\A c \in Calls :
         (pc[c] = "close" /\ pc'[c] = "idle" /\ its[c].id \in known) =>
             \/ generation' = issuedIn[c]
             \/ record'[its[c].id] = record[its[c].id]]_vars

\* The registry is never wrong about an image being gone, and never holds
\* more than it may, whatever creates, restores and deletes are under way.
CheckpointInv == TypeOK /\ GoneIsGone /\ TotalCap

=============================================================================
