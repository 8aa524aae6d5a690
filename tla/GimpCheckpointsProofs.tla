----------------------- MODULE GimpCheckpointsProofs -----------------------
(***************************************************************************)
(* Proofs about GimpCheckpoints, for any number of calls under way, of     *)
(* checkpoints, images, documents and troubles.                            *)
(***************************************************************************)
EXTENDS GimpCheckpoints, FunctionTheorems, FiniteSetTheorems, TLAPS

(***************************************************************************)
(* The inductive invariant.  First the types, without the length of the    *)
(* line.                                                                   *)
(***************************************************************************)
RecordType == [image : 0 .. MaxImages, open : BOOLEAN, generation : Nat,
               pending : BOOLEAN, shows : 0 .. MaxDocs, early : BOOLEAN]

LocalsType == [id : Ids \cup {0}, image : 0 .. MaxImages, opened : 0 .. MaxImages]

Types ==
    /\ generation \in Nat /\ up \in BOOLEAN
    /\ doc \in [Images -> 0 .. MaxDocs]
    /\ used \in 0 .. MaxImages /\ docs \in 0 .. MaxDocs
    /\ record \in [Ids -> RecordType]
    /\ known \subseteq Ids /\ file \subseteq Ids
    /\ pc \in [Calls -> Awaits]
    /\ its \in [Calls -> LocalsType]
    /\ line \in Seq(Calls)
    /\ issuedIn \in [Calls -> Nat]
    /\ troubles \in 0 .. MaxTroubles

(***************************************************************************)
(* A call is in the line once, and only for a bridge call it awaits.       *)
(***************************************************************************)
BridgeCalls == {"pingForCreate", "export", "pingForList", "open", "close"}

Lined ==
    /\ \A j \in 1 .. Len(line) : pc[line[j]] \in BridgeCalls
    /\ \A j, k \in 1 .. Len(line) : line[j] = line[k] => j = k

(***************************************************************************)
(* An image that has not been opened shows nothing.                        *)
(***************************************************************************)
Unopened == \A n \in Images : n > used => doc[n] = 0

(***************************************************************************)
(* If checkpoint i may say that image n shows the document it was taken    *)
(* of, then n has been opened and shows nothing else.                      *)
(***************************************************************************)
ShowsIts(n, i) == n <= used /\ (doc[n] # 0 => doc[n] = record[i].shows)

(***************************************************************************)
(* The record a call works on is a settled one; the record a create has    *)
(* reserved is pending.                                                    *)
(***************************************************************************)
Working == {"rm", "unregister", "open", "close"}

Holds(c) ==
    /\ pc[c] = "pingForCreate" => its[c].image \in Images
    /\ pc[c] \in Working =>
          its[c].id \in Ids /\ record[its[c].id].image \in Images /\ ~record[its[c].id].pending
    /\ pc[c] = "export" =>
          /\ its[c].id \in Ids /\ record[its[c].id].image \in Images
          /\ record[its[c].id].pending /\ its[c].image \in Images

(***************************************************************************)
(* In the process it was issued in, the image that a restore is about to   *)
(* close and the one that it has opened show the checkpoint's document.    *)
(***************************************************************************)
Closes(c) ==
    pc[c] = "close" /\ issuedIn[c] = generation =>
        /\ its[c].image \in Images /\ ShowsIts(its[c].image, its[c].id)
        /\ its[c].opened \in Images /\ ShowsIts(its[c].opened, its[c].id)

(***************************************************************************)
(* The record of an export may be pointed elsewhere while it waits, but    *)
(* only once the image it is to export has been closed.                    *)
(***************************************************************************)
Exports(c) ==
    pc[c] = "export" /\ issuedIn[c] = generation =>
        \/ record[its[c].id].image = its[c].image
        \/ its[c].image <= used /\ doc[its[c].image] = 0

CallInv ==
    \A c \in Calls : issuedIn[c] <= generation /\ Holds(c) /\ Closes(c) /\ Exports(c)

(***************************************************************************)
(* No two creates have reserved the same record.                           *)
(***************************************************************************)
Apart ==
    \A c, d \in Calls :
        pc[c] = "export" /\ pc[d] = "export" /\ c # d => its[c].id # its[d].id

(***************************************************************************)
(* A settled record of this process names an image that shows, if it is    *)
(* still open, the document that the checkpoint was taken of.              *)
(***************************************************************************)
Shows(i) ==
    (~record[i].pending /\ record[i].generation = generation /\ record[i].image \in Images) =>
        ShowsIts(record[i].image, i)

RecordInv == \A i \in Ids : record[i].generation <= generation /\ Shows(i)

(***************************************************************************)
(* What the registry holds names an image, one that has been opened unless *)
(* it was reserved too early.                                              *)
(***************************************************************************)
Names(i) ==
    /\ record[i].image \in Images
    /\ record[i].generation = generation /\ ~record[i].early => record[i].image <= used

KnownInv == \A i \in known : Names(i)

IInv == /\ Types /\ generation <= troubles /\ Lined /\ Unopened /\ CallInv /\ Apart
        /\ RecordInv /\ KnownInv /\ GoneIsGone /\ TotalCap

-----------------------------------------------------------------------------
(* The helpers. *)

(***************************************************************************)
(* A call that issues or returns leaves the line as it should be: it is    *)
(* not behind itself.                                                      *)
(***************************************************************************)
LEMMA BehindFacts ==
    ASSUME Types, Lined, NEW c \in Calls,
           pc[c] \in BridgeCalls => line # <<>> /\ Head(line) = c
    PROVE  /\ Behind(c) \in Seq(Calls)
           /\ \A j \in 1 .. Len(Behind(c)) :
                  Behind(c)[j] # c /\ pc[Behind(c)[j]] \in BridgeCalls
           /\ \A j, k \in 1 .. Len(Behind(c)) : Behind(c)[j] = Behind(c)[k] => j = k
<1>1. CASE pc[c] \in {"idle", "rm", "unregister"}
  <2>1. Behind(c) = line
    BY <1>1 DEF Behind
  <2>2. pc[c] \notin BridgeCalls
    BY <1>1 DEF BridgeCalls
  <2>3. QED
    BY <2>1, <2>2 DEF Types, Lined
<1>2. CASE pc[c] \notin {"idle", "rm", "unregister"}
  <2>1. Behind(c) = Tail(line)
    BY <1>2 DEF Behind
  <2>2. line # <<>> /\ line[1] = c
    BY <1>2 DEF Types, Awaits, BridgeCalls
  <2>3. /\ Tail(line) \in Seq(Calls) /\ Len(Tail(line)) = Len(line) - 1 /\ Len(line) \in Nat
        /\ \A j \in 1 .. Len(Tail(line)) : Tail(line)[j] = line[j + 1]
    BY <2>2 DEF Types
  <2>4. QED
    BY <2>1, <2>2, <2>3 DEF Lined
<1>3. QED
  BY <1>1, <1>2

LEMMA IssueFacts ==
    ASSUME Types, Lined, NEW c \in Calls,
           pc[c] \in BridgeCalls => line # <<>> /\ Head(line) = c,
           NEW what \in BridgeCalls, NEW locals \in LocalsType, NEW g \in Nat,
           Issue(c, what, locals, g)
    PROVE  /\ pc' \in [Calls -> Awaits] /\ its' \in [Calls -> LocalsType]
           /\ line' \in Seq(Calls) /\ issuedIn' \in [Calls -> Nat]
           /\ Lined'
           /\ pc'[c] = what /\ its'[c] = locals /\ issuedIn'[c] = g
           /\ \A d \in Calls \ {c} :
                  pc'[d] = pc[d] /\ its'[d] = its[d] /\ issuedIn'[d] = issuedIn[d]
<1>1. /\ pc' \in [Calls -> Awaits] /\ its' \in [Calls -> LocalsType]
      /\ issuedIn' \in [Calls -> Nat]
      /\ pc'[c] = what /\ its'[c] = locals /\ issuedIn'[c] = g
      /\ \A d \in Calls \ {c} :
             pc'[d] = pc[d] /\ its'[d] = its[d] /\ issuedIn'[d] = issuedIn[d]
  BY DEF Types, Issue, Awaits, BridgeCalls
<1>2. PICK rest : rest = Behind(c)
  OBVIOUS
<1>3. /\ rest \in Seq(Calls) /\ line' = Append(rest, c)
      /\ \A j \in 1 .. Len(rest) : rest[j] # c /\ pc[rest[j]] \in BridgeCalls
      /\ \A j, k \in 1 .. Len(rest) : rest[j] = rest[k] => j = k
  BY <1>2, BehindFacts DEF Issue
<1>4. /\ line' \in Seq(Calls) /\ Len(line') = Len(rest) + 1 /\ Len(rest) \in Nat
      /\ \A j \in 1 .. Len(line') : line'[j] = IF j <= Len(rest) THEN rest[j] ELSE c
  BY <1>3
<1>5. \A j \in 1 .. Len(line') : pc'[line'[j]] \in BridgeCalls
  BY <1>1, <1>3, <1>4
<1>6. \A j, k \in 1 .. Len(line') : line'[j] = line'[k] => j = k
  BY <1>3, <1>4
<1>7. QED
  BY <1>1, <1>4, <1>5, <1>6 DEF Lined

LEMMA ReturnFacts ==
    ASSUME Types, Lined, NEW c \in Calls,
           pc[c] \in BridgeCalls => line # <<>> /\ Head(line) = c,
           Return(c)
    PROVE  /\ pc' \in [Calls -> Awaits] /\ its' \in [Calls -> LocalsType]
           /\ line' \in Seq(Calls) /\ issuedIn' \in [Calls -> Nat]
           /\ Lined'
           /\ pc'[c] = "idle" /\ its'[c] = NoLocals /\ issuedIn'[c] = 0
           /\ \A d \in Calls \ {c} :
                  pc'[d] = pc[d] /\ its'[d] = its[d] /\ issuedIn'[d] = issuedIn[d]
<1>1. /\ pc' \in [Calls -> Awaits] /\ its' \in [Calls -> LocalsType]
      /\ issuedIn' \in [Calls -> Nat]
      /\ pc'[c] = "idle" /\ its'[c] = NoLocals /\ issuedIn'[c] = 0
      /\ \A d \in Calls \ {c} :
             pc'[d] = pc[d] /\ its'[d] = its[d] /\ issuedIn'[d] = issuedIn[d]
  BY CheckpointAssumption DEF Types, Return, Awaits, NoLocals, LocalsType
<1>2. PICK rest : rest = Behind(c)
  OBVIOUS
<1>3. /\ rest \in Seq(Calls) /\ line' = rest
      /\ \A j \in 1 .. Len(rest) : rest[j] # c /\ pc[rest[j]] \in BridgeCalls
      /\ \A j, k \in 1 .. Len(rest) : rest[j] = rest[k] => j = k
  BY <1>2, BehindFacts DEF Return
<1>4. \A j \in 1 .. Len(line') : pc'[line'[j]] \in BridgeCalls
  BY <1>1, <1>3
<1>5. QED
  BY <1>1, <1>3, <1>4 DEF Lined

(***************************************************************************)
(* An id is left to reserve while the registry is not full.                *)
(***************************************************************************)
LEMMA FreshFacts ==
    ASSUME Types, Cardinality(known) < MaxTotal
    PROVE  Fresh \in Ids /\ Fresh \notin known /\ \A d \in Calls : its[d].id # Fresh
<1>1. PICK held : held = [d \in Calls |-> its[d].id]
  OBVIOUS
<1>2. PICK ids : ids = {its[d].id : d \in Calls}
  OBVIOUS
<1>3. held \in Surjection(Calls, ids)
  BY <1>1, <1>2 DEF Surjection
<1>4. IsFiniteSet(ids) /\ Cardinality(ids) <= Cardinality(Calls)
  BY <1>3, FS_Surjection, CheckpointAssumption
<1>5. IsFiniteSet(known) /\ Cardinality(known) \in Nat
  BY FS_Subset, FS_CardinalityType, CheckpointAssumption DEF Types
<1>6. /\ Cardinality(ids) \in Nat /\ Cardinality(Calls) \in Nat /\ Cardinality(Ids) \in Nat
      /\ Cardinality(known \cap ids) \in Nat
  BY <1>4, <1>5, FS_CardinalityType, FS_Subset, CheckpointAssumption
<1>7. IsFiniteSet(known \cup ids) /\ Cardinality(known \cup ids) <= Cardinality(known) + Cardinality(ids)
  <2>1. /\ IsFiniteSet(known \cup ids)
        /\ Cardinality(known \cup ids) =
              Cardinality(known) + Cardinality(ids) - Cardinality(known \cap ids)
    BY <1>4, <1>5, FS_Union, Zenon
  <2>2. QED
    BY <2>1, <1>4, <1>5, <1>6
<1>8. Cardinality(known \cup ids) \in Nat /\ Cardinality(known \cup ids) < Cardinality(Ids)
  BY <1>4, <1>5, <1>6, <1>7, FS_CardinalityType, CheckpointAssumption
<1>9. ~(Ids \subseteq known \cup ids)
  BY <1>7, <1>8, <1>6, FS_Subset
<1>10. \E i : i \in Ids \ (known \cup ids)
  BY <1>9
<1>11. Fresh \in Ids \ (known \cup ids)
  BY <1>10, <1>2 DEF Fresh
<1>12. QED
  BY <1>11, <1>2

(***************************************************************************)
(* What is forgotten is in no register and is nobody else's.               *)
(***************************************************************************)
LEMMA KeepFacts ==
    ASSUME Types, NEW records \in [Ids -> RecordType], NEW keys, NEW c \in Calls
    PROVE  /\ Keep(records, keys, c) \in [Ids -> RecordType]
           /\ \A i \in Ids : \/ Keep(records, keys, c)[i] = records[i]
                             \/ /\ Keep(records, keys, c)[i] = NoRecord /\ i \notin keys
                                /\ \A d \in Calls : d # c => its[d].id # i
<1>1. NoRecord \in RecordType
  BY CheckpointAssumption DEF NoRecord, RecordType
<1>2. QED
  BY <1>1 DEF Keep

(***************************************************************************)
(* A bridge call runs in the generation it was issued in, or is lost with  *)
(* a process that has died by then.                                        *)
(***************************************************************************)
GimpTypes ==
    /\ generation \in Nat /\ up \in BOOLEAN
    /\ doc \in [Images -> 0 .. MaxDocs]
    /\ used \in 0 .. MaxImages /\ docs \in 0 .. MaxDocs
    /\ troubles \in 0 .. MaxTroubles
    /\ generation <= troubles

(***************************************************************************)
(* What becomes of the images in one process: they are opened under the    *)
(* next number, and closed.                                                *)
(***************************************************************************)
Later ==
    /\ generation' = generation /\ used <= used'
    /\ \A n \in Images : n <= used => doc'[n] \in {doc[n], 0}
    /\ \A n \in Images : n > used' => doc'[n] = 0

LEMMA StaysLater ==
    ASSUME Types, Unopened, UNCHANGED <<generation, doc, used>>
    PROVE  Later
BY CheckpointAssumption DEF Types, Unopened, Later, Images

LEMMA OpensLater ==
    ASSUME Types, Unopened, NEW x, used < MaxImages, generation' = generation,
           used' = used + 1, doc' = [doc EXCEPT ![used + 1] = x]
    PROVE  Later
BY CheckpointAssumption DEF Types, Unopened, Later, Images

LEMMA ClosesLater ==
    ASSUME Types, Unopened, NEW n \in Images, UNCHANGED <<generation, used>>,
           doc' = [doc EXCEPT ![n] = 0]
    PROVE  Later
BY CheckpointAssumption DEF Types, Unopened, Later, Images

LEMMA DiesFacts ==
    ASSUME Types, generation <= troubles, Trouble, Dies, UNCHANGED docs
    PROVE  GimpTypes'
<1>1. generation' \in Nat /\ troubles' \in 0 .. MaxTroubles /\ generation' <= troubles'
  BY CheckpointAssumption DEF Types, Trouble, Dies
<1>2. doc' \in [Images -> 0 .. MaxDocs] /\ used' \in 0 .. MaxImages /\ docs' \in 0 .. MaxDocs
  BY CheckpointAssumption DEF Types, Dies
<1>3. QED
  BY <1>1, <1>2 DEF Dies, GimpTypes

LEMMA LostFacts ==
    ASSUME Types, generation <= troubles, NEW c \in Calls, NEW what, Lost(c, what)
    PROVE  /\ pc[c] = what /\ line # <<>> /\ Head(line) = c
           /\ GimpTypes'
           /\ UNCHANGED <<generation, doc, used>> \/ Dies
<1>1. CASE UNCHANGED <<generation, up, doc, used, troubles>>
  BY <1>1 DEF Lost, AtHead, Types, GimpTypes
<1>2. CASE Trouble /\ Dies
  BY <1>2, DiesFacts DEF Lost, AtHead
<1>3. QED
  BY <1>1, <1>2 DEF Lost

-----------------------------------------------------------------------------
(* What a step leaves as it is. *)

Same(d) == pc'[d] = pc[d] /\ its'[d] = its[d] /\ issuedIn'[d] = issuedIn[d]

(***************************************************************************)
(* Records that differ in their openness only.                             *)
(***************************************************************************)
Alike(r, s) ==
    /\ r.image = s.image /\ r.generation = s.generation
    /\ r.pending <=> s.pending
    /\ r.shows = s.shows
    /\ r.early <=> s.early

(***************************************************************************)
(* A call that does not move is as it was, if the record that it works on  *)
(* is.                                                                     *)
(***************************************************************************)
LEMMA CallStep ==
    ASSUME IInv, Types', GimpTypes', Later \/ Dies, NEW d \in Calls, Same(d),
           pc[d] \in Working \cup {"export"} => Alike(record'[its[d].id], record[its[d].id])
    PROVE  issuedIn'[d] <= generation' /\ Holds(d)' /\ Closes(d)' /\ Exports(d)'
<1>1. /\ issuedIn[d] <= generation /\ Holds(d) /\ Closes(d) /\ Exports(d)
      /\ issuedIn[d] \in Nat /\ generation \in Nat /\ generation' \in Nat
  BY DEF IInv, CallInv, Types, GimpTypes
<1>2. issuedIn'[d] <= generation'
  BY <1>1 DEF Same, Later, Dies
<1>3. Holds(d)'
  BY <1>1 DEF Same, Holds, Alike
<1>4. CASE Later
  <2>1. ASSUME pc'[d] = "close", issuedIn'[d] = generation',
               NEW n \in {its'[d].image, its'[d].opened}
        PROVE  /\ n \in Images /\ n <= used'
               /\ doc'[n] # 0 => doc'[n] = record'[its'[d].id].shows
    <3>1. n \in Images /\ n <= used /\ (doc[n] # 0 => doc[n] = record[its[d].id].shows)
      BY <1>1, <1>4, <2>1 DEF Same, Later, Closes, ShowsIts
    <3>2. record'[its[d].id].shows = record[its[d].id].shows
      BY <2>1 DEF Same, Working, Alike
    <3>3. QED
      BY <1>4, <2>1, <3>1, <3>2 DEF Same, Later, IInv, Types, GimpTypes, Images
  <2>2. ASSUME pc'[d] = "export", issuedIn'[d] = generation',
               record'[its'[d].id].image # its'[d].image
        PROVE  its'[d].image <= used' /\ doc'[its'[d].image] = 0
    <3>1. its[d].image \in Images /\ its[d].image <= used /\ doc[its[d].image] = 0
      BY <1>1, <1>4, <2>2 DEF Same, Later, Exports, Holds, Alike
    <3>2. QED
      BY <1>4, <2>2, <3>1 DEF Same, Later, IInv, Types, GimpTypes, Images
  <2>3. QED
    BY <1>2, <1>3, <2>1, <2>2 DEF Closes, Exports, ShowsIts
<1>5. CASE Dies
  <2>1. issuedIn'[d] # generation'
    BY <1>1, <1>5 DEF Same, Dies
  <2>2. QED
    BY <1>2, <1>3, <2>1 DEF Closes, Exports
<1>6. QED
  BY <1>4, <1>5

(***************************************************************************)
(* So is a record, when its openness changes or it is forgotten.           *)
(***************************************************************************)
LEMMA RecordStep ==
    ASSUME IInv, Types', GimpTypes', Later \/ Dies, NEW i \in Ids,
           Alike(record'[i], record[i]) \/ record'[i] = NoRecord
    PROVE  record'[i].generation <= generation' /\ Shows(i)'
<1>1. /\ record[i].generation <= generation /\ Shows(i) /\ record[i].generation \in Nat
      /\ generation \in Nat /\ generation' \in Nat
  BY DEF IInv, RecordInv, Types, GimpTypes, RecordType
<1>2. CASE record'[i] = NoRecord
  BY <1>1, <1>2, CheckpointAssumption DEF NoRecord, Shows, Images
<1>3. CASE Alike(record'[i], record[i])
  <2>1. record'[i].generation <= generation'
    BY <1>1, <1>3 DEF Alike, Later, Dies
  <2>2. ASSUME ~record'[i].pending, record'[i].generation = generation',
               record'[i].image \in Images
        PROVE  /\ record'[i].image <= used'
               /\ doc'[record'[i].image] # 0 => doc'[record'[i].image] = record'[i].shows
    <3>1. Later
      BY <1>1, <1>3, <2>2 DEF Alike, Dies
    <3>2. /\ record[i].image <= used
          /\ doc[record[i].image] # 0 => doc[record[i].image] = record[i].shows
      BY <1>1, <1>3, <2>2, <3>1 DEF Alike, Later, Shows, ShowsIts
    <3>3. QED
      BY <1>3, <2>2, <3>1, <3>2 DEF Alike, Later, IInv, Types, GimpTypes, Images
  <2>3. QED
    BY <2>1, <2>2 DEF Shows, ShowsIts
<1>4. QED
  BY <1>2, <1>3

(***************************************************************************)
(* A record of the registry that is not marked gone wrongly.               *)
(***************************************************************************)
GoneRightly(i) ==
    \/ record'[i].open
    \/ record'[i].open <=> record[i].open
    \/ record'[i].generation # generation'
    \/ doc'[record'[i].image] = 0

Gone(i) ==
    (~record[i].open /\ record[i].generation = generation /\ ~record[i].early) =>
        doc[record[i].image] = 0

LEMMA KnownStep ==
    ASSUME IInv, Types', GimpTypes', Later \/ Dies, NEW i \in known,
           record'[i].image = record[i].image, record'[i].generation = record[i].generation,
           record'[i].early <=> record[i].early, GoneRightly(i)
    PROVE  Names(i)' /\ Gone(i)'
<1>1. /\ i \in Ids /\ record[i].generation <= generation /\ record[i].generation \in Nat
      /\ generation \in Nat /\ generation' \in Nat /\ Names(i) /\ Gone(i)
  BY DEF IInv, Types, RecordInv, RecordType, GimpTypes, KnownInv, GoneIsGone, Gone
<1>2. record'[i].image \in Images
  BY <1>1 DEF Names
<1>3. ASSUME record'[i].generation = generation', ~record'[i].early
      PROVE  /\ Later /\ record[i].generation = generation /\ ~record[i].early
             /\ record[i].image \in Images /\ record[i].image <= used
  <2>1. Later
    BY <1>1, <1>3 DEF Dies
  <2>2. record[i].generation = generation
    BY <1>3, <2>1 DEF Later
  <2>3. QED
    BY <1>1, <1>3, <2>1, <2>2 DEF Names
<1>4. Names(i)'
  BY <1>2, <1>3 DEF Names, Later, IInv, Types, GimpTypes, Images
<1>5. Gone(i)'
  <2>1. SUFFICES ASSUME ~record'[i].open, record'[i].generation = generation', ~record'[i].early
                 PROVE  doc'[record'[i].image] = 0
    BY DEF Gone
  <2>2. CASE record'[i].open <=> record[i].open
    BY <1>1, <1>3, <2>1, <2>2 DEF Gone, Later
  <2>3. QED
    BY <2>1, <2>2 DEF GoneRightly
<1>6. QED
  BY <1>4, <1>5

LEMMA UnopenedStep ==
    ASSUME Later \/ Dies
    PROVE  Unopened'
BY DEF Unopened, Later, Dies

LEMMA TotalStep ==
    ASSUME IInv, known' \subseteq known
    PROVE  TotalCap'
<1>1. IsFiniteSet(known) /\ Cardinality(known) \in Nat
  BY FS_Subset, FS_CardinalityType, CheckpointAssumption DEF IInv, Types
<1>2. Cardinality(known') \in Nat /\ Cardinality(known') <= Cardinality(known)
  BY <1>1, FS_Subset, FS_CardinalityType
<1>3. QED
  BY <1>1, <1>2, CheckpointAssumption DEF IInv, TotalCap

-----------------------------------------------------------------------------
(* Steps that reserve nothing, settle nothing and restore nothing. *)

(***************************************************************************)
(* A call that neither exports nor closes.                                 *)
(***************************************************************************)
Harmless(d) ==
    /\ pc[d] \notin {"export", "close"}
    /\ issuedIn[d] <= generation
    /\ Holds(d)

LEMMA QuietStep ==
    ASSUME IInv, Types', GimpTypes', Lined', Later \/ Dies,
           \A d \in Calls : Same(d) \/ Harmless(d)',
           \A i \in Ids :
               \/ Alike(record'[i], record[i])
               \/ /\ record'[i] = NoRecord /\ i \notin known'
                  /\ \A d \in Calls : Harmless(d)' \/ its[d].id # i,
           \A i \in known' : GoneRightly(i),
           known' \subseteq known
    PROVE  IInv'
<1>1. ASSUME NEW d \in Calls
      PROVE  issuedIn'[d] <= generation' /\ Holds(d)' /\ Closes(d)' /\ Exports(d)'
  <2>1. CASE Harmless(d)'
    BY <2>1 DEF Harmless, Closes, Exports
  <2>2. CASE ~Harmless(d)'
    <3>1. Same(d)
      BY <2>2
    <3>2. pc[d] \in Working \cup {"export"} => Alike(record'[its[d].id], record[its[d].id])
      BY <2>2 DEF IInv, CallInv, Holds
    <3>3. QED
      BY <3>1, <3>2, CallStep
  <2>3. QED
    BY <2>1, <2>2
<1>2. Apart'
  BY DEF IInv, Apart, Harmless, Same
<1>3. ASSUME NEW i \in Ids
      PROVE  record'[i].generation <= generation' /\ Shows(i)'
  BY RecordStep
<1>4. ASSUME NEW i \in known'
      PROVE  Names(i)' /\ Gone(i)'
  <2>1. i \in known /\ Alike(record'[i], record[i]) /\ GoneRightly(i)
    BY DEF IInv, Types
  <2>2. QED
    BY <2>1, KnownStep DEF Alike
<1>5. QED
  BY <1>1, <1>2, <1>3, <1>4, UnopenedStep, TotalStep
     DEF IInv, GimpTypes, CallInv, RecordInv, KnownInv, GoneIsGone, Gone

-----------------------------------------------------------------------------
(* The steps. *)

LEMMA InitStep == Init => IInv
<1>1. SUFFICES ASSUME Init PROVE IInv
  OBVIOUS
<1>2. Types
  <2>1. record \in [Ids -> RecordType] /\ its \in [Calls -> LocalsType]
    BY <1>1, CheckpointAssumption DEF Init, NoRecord, NoLocals, RecordType, LocalsType
  <2>2. doc \in [Images -> 0 .. MaxDocs] /\ line \in Seq(Calls)
    BY <1>1, CheckpointAssumption DEF Init
  <2>3. pc \in [Calls -> Awaits] /\ issuedIn \in [Calls -> Nat]
    BY <1>1 DEF Init, Awaits
  <2>4. /\ generation \in Nat /\ used \in 0 .. MaxImages
        /\ docs \in 0 .. MaxDocs /\ troubles \in 0 .. MaxTroubles
    BY <1>1, CheckpointAssumption DEF Init
  <2>6. known \subseteq Ids /\ file \subseteq Ids /\ up \in BOOLEAN
    BY <1>1 DEF Init
  <2>5. QED
    BY <2>1, <2>2, <2>3, <2>4, <2>6 DEF Types
<1>3. generation <= troubles /\ Lined /\ Unopened
  BY <1>1, CheckpointAssumption DEF Init, Lined, Unopened
<1>4. CallInv /\ Apart
  BY <1>1 DEF Init, CallInv, Holds, Closes, Exports, Apart, Working
<1>5. RecordInv
  BY <1>1, CheckpointAssumption DEF Init, NoRecord, RecordInv, Shows, Images
<1>6. KnownInv /\ GoneIsGone
  BY <1>1 DEF Init, KnownInv, GoneIsGone
<1>7. TotalCap
  BY <1>1, FS_EmptySet, CheckpointAssumption, SMT DEF Init, TotalCap
<1>8. QED
  BY <1>2, <1>3, <1>4, <1>5, <1>6, <1>7 DEF IInv

(***************************************************************************)
(* The environment moves no call and touches no record.                    *)
(***************************************************************************)
LEMMA ProcessStep ==
    ASSUME IInv, GimpTypes', Later \/ Dies,
           UNCHANGED <<record, known, pc, its, line, issuedIn>>, file' \subseteq file
    PROVE  IInv'
<1>1. Types'
  BY DEF IInv, Types, GimpTypes
<1>2. Lined'
  BY DEF IInv, Lined
<1>3. /\ \A d \in Calls : Same(d)
      /\ \A i \in Ids : Alike(record'[i], record[i])
      /\ \A i \in known' : GoneRightly(i)
  BY DEF Same, Alike, GoneRightly
<1>4. QED
  BY <1>1, <1>2, <1>3, QuietStep

LEMMA EnvironmentStep ==
    ASSUME IInv, OpenDocument \/ CloseDocument \/ Die \/ LoseFile
    PROVE  IInv'
<1> USE DEF IInv
<1>1. CASE OpenDocument
  <2>1. GimpTypes'
    BY <1>1, CheckpointAssumption DEF OpenDocument, Types, GimpTypes, Images
  <2>2. Later
    BY <1>1, OpensLater DEF OpenDocument
  <2>3. QED
    BY <1>1, <2>1, <2>2, ProcessStep DEF OpenDocument, store
<1>2. CASE CloseDocument
  <2>1. PICK n \in Images : doc' = [doc EXCEPT ![n] = 0]
    BY <1>2 DEF CloseDocument
  <2>2. GimpTypes'
    BY <1>2, <2>1, CheckpointAssumption DEF CloseDocument, Types, GimpTypes
  <2>3. Later
    BY <1>2, <2>1, ClosesLater DEF CloseDocument
  <2>4. QED
    BY <1>2, <2>2, <2>3, ProcessStep DEF CloseDocument, store
<1>3. CASE Die
  <2>1. GimpTypes'
    BY <1>3, DiesFacts DEF Die
  <2>2. QED
    BY <1>3, <2>1, ProcessStep DEF Die, store
<1>4. CASE LoseFile
  <2>1. GimpTypes'
    BY <1>4, CheckpointAssumption DEF LoseFile, Trouble, gimp, Types, GimpTypes
  <2>2. Later
    BY <1>4, StaysLater DEF LoseFile, gimp
  <2>3. QED
    BY <1>4, <2>1, <2>2, ProcessStep DEF LoseFile
<1>5. QED
  BY <1>1, <1>2, <1>3, <1>4

(***************************************************************************)
(* A call that returns holds nothing any more, and what it forgets is      *)
(* nobody's.                                                               *)
(***************************************************************************)
BridgeOk(c) == pc[c] \in BridgeCalls => line # <<>> /\ Head(line) = c

LEMMA ForgetStep ==
    ASSUME IInv, GimpTypes', Later \/ Dies, NEW c \in Calls, BridgeOk(c), Return(c),
           known' \subseteq known, file' \subseteq file, record' = Keep(record, known', c)
    PROVE  IInv'
<1>1. /\ pc' \in [Calls -> Awaits] /\ its' \in [Calls -> LocalsType]
      /\ line' \in Seq(Calls) /\ issuedIn' \in [Calls -> Nat] /\ Lined'
      /\ pc'[c] = "idle" /\ issuedIn'[c] = 0
      /\ \A d \in Calls \ {c} : Same(d)
  BY ReturnFacts DEF IInv, BridgeOk, Same
<1>2. /\ record' \in [Ids -> RecordType]
      /\ \A i \in Ids : \/ record'[i] = record[i]
                        \/ /\ record'[i] = NoRecord /\ i \notin known'
                           /\ \A d \in Calls : d # c => its[d].id # i
  BY KeepFacts DEF IInv, Types
<1>3. Types'
  BY <1>1, <1>2 DEF IInv, Types, GimpTypes
<1>4. Harmless(c)'
  BY <1>1 DEF Harmless, Holds, Working, GimpTypes
<1>5. \A i \in Ids :
          \/ Alike(record'[i], record[i])
          \/ /\ record'[i] = NoRecord /\ i \notin known'
             /\ \A d \in Calls : Harmless(d)' \/ its[d].id # i
  BY <1>2, <1>4 DEF Alike
<1>6. \A i \in known' : GoneRightly(i)
  BY <1>2 DEF IInv, Types, GoneRightly
<1>7. QED
  BY <1>1, <1>3, <1>4, <1>5, <1>6, QuietStep

(***************************************************************************)
(* Nothing but the locals of a call changes, and it holds a settled record *)
(* or nothing.                                                             *)
(***************************************************************************)
LEMMA MoveStep ==
    ASSUME IInv, GimpTypes', Later, NEW c \in Calls, UNCHANGED <<record, known>>, file' \subseteq file,
           pc' \in [Calls -> Awaits], its' \in [Calls -> LocalsType], line' \in Seq(Calls),
           issuedIn' \in [Calls -> Nat], Lined',
           \A d \in Calls \ {c} : Same(d), Harmless(c)'
    PROVE  IInv'
<1>1. Types'
  BY DEF IInv, Types, GimpTypes
<1>2. /\ \A i \in Ids : Alike(record'[i], record[i])
      /\ \A i \in known' : GoneRightly(i)
  BY DEF Alike, GoneRightly
<1>3. QED
  BY <1>1, <1>2, QuietStep

LEMMA DeleteStep ==
    ASSUME IInv, NEW c \in Calls, Delete(c)
    PROVE  IInv'
<1>1. PICK i \in Settled : its' = [its EXCEPT ![c].id = i]
  BY DEF Delete
<1>2. /\ i \in Ids /\ ~record[i].pending /\ record[i].image \in Images
  BY <1>1 DEF Settled, IInv, Types, KnownInv, Names
<1>3. /\ pc' \in [Calls -> Awaits] /\ its' \in [Calls -> LocalsType]
      /\ pc'[c] = "rm" /\ its'[c].id = i
      /\ \A d \in Calls \ {c} : Same(d)
  BY <1>1, <1>2 DEF Delete, IInv, Types, LocalsType, Awaits, Same
<1>4. \A j \in 1 .. Len(line) : line[j] # c
  BY DEF Delete, IInv, Lined, BridgeCalls
<1>5. Lined' /\ line' \in Seq(Calls) /\ issuedIn' \in [Calls -> Nat]
  BY <1>3, <1>4 DEF Delete, IInv, Types, Lined, Same
<1>6. Harmless(c)'
  BY <1>2, <1>3 DEF Delete, store, gimp, Harmless, Holds, Working, IInv, CallInv
<1>7. GimpTypes' /\ Later
  BY StaysLater DEF Delete, gimp, IInv, Types, GimpTypes
<1>8. QED
  BY <1>3, <1>5, <1>6, <1>7, MoveStep DEF Delete, store

LEMMA RestoreStep ==
    ASSUME IInv, NEW c \in Calls, Restore(c)
    PROVE  IInv'
<1>1. PICK i \in Settled : Issue(c, "open", [NoLocals EXCEPT !.id = i], generation)
  BY DEF Restore
<1>2. /\ i \in Ids /\ ~record[i].pending /\ record[i].image \in Images
      /\ [NoLocals EXCEPT !.id = i] \in LocalsType /\ [NoLocals EXCEPT !.id = i].id = i
      /\ generation \in Nat
  <2>1. i \in Ids /\ ~record[i].pending /\ record[i].image \in Images /\ generation \in Nat
    BY <1>1 DEF Settled, IInv, Types, KnownInv, Names
  <2>2. [NoLocals EXCEPT !.id = i] \in LocalsType /\ [NoLocals EXCEPT !.id = i].id = i
    BY <2>1, CheckpointAssumption DEF NoLocals, LocalsType
  <2>3. QED
    BY <2>1, <2>2
<1>3. /\ pc' \in [Calls -> Awaits] /\ its' \in [Calls -> LocalsType]
      /\ line' \in Seq(Calls) /\ issuedIn' \in [Calls -> Nat] /\ Lined'
      /\ pc'[c] = "open" /\ its'[c].id = i /\ issuedIn'[c] = generation
      /\ \A d \in Calls \ {c} : Same(d)
  BY <1>1, <1>2, IssueFacts DEF Restore, IInv, BridgeCalls, Same
<1>4. Harmless(c)'
  BY <1>2, <1>3 DEF Restore, store, gimp, Harmless, Holds, Working
<1>5. GimpTypes' /\ Later
  BY StaysLater DEF Restore, gimp, IInv, Types, GimpTypes
<1>6. QED
  BY <1>3, <1>4, <1>5, MoveStep DEF Restore, store

LEMMA RmStep ==
    ASSUME IInv, NEW c \in Calls, Rm(c)
    PROVE  IInv'
<1>1. GimpTypes' /\ Later
  BY StaysLater, CheckpointAssumption DEF Rm, Trouble, gimp, IInv, Types, GimpTypes
<1>2. CASE pc' = [pc EXCEPT ![c] = "unregister"] /\ UNCHANGED <<record, known, its, line, issuedIn>> /\ file' = file \ {its[c].id}
  <2>1. /\ pc' \in [Calls -> Awaits] /\ pc'[c] = "unregister"
        /\ \A d \in Calls \ {c} : Same(d)
    BY <1>2 DEF IInv, Types, Awaits, Same
  <2>2. \A j \in 1 .. Len(line) : line[j] # c
    BY DEF Rm, IInv, Lined, BridgeCalls
  <2>3. Lined'
    BY <1>2, <2>1, <2>2 DEF IInv, Types, Lined, Same
  <2>4. Harmless(c)'
    BY <1>1, <1>2, <2>1 DEF Rm, gimp, Harmless, Holds, Working, IInv, CallInv
  <2>5. QED
    BY <1>1, <1>2, <2>1, <2>3, <2>4, MoveStep DEF IInv, Types
<1>3. CASE Return(c) /\ record' = Keep(record, known, c) /\ UNCHANGED <<known, file>>
  BY <1>1, <1>3, ForgetStep DEF Rm, BridgeOk, BridgeCalls
<1>4. QED
  BY <1>2, <1>3 DEF Rm

LEMMA UnregisterStep ==
    ASSUME IInv, NEW c \in Calls, Unregister(c)
    PROVE  IInv'
<1>1. GimpTypes' /\ Later
  BY StaysLater DEF Unregister, gimp, IInv, Types, GimpTypes
<1>2. QED
  BY <1>1, ForgetStep DEF Unregister, BridgeOk, BridgeCalls

-----------------------------------------------------------------------------
(* Refreshing, and what a create does after it. *)

(***************************************************************************)
(* A refresh changes the openness of records only, and rightly.            *)
(***************************************************************************)
Refresh(records) ==
    /\ records \in [Ids -> RecordType]
    /\ \A i \in Ids : Alike(records[i], record[i])
    /\ \A i \in known : \/ records[i].open
                        \/ records[i].open <=> record[i].open
                        \/ records[i].generation # generation'
                        \/ doc'[records[i].image] = 0

LEMMA RefreshFacts ==
    ASSUME Types
    PROVE  /\ Refresh(record)
           /\ Refresh(OfNow(generation'))
           /\ doc' = doc => Refresh(Listed)
<1>1. Refresh(record)
  BY DEF Types, Refresh, Alike
<1>2. Refresh(OfNow(generation'))
  <2>1. PICK records : records = OfNow(generation')
    OBVIOUS
  <2>2. \A i \in Ids : records[i] = IF i \in known /\ record[i].generation # generation'
                                    THEN [record[i] EXCEPT !.open = FALSE] ELSE record[i]
    BY <2>1 DEF OfNow
  <2>3. records \in [Ids -> RecordType]
    BY <2>1 DEF OfNow, Types, RecordType
  <2>4. \A i \in Ids : Alike(records[i], record[i])
    BY <2>2 DEF Types, RecordType, Alike
  <2>5. \A i \in known : \/ records[i].open <=> record[i].open
                         \/ records[i].generation # generation'
    BY <2>2 DEF Types, RecordType
  <2>6. QED
    BY <2>1, <2>3, <2>4, <2>5 DEF Refresh
<1>3. ASSUME doc' = doc PROVE Refresh(Listed)
  <2>1. PICK records : records = Listed
    OBVIOUS
  <2>2. \A i \in Ids : records[i] = IF i \in known /\ doc[record[i].image] = 0
                                    THEN [record[i] EXCEPT !.open = FALSE] ELSE record[i]
    BY <2>1 DEF Listed
  <2>3. records \in [Ids -> RecordType]
    BY <2>1 DEF Listed, Types, RecordType
  <2>4. ASSUME NEW i \in Ids PROVE Alike(records[i], record[i])
    <3>1. record[i] \in RecordType
      BY DEF Types
    <3>2. records[i] = record[i] \/ records[i] = [record[i] EXCEPT !.open = FALSE]
      BY <2>2
    <3>3. QED
      BY <3>1, <3>2 DEF RecordType, Alike
  <2>5. \A i \in known : \/ records[i].open <=> record[i].open
                         \/ doc'[records[i].image] = 0
    BY <1>3, <2>2 DEF Types, RecordType
  <2>6. QED
    BY <2>1, <2>3, <2>4, <2>5 DEF Refresh
<1>4. QED
  BY <1>1, <1>2, <1>3

(***************************************************************************)
(* A call that refreshes, and waits for a ping or returns.                 *)
(***************************************************************************)
LEMMA RefreshStep ==
    ASSUME IInv, GimpTypes', Later \/ Dies, NEW c \in Calls, Refresh(record'),
           UNCHANGED <<known, file>>,
           pc' \in [Calls -> Awaits], its' \in [Calls -> LocalsType], line' \in Seq(Calls),
           issuedIn' \in [Calls -> Nat], Lined',
           \A d \in Calls \ {c} : Same(d), Harmless(c)'
    PROVE  IInv'
<1>1. Types'
  BY DEF IInv, Types, GimpTypes, Refresh
<1>2. /\ \A i \in Ids : Alike(record'[i], record[i])
      /\ \A i \in known' : GoneRightly(i)
  BY DEF Refresh, GoneRightly
<1>3. QED
  BY <1>1, <1>2, QuietStep

LEMMA ListStep ==
    ASSUME IInv, NEW c \in Calls, List(c)
    PROVE  IInv'
<1>1. GimpTypes' /\ Later
  BY StaysLater DEF List, gimp, IInv, Types, GimpTypes
<1>2. Refresh(record')
  BY RefreshFacts DEF List, gimp, IInv
<1>3. CASE Issue(c, "pingForList", NoLocals, generation)
  <2>1. NoLocals \in LocalsType /\ generation \in Nat
    BY CheckpointAssumption DEF NoLocals, LocalsType, IInv, Types
  <2>2. /\ pc' \in [Calls -> Awaits] /\ its' \in [Calls -> LocalsType]
        /\ line' \in Seq(Calls) /\ issuedIn' \in [Calls -> Nat] /\ Lined'
        /\ pc'[c] = "pingForList" /\ issuedIn'[c] = generation
        /\ \A d \in Calls \ {c} : Same(d)
    BY <1>3, <2>1, IssueFacts DEF List, IInv, BridgeCalls, Same
  <2>3. Harmless(c)'
    BY <2>1, <2>2 DEF List, gimp, Harmless, Holds, Working
  <2>4. QED
    BY <1>1, <1>2, <2>2, <2>3, RefreshStep DEF List
<1>4. CASE UNCHANGED <<pc, its, line, issuedIn>>
  <2>1. \A d \in Calls : Same(d)
    BY <1>4 DEF Same
  <2>2. Lined'
    BY <1>4 DEF IInv, Lined
  <2>3. Harmless(c)'
    BY <1>4 DEF List, gimp, Harmless, Holds, Working, IInv, CallInv
  <2>4. QED
    BY <1>1, <1>2, <1>4, <2>1, <2>2, <2>3, RefreshStep DEF List, IInv, Types
<1>5. QED
  BY <1>3, <1>4 DEF List

LEMMA ListRefreshedStep ==
    ASSUME IInv, NEW c \in Calls, ListRefreshed(c)
    PROVE  IInv'
<1>1. /\ GimpTypes' /\ (Later \/ Dies) /\ Refresh(record')
      /\ line # <<>> /\ Head(line) = c
  <2>1. CASE Runs(c, "pingForList") /\ record' = Listed /\ UNCHANGED <<generation, doc, used, docs, troubles>>
    <3>1. GimpTypes' /\ Later
      BY <2>1, StaysLater DEF Runs, IInv, Types, GimpTypes
    <3>2. QED
      BY <2>1, <3>1, RefreshFacts DEF Runs, AtHead, IInv
  <2>2. CASE Lost(c, "pingForList") /\ record' = OfNow(generation')
    BY <2>2, LostFacts, StaysLater, RefreshFacts DEF IInv
  <2>3. QED
    BY <2>1, <2>2 DEF ListRefreshed
<1>2. /\ pc' \in [Calls -> Awaits] /\ its' \in [Calls -> LocalsType]
      /\ line' \in Seq(Calls) /\ issuedIn' \in [Calls -> Nat] /\ Lined'
      /\ pc'[c] = "idle" /\ issuedIn'[c] = 0
      /\ \A d \in Calls \ {c} : Same(d)
  BY <1>1, ReturnFacts DEF ListRefreshed, IInv, Same
<1>3. Harmless(c)'
  BY <1>1, <1>2 DEF Harmless, Holds, Working, GimpTypes
<1>4. QED
  BY <1>1, <1>2, <1>3, RefreshStep DEF ListRefreshed

(***************************************************************************)
(* A create that finds a cap reached returns; one that does not reserves a *)
(* record that is nobody's.                                                *)
(***************************************************************************)
LEMMA ReserveStep ==
    ASSUME IInv, GimpTypes', Later \/ Dies, NEW c \in Calls, BridgeOk(c),
           NEW n \in Images, NEW records, Refresh(records),
           NEW g, g = generation', NEW given, given = used',
           Reserve(c, n, records, g, given)
    PROVE  IInv'
<1>1. CASE Full(records, n)
  <2>1. Return(c) /\ record' = records /\ UNCHANGED <<known, file>>
    BY <1>1 DEF Reserve
  <2>2. /\ pc' \in [Calls -> Awaits] /\ its' \in [Calls -> LocalsType]
        /\ line' \in Seq(Calls) /\ issuedIn' \in [Calls -> Nat] /\ Lined'
        /\ pc'[c] = "idle" /\ issuedIn'[c] = 0
        /\ \A d \in Calls \ {c} : Same(d)
    BY <2>1, ReturnFacts DEF IInv, BridgeOk, Same
  <2>3. Harmless(c)'
    BY <2>2 DEF Harmless, Holds, Working, GimpTypes
  <2>4. QED
    BY <2>1, <2>2, <2>3, RefreshStep
<1>2. CASE ~Full(records, n)
  <2>1. IsFiniteSet(known) /\ Cardinality(known) \in Nat /\ Cardinality(known) < MaxTotal
    <3>1. IsFiniteSet(known) /\ Cardinality(known) \in Nat
      BY FS_Subset, FS_CardinalityType, CheckpointAssumption DEF IInv, Types
    <3>2. QED
      BY <1>2, <3>1, CheckpointAssumption DEF Full
  <2>2. PICK i : i = Fresh
    OBVIOUS
  <2>3. i \in Ids /\ i \notin known /\ \A d \in Calls : its[d].id # i
    BY <2>1, <2>2, FreshFacts DEF IInv
  <2>4. PICK mine : mine = [NoLocals EXCEPT !.id = i, !.image = n]
    OBVIOUS
  <2>5. mine \in LocalsType /\ mine.id = i /\ mine.image = n
    <3>1. mine = [id |-> i, image |-> n, opened |-> 0]
      BY <2>4 DEF NoLocals
    <3>2. n \in 0 .. MaxImages /\ 0 \in 0 .. MaxImages
      BY CheckpointAssumption DEF Images
    <3>3. QED
      BY <2>3, <3>1, <3>2 DEF LocalsType
  <2>6. /\ Issue(c, "export", mine, g) /\ known' = known \cup {i} /\ UNCHANGED file
        /\ record' = [records EXCEPT ![i] =
                [image |-> n, open |-> TRUE, generation |-> g, pending |-> TRUE, shows |-> 0,
                 early |-> n > given]]
    BY <1>2, <2>2, <2>4 DEF Reserve
  <2>7. /\ pc' \in [Calls -> Awaits] /\ its' \in [Calls -> LocalsType]
        /\ line' \in Seq(Calls) /\ issuedIn' \in [Calls -> Nat] /\ Lined'
        /\ pc'[c] = "export" /\ its'[c] = mine /\ issuedIn'[c] = g
        /\ \A d \in Calls \ {c} : Same(d)
    BY <2>5, <2>6, IssueFacts DEF IInv, BridgeOk, BridgeCalls, Same, GimpTypes
  <2>8. /\ record' \in [Ids -> RecordType]
        /\ \A j \in Ids \ {i} : record'[j] = records[j] /\ Alike(record'[j], record[j])
        /\ record'[i].image = n /\ record'[i].open /\ record'[i].generation = g
        /\ record'[i].pending /\ (record'[i].early <=> n > given)
    <3>1. [image |-> n, open |-> TRUE, generation |-> g, pending |-> TRUE, shows |-> 0,
           early |-> n > given] \in RecordType
      BY CheckpointAssumption DEF RecordType, GimpTypes, Images
    <3>2. QED
      BY <2>3, <2>6, <3>1 DEF Refresh
  <2>9. Types'
    BY <2>3, <2>6, <2>7, <2>8 DEF IInv, Types, GimpTypes
  <2>10. ASSUME NEW d \in Calls
         PROVE  issuedIn'[d] <= generation' /\ Holds(d)' /\ Closes(d)' /\ Exports(d)'
    <3>1. CASE d = c
      BY <2>3, <2>5, <2>7, <2>8, <3>1 DEF Holds, Closes, Exports, Working, GimpTypes
    <3>2. CASE d # c
      <4>1. pc[d] \in Working \cup {"export"} => its[d].id \in Ids /\ its[d].id # i
        BY <2>3 DEF IInv, CallInv, Holds
      <4>2. QED
        BY <2>7, <2>8, <2>9, <3>2, <4>1, CallStep
    <3>3. QED
      BY <3>1, <3>2
  <2>11. Apart'
    <3>1. SUFFICES ASSUME NEW d \in Calls, NEW e \in Calls, d # e,
                          pc'[d] = "export", pc'[e] = "export"
                   PROVE  its'[d].id # its'[e].id
      BY DEF Apart
    <3>2. CASE d = c \/ e = c
      BY <2>3, <2>5, <2>7, <3>1, <3>2 DEF Same
    <3>3. CASE d # c /\ e # c
      BY <2>7, <3>1, <3>3 DEF IInv, Apart, Same
    <3>4. QED
      BY <3>2, <3>3
  <2>12. ASSUME NEW j \in Ids
         PROVE  record'[j].generation <= generation' /\ Shows(j)'
    <3>1. CASE j = i
      BY <2>8, <3>1 DEF Shows, GimpTypes
    <3>2. CASE j # i
      BY <2>8, <2>9, <3>2, RecordStep
    <3>3. QED
      BY <3>1, <3>2
  <2>13. ASSUME NEW j \in known'
         PROVE  Names(j)' /\ Gone(j)'
    <3>1. CASE j = i
      BY <2>8, <3>1 DEF Names, Gone, GimpTypes, Images
    <3>2. CASE j # i
      <4>1. j \in known /\ j \in Ids
        BY <2>6, <3>2 DEF IInv, Types
      <4>2. GoneRightly(j)
        BY <2>8, <3>2, <4>1 DEF Refresh, GoneRightly
      <4>3. QED
        BY <2>8, <2>9, <3>2, <4>1, <4>2, KnownStep DEF Alike
    <3>3. QED
      BY <3>1, <3>2
  <2>14. TotalCap'
    <3>1. Cardinality(known \cup {i}) = Cardinality(known) + 1
      BY <2>1, <2>3, FS_AddElement
    <3>2. QED
      BY <2>1, <2>6, <3>1, CheckpointAssumption DEF TotalCap
  <2>15. QED
    BY <2>7, <2>9, <2>10, <2>11, <2>12, <2>13, <2>14, UnopenedStep
       DEF IInv, GimpTypes, CallInv, RecordInv, KnownInv, GoneIsGone, Gone
<1>3. QED
  BY <1>1, <1>2

LEMMA CreateStep ==
    ASSUME IInv, NEW c \in Calls, Create(c)
    PROVE  IInv'
<1>1. PICK n \in 1 .. MaxImages :
          IF known = {}
          THEN Reserve(c, n, record, generation, used)
          ELSE /\ record' = OfNow(generation)
               /\ Issue(c, "pingForCreate", [NoLocals EXCEPT !.image = n], generation)
               /\ UNCHANGED <<known, file>>
  BY DEF Create
<1>2. n \in Images
  BY CheckpointAssumption DEF IInv, Types, Images
<1>3. GimpTypes' /\ Later /\ generation' = generation /\ used' = used
  <2>1. UNCHANGED <<generation, up, doc, used, docs>> /\ (Trouble \/ UNCHANGED troubles)
    BY DEF Create, gimp
  <2>2. troubles \in 0 .. MaxTroubles /\ MaxTroubles \in Nat
    BY CheckpointAssumption DEF IInv, Types
  <2>3. troubles' \in 0 .. MaxTroubles /\ troubles <= troubles'
    BY <2>1, <2>2 DEF Trouble
  <2>4. QED
    BY <2>1, <2>2, <2>3, StaysLater DEF IInv, Types, GimpTypes
<1>4. BridgeOk(c)
  BY DEF Create, BridgeOk, BridgeCalls
<1>5. CASE Reserve(c, n, record, generation, used)
  BY <1>2, <1>3, <1>4, <1>5, RefreshFacts, ReserveStep DEF IInv
<1>6. CASE /\ record' = OfNow(generation)
           /\ Issue(c, "pingForCreate", [NoLocals EXCEPT !.image = n], generation)
           /\ UNCHANGED <<known, file>>
  <2>1. PICK mine : mine = [NoLocals EXCEPT !.image = n]
    OBVIOUS
  <2>2. mine \in LocalsType /\ mine.image = n
    <3>1. mine = [id |-> 0, image |-> n, opened |-> 0]
      BY <2>1 DEF NoLocals
    <3>2. n \in 0 .. MaxImages /\ 0 \in 0 .. MaxImages
      BY <1>2, CheckpointAssumption DEF Images
    <3>3. QED
      BY <3>1, <3>2 DEF LocalsType
  <2>3. generation \in Nat
    BY DEF IInv, Types
  <2>4. /\ pc' \in [Calls -> Awaits] /\ its' \in [Calls -> LocalsType]
        /\ line' \in Seq(Calls) /\ issuedIn' \in [Calls -> Nat] /\ Lined'
        /\ pc'[c] = "pingForCreate" /\ its'[c] = mine /\ issuedIn'[c] = generation
        /\ \A d \in Calls \ {c} : Same(d)
    BY <1>4, <1>6, <2>1, <2>2, <2>3, IssueFacts DEF IInv, BridgeOk, BridgeCalls, Same
  <2>5. Harmless(c)'
    BY <1>2, <1>3, <2>2, <2>3, <2>4 DEF Harmless, Holds, Working
  <2>6. Refresh(record')
    BY <1>3, <1>6, RefreshFacts DEF IInv
  <2>7. QED
    BY <1>3, <1>6, <2>4, <2>5, <2>6, RefreshStep
<1>7. QED
  BY <1>1, <1>5, <1>6

LEMMA RefreshedStep ==
    ASSUME IInv, NEW c \in Calls, Refreshed(c)
    PROVE  IInv'
<1>1. pc[c] = "pingForCreate" => its[c].image \in Images
  BY DEF IInv, CallInv, Holds
<1>2. CASE /\ Runs(c, "pingForCreate")
           /\ UNCHANGED <<generation, doc, used, docs, troubles>>
           /\ Reserve(c, its[c].image, Listed, generation, used)
  <2>1. GimpTypes' /\ Later
    BY <1>2, StaysLater DEF Runs, IInv, Types, GimpTypes
  <2>2. BridgeOk(c) /\ its[c].image \in Images
    BY <1>1, <1>2 DEF Runs, AtHead, BridgeOk
  <2>3. Refresh(Listed)
    BY <1>2, RefreshFacts DEF IInv
  <2>4. QED
    BY <1>2, <2>1, <2>2, <2>3, ReserveStep
<1>3. CASE /\ Lost(c, "pingForCreate")
           /\ Reserve(c, its[c].image, OfNow(generation'), generation', used')
  <2>1. /\ pc[c] = "pingForCreate" /\ BridgeOk(c) /\ GimpTypes' /\ (Later \/ Dies)
    BY <1>3, LostFacts, StaysLater DEF IInv, BridgeOk
  <2>2. Refresh(OfNow(generation'))
    BY RefreshFacts DEF IInv
  <2>3. PICK records, g, given : records = OfNow(generation') /\ g = generation' /\ given = used'
    OBVIOUS
  <2>4. QED
    BY <1>1, <1>3, <2>1, <2>2, <2>3, ReserveStep
<1>4. QED
  BY <1>2, <1>3 DEF Refreshed

(***************************************************************************)
(* An export settles its record with the document that the image shows.    *)
(***************************************************************************)
LEMMA ExportStep ==
    ASSUME IInv, NEW c \in Calls, Export(c)
    PROVE  IInv'
<1>1. CASE /\ Runs(c, "export") /\ UNCHANGED <<generation, doc, used, docs>>
           /\ IF doc[its[c].image] = 0 THEN UNCHANGED troubles ELSE Trouble
           /\ ExportFails(c)
  <2>1. GimpTypes' /\ Later
    BY <1>1, StaysLater, CheckpointAssumption DEF Runs, Trouble, IInv, Types, GimpTypes
  <2>2. QED
    BY <1>1, <2>1, ForgetStep DEF Runs, AtHead, BridgeOk, ExportFails
<1>2. CASE Lost(c, "export") /\ ExportFails(c)
  <2>1. BridgeOk(c) /\ GimpTypes' /\ (Later \/ Dies)
    BY <1>2, LostFacts, StaysLater DEF IInv, BridgeOk
  <2>2. QED
    BY <1>2, <2>1, ForgetStep DEF ExportFails
<1>3. CASE /\ Runs(c, "export") /\ UNCHANGED <<generation, doc, used, docs>>
           /\ doc[its[c].image] # 0
           /\ record' = [record EXCEPT ![its[c].id].pending = FALSE,
                                       ![its[c].id].shows = doc[its[c].image]]
           /\ file' = file \cup {its[c].id}
           /\ Return(c)
           /\ UNCHANGED <<known, troubles>>
  <2>1. PICK i, n : i = its[c].id /\ n = its[c].image
    OBVIOUS
  <2>2. /\ pc[c] = "export" /\ issuedIn[c] = generation /\ line # <<>> /\ Head(line) = c
        /\ i \in Ids /\ n \in Images /\ doc[n] # 0 /\ n <= used
    BY <1>3, <2>1, CheckpointAssumption
       DEF Runs, AtHead, IInv, CallInv, Holds, Unopened, Types, Images
  <2>3. GimpTypes' /\ Later
    BY <1>3, StaysLater DEF Runs, IInv, Types, GimpTypes
  <2>4. /\ pc' \in [Calls -> Awaits] /\ its' \in [Calls -> LocalsType]
        /\ line' \in Seq(Calls) /\ issuedIn' \in [Calls -> Nat] /\ Lined'
        /\ pc'[c] = "idle" /\ issuedIn'[c] = 0
        /\ \A d \in Calls \ {c} : Same(d)
    BY <1>3, <2>2, ReturnFacts DEF IInv, Same
  <2>5. /\ record' \in [Ids -> RecordType]
        /\ \A j \in Ids \ {i} : record'[j] = record[j]
        /\ record'[i].image = record[i].image /\ record'[i].generation = record[i].generation
        /\ record'[i].early <=> record[i].early
        /\ record'[i].open <=> record[i].open
        /\ record'[i].shows = doc[n]
    <3>1. doc[n] \in 0 .. MaxDocs /\ record[i] \in RecordType
      BY <2>2 DEF IInv, Types
    <3>2. \A j \in Ids : record'[j] = IF j = i THEN [record[i] EXCEPT !.pending = FALSE, !.shows = doc[n]]
                                      ELSE record[j]
      BY <1>3, <2>1, <2>2 DEF IInv, Types
    <3>3. [record[i] EXCEPT !.pending = FALSE, !.shows = doc[n]] \in RecordType
      BY <3>1 DEF RecordType
    <3>4. record' \in [Ids -> RecordType]
      BY <1>3, <2>1, <2>2, <3>1, <3>3 DEF IInv, Types, RecordType
    <3>5. QED
      BY <2>2, <3>1, <3>2, <3>4 DEF RecordType
  <2>6. Types'
    BY <1>3, <2>1, <2>2, <2>3, <2>4, <2>5 DEF IInv, Types, GimpTypes
  <2>7. ASSUME NEW d \in Calls
        PROVE  issuedIn'[d] <= generation' /\ Holds(d)' /\ Closes(d)' /\ Exports(d)'
    <3>1. CASE d = c
      BY <2>3, <2>4, <3>1 DEF Holds, Closes, Exports, Working, GimpTypes
    <3>2. CASE d # c
      <4>1. pc[d] \in Working \cup {"export"} => its[d].id \in Ids /\ its[d].id # i
        BY <2>1, <2>2, <3>2 DEF IInv, CallInv, Holds, Apart
      <4>2. pc[d] \in Working \cup {"export"} => Alike(record'[its[d].id], record[its[d].id])
        BY <2>5, <4>1 DEF Alike
      <4>3. QED
        BY <2>3, <2>4, <2>6, <3>2, <4>2, CallStep
    <3>3. QED
      BY <3>1, <3>2
  <2>8. Apart'
    BY <2>4 DEF IInv, Apart, Same
  <2>9. ASSUME NEW j \in Ids
        PROVE  record'[j].generation <= generation' /\ Shows(j)'
    <3>1. CASE j = i
      <4>1. record[i].image = n \/ doc[n] = 0
        BY <2>1, <2>2 DEF IInv, CallInv, Exports
      <4>2. record'[i].image = n
        BY <2>2, <2>5, <4>1
      <4>3. record'[i].generation <= generation'
        BY <1>3, <2>2, <2>5 DEF IInv, RecordInv
      <4>4. QED
        BY <1>3, <2>2, <2>5, <3>1, <4>2, <4>3 DEF Shows, ShowsIts
    <3>2. CASE j # i
      BY <2>3, <2>5, <2>6, <3>2, RecordStep DEF Alike
    <3>3. QED
      BY <3>1, <3>2
  <2>10. ASSUME NEW j \in known'
         PROVE  Names(j)' /\ Gone(j)'
    <3>1. j \in known /\ j \in Ids
      BY <1>3 DEF IInv, Types
    <3>2. /\ record'[j].image = record[j].image /\ record'[j].generation = record[j].generation
          /\ record'[j].early <=> record[j].early
          /\ GoneRightly(j)
      BY <2>5, <3>1 DEF GoneRightly
    <3>3. QED
      BY <2>3, <2>6, <3>1, <3>2, KnownStep
  <2>11. TotalCap'
    BY <1>3, TotalStep
  <2>12. QED
    BY <2>3, <2>4, <2>6, <2>7, <2>8, <2>9, <2>10, <2>11, UnopenedStep
       DEF IInv, GimpTypes, CallInv, RecordInv, KnownInv, GoneIsGone, Gone
<1>4. QED
  BY <1>1, <1>2, <1>3 DEF Export

-----------------------------------------------------------------------------
(* Restores. *)

(***************************************************************************)
(* Records under which, after the step, the registry would be right about  *)
(* every image but the one that the restore is to describe.                *)
(***************************************************************************)
Sound(records) ==
    /\ records \in [Ids -> RecordType]
    /\ \A i \in Ids :
          /\ records[i].generation = record[i].generation
          /\ records[i].pending <=> record[i].pending
          /\ records[i].shows = record[i].shows
          /\ record[i].image \in Images => records[i].image \in Images
    /\ \A i \in Ids :
          (~records[i].pending /\ records[i].generation = generation' /\ records[i].image \in Images) =>
              /\ records[i].image <= used'
              /\ doc'[records[i].image] # 0 => doc'[records[i].image] = records[i].shows
    /\ \A i \in known :
          (records[i].generation = generation' /\ ~records[i].early) =>
              records[i].image <= used' /\ (~records[i].open => doc'[records[i].image] = 0)
    /\ \A d \in Calls :
          (pc[d] = "export" /\ issuedIn[d] = generation') =>
              \/ records[its[d].id].image = its[d].image
              \/ its[d].image <= used' /\ doc'[its[d].image] = 0

LEMMA RefreshIsSound ==
    ASSUME IInv, GimpTypes', Later, NEW records, Refresh(records)
    PROVE  Sound(records)
<1>1. /\ generation' = generation /\ used \in 0 .. MaxImages /\ used' \in 0 .. MaxImages /\ used <= used'
      /\ \A n \in Images : n <= used => doc'[n] \in {doc[n], 0} /\ n <= used'
  BY CheckpointAssumption DEF IInv, Types, GimpTypes, Later, Images
<1>2. /\ records \in [Ids -> RecordType]
      /\ \A i \in Ids : Alike(records[i], record[i])
  BY DEF Refresh
<1>3. ASSUME NEW i \in Ids, ~records[i].pending, records[i].generation = generation',
             records[i].image \in Images
      PROVE  /\ records[i].image <= used'
             /\ doc'[records[i].image] # 0 => doc'[records[i].image] = records[i].shows
  <2>1. /\ record[i].image <= used
        /\ doc[record[i].image] # 0 => doc[record[i].image] = record[i].shows
    BY <1>1, <1>2, <1>3 DEF IInv, RecordInv, Shows, ShowsIts, Alike
  <2>2. QED
    BY <1>1, <1>2, <1>3, <2>1 DEF Alike
<1>4. ASSUME NEW i \in known, records[i].generation = generation', ~records[i].early
      PROVE  records[i].image <= used' /\ (~records[i].open => doc'[records[i].image] = 0)
  <2>1. i \in Ids /\ Alike(records[i], record[i])
    BY <1>2 DEF IInv, Types
  <2>2. /\ record[i].image \in Images /\ record[i].image <= used
        /\ ~record[i].open => doc[record[i].image] = 0
    BY <1>1, <1>4, <2>1 DEF IInv, KnownInv, Names, GoneIsGone, Alike
  <2>3. records[i].open \/ (records[i].open <=> record[i].open) \/ doc'[records[i].image] = 0
    BY <1>4 DEF Refresh
  <2>4. QED
    BY <1>1, <2>1, <2>2, <2>3 DEF Alike
<1>5. ASSUME NEW d \in Calls, pc[d] = "export", issuedIn[d] = generation'
      PROVE  \/ records[its[d].id].image = its[d].image
             \/ its[d].image <= used' /\ doc'[its[d].image] = 0
  BY <1>1, <1>2, <1>5 DEF IInv, CallInv, Holds, Exports, Alike
<1>6. QED
  BY <1>2, <1>3, <1>4, <1>5 DEF Sound, Alike

LEMMA SiblingsGoneFacts ==
    ASSUME Types, NEW n \in 0 .. MaxImages, NEW g \in Nat,
           g # generation' \/ doc'[n] = 0
    PROVE  Refresh(SiblingsGone(n, g))
<1>1. PICK records : records = SiblingsGone(n, g)
  OBVIOUS
<1>2. \A i \in Ids : records[i] = IF i \in known /\ record[i].image = n /\ record[i].generation = g
                                  THEN [record[i] EXCEPT !.open = FALSE] ELSE record[i]
  BY <1>1 DEF SiblingsGone, SameImage
<1>3. records \in [Ids -> RecordType]
  BY <1>1 DEF SiblingsGone, Types, RecordType
<1>4. ASSUME NEW i \in Ids
      PROVE  /\ Alike(records[i], record[i])
             /\ \/ records[i].open <=> record[i].open
                \/ records[i].generation # generation'
                \/ doc'[records[i].image] = 0
  <2>1. record[i] \in RecordType
    BY DEF Types
  <2>2. CASE records[i] = record[i]
    BY <2>2 DEF Alike
  <2>3. CASE /\ records[i] = [record[i] EXCEPT !.open = FALSE]
             /\ record[i].image = n /\ record[i].generation = g
    BY <2>1, <2>3 DEF RecordType, Alike
  <2>4. QED
    BY <1>2, <2>2, <2>3
<1>5. QED
  BY <1>1, <1>3, <1>4 DEF Refresh, Types

(***************************************************************************)
(* The siblings of a record whose image has been closed show the document  *)
(* that the image did, and so does the image they are pointed to.          *)
(***************************************************************************)
LEMMA RepointedIsSound ==
    ASSUME IInv, GimpTypes', NEW old \in Images, NEW new \in Images, NEW i \in Ids,
           doc[old] # 0, ShowsIts(old, i), ShowsIts(new, i),
           UNCHANGED <<generation, used>>, doc' = [doc EXCEPT ![old] = 0]
    PROVE  Sound(Repointed(old, new, generation))
<1>1. PICK records : records = Repointed(old, new, generation)
  OBVIOUS
<1>2. PICK siblings : siblings = {j \in known : record[j].image = old /\ record[j].generation = generation}
  OBVIOUS
<1>3. /\ \A j \in Ids \ siblings : records[j] = record[j]
      /\ \A j \in siblings : /\ j \in Ids /\ record[j].image = old /\ record[j].generation = generation
                             /\ records[j] = [record[j] EXCEPT !.image = new, !.open = TRUE, !.early = FALSE]
  BY <1>1, <1>2 DEF Repointed, SameImage, IInv, Types
<1>4. /\ records \in [Ids -> RecordType]
      /\ \A j \in siblings : /\ records[j].image = new /\ records[j].open /\ ~records[j].early
                             /\ records[j].generation = record[j].generation
                             /\ records[j].pending <=> record[j].pending
                             /\ records[j].shows = record[j].shows
  <2>1. new \in 0 .. MaxImages
    BY CheckpointAssumption DEF Images
  <2>2. \A j \in Ids : record[j] \in RecordType
    BY DEF IInv, Types
  <2>3. records \in [Ids -> RecordType]
    BY <1>1, <2>1, <2>2 DEF Repointed, RecordType
  <2>4. ASSUME NEW j \in siblings
        PROVE  /\ records[j].image = new /\ records[j].open /\ ~records[j].early
               /\ records[j].generation = record[j].generation
               /\ records[j].pending <=> record[j].pending
               /\ records[j].shows = record[j].shows
    <3>1. record[j] \in RecordType
      BY <1>3, <2>2
    <3>2. records[j] = [record[j] EXCEPT !.image = new, !.open = TRUE, !.early = FALSE]
      BY <1>3
    <3>3. QED
      BY <3>1, <3>2 DEF RecordType
  <2>5. QED
    BY <2>3, <2>4
<1>5. /\ new <= used /\ old <= used /\ Later
      /\ \A n \in Images : doc'[n] = IF n = old THEN 0 ELSE doc[n]
  BY ClosesLater DEF IInv, Types, ShowsIts
<1>6. ASSUME NEW j \in Ids, ~records[j].pending, records[j].generation = generation',
             records[j].image \in Images
      PROVE  /\ records[j].image <= used'
             /\ doc'[records[j].image] # 0 => doc'[records[j].image] = records[j].shows
  <2>1. CASE j \in siblings
    <3>1. doc[old] = record[j].shows
      BY <1>3, <1>4, <1>6, <2>1 DEF IInv, RecordInv, Shows, ShowsIts
    <3>2. doc[old] = record[i].shows /\ (doc[new] # 0 => doc[new] = record[i].shows)
      BY DEF ShowsIts
    <3>3. QED
      BY <1>4, <1>5, <2>1, <3>1, <3>2
  <2>2. CASE j \notin siblings
    <3>1. records[j] = record[j]
      BY <1>3, <2>2
    <3>2. /\ record[j].image <= used
          /\ doc[record[j].image] # 0 => doc[record[j].image] = record[j].shows
      BY <1>6, <3>1 DEF IInv, RecordInv, Shows, ShowsIts
    <3>3. QED
      BY <1>5, <1>6, <3>1, <3>2
  <2>3. QED
    BY <2>1, <2>2
<1>7. ASSUME NEW j \in known, records[j].generation = generation', ~records[j].early
      PROVE  records[j].image <= used' /\ (~records[j].open => doc'[records[j].image] = 0)
  <2>1. j \in Ids
    BY DEF IInv, Types
  <2>2. CASE j \in siblings
    BY <1>4, <1>5, <2>2
  <2>3. CASE j \notin siblings
    <3>1. records[j] = record[j]
      BY <1>3, <2>1, <2>3
    <3>2. /\ record[j].image \in Images /\ record[j].image <= used
          /\ ~record[j].open => doc[record[j].image] = 0
      BY <1>7, <3>1 DEF IInv, KnownInv, Names, GoneIsGone
    <3>3. QED
      BY <1>5, <3>1, <3>2
  <2>4. QED
    BY <2>2, <2>3
<1>8. ASSUME NEW d \in Calls, pc[d] = "export", issuedIn[d] = generation'
      PROVE  \/ records[its[d].id].image = its[d].image
             \/ its[d].image <= used' /\ doc'[its[d].image] = 0
  <2>1. /\ its[d].id \in Ids /\ its[d].image \in Images
        /\ \/ record[its[d].id].image = its[d].image
           \/ its[d].image <= used /\ doc[its[d].image] = 0
    BY <1>8 DEF IInv, CallInv, Holds, Exports
  <2>2. CASE its[d].id \in siblings
    BY <1>3, <1>5, <2>1, <2>2
  <2>3. CASE its[d].id \notin siblings
    BY <1>3, <1>5, <2>1, <2>3
  <2>4. QED
    BY <2>2, <2>3
<1>9. ASSUME NEW j \in Ids
      PROVE  /\ records[j].generation = record[j].generation
             /\ records[j].pending <=> record[j].pending
             /\ records[j].shows = record[j].shows
             /\ record[j].image \in Images => records[j].image \in Images
  BY <1>3, <1>4
<1>10. QED
  BY <1>1, <1>4, <1>6, <1>7, <1>8, <1>9 DEF Sound

(***************************************************************************)
(* The end of a restore: its record describes an image of this process     *)
(* that shows the checkpoint's document.                                   *)
(***************************************************************************)
LEMMA DescribeStep ==
    ASSUME IInv, GimpTypes', Later, NEW c \in Calls, BridgeOk(c), pc[c] \in {"open", "close"},
           NEW n \in Images, n <= used', doc'[n] # 0 => doc'[n] = record[its[c].id].shows,
           NEW records, Sound(records), Describes(c, records, n), Return(c)
    PROVE  IInv'
<1>1. PICK i : i = its[c].id
  OBVIOUS
<1>2. i \in Ids /\ ~record[i].pending
  BY <1>1 DEF IInv, CallInv, Holds, Working
<1>3. PICK described : described = [records EXCEPT ![i].image = n, ![i].open = TRUE,
                                         ![i].generation = generation, ![i].early = FALSE]
  OBVIOUS
<1>4. /\ described \in [Ids -> RecordType]
      /\ \A j \in Ids \ {i} : described[j] = records[j]
      /\ described[i].image = n /\ described[i].open /\ described[i].generation = generation
      /\ described[i].pending <=> record[i].pending
      /\ described[i].shows = record[i].shows
  <2>1. PICK r : r = [records[i] EXCEPT !.image = n, !.open = TRUE, !.generation = generation, !.early = FALSE]
    OBVIOUS
  <2>2. records \in [Ids -> RecordType] /\ records[i] \in RecordType
    BY <1>2 DEF Sound
  <2>3. n \in 0 .. MaxImages /\ generation \in Nat
    BY CheckpointAssumption DEF Images, IInv, Types
  <2>4. /\ r \in RecordType /\ r.image = n /\ r.open /\ r.generation = generation
        /\ r.pending <=> records[i].pending
        /\ r.shows = records[i].shows
    BY <2>1, <2>2, <2>3 DEF RecordType
  <2>5. described = [records EXCEPT ![i] = r]
    BY <1>2, <1>3, <2>1, <2>2
  <2>6. QED
    BY <1>2, <2>2, <2>4, <2>5 DEF Sound
<1>5. record' = Keep(described, known, c) /\ UNCHANGED <<known, file>>
  BY <1>1, <1>3 DEF Describes
<1>6. /\ record' \in [Ids -> RecordType]
      /\ \A j \in Ids : \/ record'[j] = described[j]
                        \/ /\ record'[j] = NoRecord /\ j \notin known
                           /\ \A d \in Calls : d # c => its[d].id # j
  BY <1>4, <1>5, KeepFacts DEF IInv
<1>7. /\ pc' \in [Calls -> Awaits] /\ its' \in [Calls -> LocalsType]
      /\ line' \in Seq(Calls) /\ issuedIn' \in [Calls -> Nat] /\ Lined'
      /\ pc'[c] = "idle" /\ issuedIn'[c] = 0
      /\ \A d \in Calls \ {c} : Same(d)
  BY ReturnFacts DEF IInv, BridgeOk, Same
<1>8. Types'
  BY <1>5, <1>6, <1>7 DEF IInv, Types, GimpTypes
<1>9. /\ generation' = generation /\ used \in 0 .. MaxImages /\ used' \in 0 .. MaxImages /\ used <= used'
      /\ \A m \in Images : m <= used => doc'[m] \in {doc[m], 0} /\ m <= used'
  BY CheckpointAssumption DEF IInv, Types, GimpTypes, Later, Images
<1>10. ASSUME NEW d \in Calls
       PROVE  issuedIn'[d] <= generation' /\ Holds(d)' /\ Closes(d)' /\ Exports(d)'
  <2>1. CASE d = c
    BY <1>7, <2>1 DEF Holds, Closes, Exports, Working, GimpTypes
  <2>2. CASE d # c
    <3>1. Same(d) /\ issuedIn[d] <= generation /\ Holds(d) /\ Closes(d) /\ Exports(d)
      BY <1>7, <2>2 DEF IInv, CallInv
    <3>2. pc[d] \in Working \cup {"export"} =>
              its[d].id \in Ids /\ record'[its[d].id] = described[its[d].id]
      BY <1>6, <2>2, <3>1 DEF Holds
    <3>3. pc[d] \in Working \cup {"export"} =>
              /\ record'[its[d].id].image \in Images
              /\ record'[its[d].id].pending <=> record[its[d].id].pending
              /\ record'[its[d].id].shows = record[its[d].id].shows
      BY <1>4, <3>1, <3>2 DEF Holds, Sound
    <3>4. Holds(d)'
      BY <3>1, <3>2, <3>3 DEF Same, Holds
    <3>5. ASSUME pc'[d] = "close", issuedIn'[d] = generation',
                 NEW m \in {its'[d].image, its'[d].opened}
          PROVE  m \in Images /\ m <= used' /\ (doc'[m] # 0 => doc'[m] = record'[its'[d].id].shows)
      <4>1. m \in Images /\ m <= used /\ (doc[m] # 0 => doc[m] = record[its[d].id].shows)
        BY <1>9, <3>1, <3>5 DEF Same, Closes, ShowsIts
      <4>2. record'[its'[d].id].shows = record[its[d].id].shows
        BY <3>1, <3>3, <3>5 DEF Same, Working
      <4>3. QED
        BY <1>9, <4>1, <4>2
    <3>6. ASSUME pc'[d] = "export", issuedIn'[d] = generation'
          PROVE  \/ record'[its'[d].id].image = its'[d].image
                 \/ its'[d].image <= used' /\ doc'[its'[d].image] = 0
      <4>1. its[d].id # i
        BY <1>2, <3>1, <3>6 DEF Same, Holds
      <4>2. record'[its[d].id] = records[its[d].id]
        BY <1>4, <3>1, <3>2, <3>6, <4>1 DEF Same
      <4>3. QED
        BY <3>1, <3>6, <4>2 DEF Same, Sound
    <3>7. issuedIn'[d] <= generation'
      BY <1>9, <3>1 DEF Same
    <3>8. QED
      BY <3>4, <3>5, <3>6, <3>7 DEF Closes, Exports, ShowsIts
  <2>3. QED
    BY <2>1, <2>2
<1>11. Apart'
  BY <1>7 DEF IInv, Apart, Same
<1>12. ASSUME NEW j \in Ids
       PROVE  record'[j].generation <= generation' /\ Shows(j)'
  <2>1. CASE record'[j] = NoRecord
    BY <2>1, <1>9, CheckpointAssumption DEF NoRecord, Shows, Images, IInv, Types
  <2>2. CASE record'[j] = described[j] /\ j = i
    BY <1>4, <1>9, <1>1, <2>2 DEF Shows, ShowsIts, IInv, Types
  <2>3. CASE record'[j] = described[j] /\ j # i
    <3>1. record'[j] = records[j]
      BY <1>4, <2>3
    <3>2. record'[j].generation <= generation'
      BY <1>9, <3>1 DEF Sound, IInv, RecordInv
    <3>3. QED
      BY <3>1, <3>2 DEF Sound, Shows, ShowsIts
  <2>4. QED
    BY <1>6, <2>1, <2>2, <2>3
<1>13. ASSUME NEW j \in known'
       PROVE  Names(j)' /\ Gone(j)'
  <2>1. j \in known /\ j \in Ids /\ record'[j] = described[j]
    BY <1>5, <1>6 DEF IInv, Types
  <2>2. CASE j = i
    BY <1>4, <2>1, <2>2 DEF Names, Gone
  <2>3. CASE j # i
    <3>1. record'[j] = records[j]
      BY <1>4, <2>1, <2>3
    <3>2. records[j].image \in Images
      BY <2>1 DEF Sound, IInv, KnownInv, Names
    <3>3. QED
      BY <2>1, <3>1, <3>2 DEF Sound, Names, Gone
  <2>4. QED
    BY <2>2, <2>3
<1>14. TotalCap'
  BY <1>5, TotalStep
<1>15. QED
  BY <1>7, <1>8, <1>10, <1>11, <1>12, <1>13, <1>14, UnopenedStep
     DEF IInv, GimpTypes, CallInv, RecordInv, KnownInv, GoneIsGone, Gone

LEMMA OpenStep ==
    ASSUME IInv, NEW c \in Calls, Open(c)
    PROVE  IInv'
<1>1. CASE /\ Runs(c, "open") /\ UNCHANGED <<generation, docs>>
           /\ used < MaxImages
           /\ used' = used + 1
           /\ doc' = [doc EXCEPT ![used + 1] = record[its[c].id].shows]
           /\ AfterOpen(c, used + 1)
           /\ UNCHANGED troubles
  <2>1. PICK i, n : i = its[c].id /\ n = used + 1
    OBVIOUS
  <2>2. /\ pc[c] = "open" /\ issuedIn[c] = generation /\ line # <<>> /\ Head(line) = c
        /\ i \in Ids /\ record[i] \in RecordType
        /\ record[i].image \in Images /\ ~record[i].pending
    BY <1>1, <2>1 DEF Runs, AtHead, IInv, CallInv, Holds, Working, Types
  <2>3. /\ n \in Images /\ n = used' /\ n \notin 0 .. used
        /\ doc' = [doc EXCEPT ![n] = record[i].shows]
        /\ doc'[n] = record[i].shows
        /\ record[i].shows \in 0 .. MaxDocs
    BY <1>1, <2>1, <2>2, CheckpointAssumption DEF IInv, Types, Images, RecordType
  <2>4. GimpTypes'
    BY <1>1, <2>3, CheckpointAssumption DEF Runs, IInv, Types, GimpTypes, Images
  <2>5. Later
    BY <1>1, OpensLater DEF IInv
  <2>6. BridgeOk(c)
    BY <2>2 DEF BridgeOk
  <2>7. CASE /\ record[i].generation # generation /\ Return(c)
             /\ Describes(c, SiblingsGone(record[i].image, record[i].generation), n)
    <3>1. Refresh(SiblingsGone(record[i].image, record[i].generation))
      <4>1. record[i].image \in 0 .. MaxImages /\ record[i].generation \in Nat
        BY <2>2 DEF RecordType
      <4>2. QED
        BY <1>1, <2>7, <4>1, SiblingsGoneFacts DEF IInv
    <3>2. QED
      BY <2>1, <2>2, <2>3, <2>4, <2>5, <2>6, <2>7, <3>1, RefreshIsSound, DescribeStep DEF GimpTypes
  <2>8. CASE Describes(c, record, n) /\ Return(c)
    BY <2>1, <2>2, <2>3, <2>4, <2>5, <2>6, <2>8, RefreshFacts, RefreshIsSound, DescribeStep
       DEF GimpTypes, IInv
  <2>9. CASE /\ record[i].generation = generation
             /\ Issue(c, "close", [id |-> i, image |-> record[i].image, opened |-> n], generation)
             /\ UNCHANGED store
    <3>1. PICK mine : mine = [id |-> i, image |-> record[i].image, opened |-> n]
      OBVIOUS
    <3>2. mine \in LocalsType /\ mine.id = i /\ mine.image = record[i].image /\ mine.opened = n
      BY <2>2, <2>3, <3>1, CheckpointAssumption DEF LocalsType, RecordType, Images
    <3>3. /\ pc' \in [Calls -> Awaits] /\ its' \in [Calls -> LocalsType]
          /\ line' \in Seq(Calls) /\ issuedIn' \in [Calls -> Nat] /\ Lined'
          /\ pc'[c] = "close" /\ its'[c] = mine /\ issuedIn'[c] = generation
          /\ \A d \in Calls \ {c} : Same(d)
      BY <2>6, <2>9, <3>1, <3>2, IssueFacts DEF IInv, Types, BridgeOk, BridgeCalls, Same
    <3>4. UNCHANGED <<record, known, file>>
      BY <2>9 DEF store
    <3>5. Types'
      BY <2>4, <3>3, <3>4 DEF IInv, Types, GimpTypes
    <3>6. ASSUME NEW d \in Calls
          PROVE  issuedIn'[d] <= generation' /\ Holds(d)' /\ Closes(d)' /\ Exports(d)'
      <4>1. CASE d = c
        <5>1. record[i].image <= used /\ (doc[record[i].image] # 0 => doc[record[i].image] = record[i].shows)
          BY <2>2, <2>9 DEF IInv, RecordInv, Shows, ShowsIts
        <5>2. /\ record[i].image <= used'
              /\ doc'[record[i].image] # 0 => doc'[record[i].image] = record[i].shows
          BY <1>1, <2>2, <2>3, <2>5, <5>1 DEF Later, IInv, Types, Images
        <5>3. QED
          BY <1>1, <2>2, <2>3, <2>4, <3>2, <3>3, <3>4, <4>1, <5>2
             DEF Holds, Closes, Exports, ShowsIts, Working, GimpTypes
      <4>2. CASE d # c
        BY <2>4, <2>5, <3>3, <3>4, <3>5, <4>2, CallStep DEF Alike
      <4>3. QED
        BY <4>1, <4>2
    <3>7. Apart'
      <4>1. SUFFICES ASSUME NEW d \in Calls, NEW e \in Calls, d # e,
                            pc'[d] = "export", pc'[e] = "export"
                     PROVE  its'[d].id # its'[e].id
        BY DEF Apart
      <4>2. d # c /\ e # c
        BY <3>3, <4>1
      <4>3. QED
        BY <3>3, <4>1, <4>2 DEF IInv, Apart, Same
    <3>8. ASSUME NEW j \in Ids
          PROVE  record'[j].generation <= generation' /\ Shows(j)'
      BY <2>4, <2>5, <3>4, <3>5, RecordStep DEF Alike
    <3>9. ASSUME NEW j \in known'
          PROVE  Names(j)' /\ Gone(j)'
      BY <2>4, <2>5, <3>4, <3>5, KnownStep DEF GoneRightly
    <3>10. TotalCap'
      BY <3>4, TotalStep
    <3>11. QED
      BY <2>4, <2>5, <3>3, <3>5, <3>6, <3>7, <3>8, <3>9, <3>10, UnopenedStep
         DEF IInv, GimpTypes, CallInv, RecordInv, KnownInv, GoneIsGone, Gone
  <2>10. QED
    BY <1>1, <2>1, <2>7, <2>8, <2>9 DEF AfterOpen
<1>2. CASE /\ Runs(c, "open") /\ UNCHANGED <<generation, docs, file, doc, used, troubles>>
           /\ known' = known \ {its[c].id} /\ record' = Keep(record, known', c) /\ Return(c)
  <2>1. GimpTypes' /\ Later
    BY <1>2, StaysLater DEF Runs, IInv, Types, GimpTypes
  <2>2. QED
    BY <1>2, <2>1, ForgetStep DEF Runs, AtHead, BridgeOk
<1>3. CASE Runs(c, "open") /\ Trouble /\ RestoreFails(c) /\ UNCHANGED <<generation, docs, doc, used>>
  <2>1. GimpTypes' /\ Later
    BY <1>3, StaysLater, CheckpointAssumption DEF Runs, Trouble, IInv, Types, GimpTypes
  <2>2. QED
    BY <1>3, <2>1, ForgetStep DEF Runs, AtHead, BridgeOk, RestoreFails
<1>4. CASE Lost(c, "open") /\ RestoreFails(c)
  <2>1. BridgeOk(c) /\ GimpTypes' /\ (Later \/ Dies)
    BY <1>4, LostFacts, StaysLater DEF IInv, BridgeOk
  <2>2. QED
    BY <1>4, <2>1, ForgetStep DEF RestoreFails
<1>5. QED
  BY <1>1, <1>2, <1>3, <1>4 DEF Open

LEMMA CloseStep ==
    ASSUME IInv, NEW c \in Calls, Close(c)
    PROVE  IInv'
<1>1. CASE Runs(c, "close") /\ UNCHANGED <<generation, used, docs>>
  <2>1. PICK i, old, new : i = its[c].id /\ old = its[c].image /\ new = its[c].opened
    OBVIOUS
  <2>2. /\ pc[c] = "close" /\ issuedIn[c] = generation /\ line # <<>> /\ Head(line) = c
        /\ i \in Ids /\ old \in Images /\ new \in Images
        /\ ShowsIts(old, i) /\ ShowsIts(new, i)
    BY <1>1, <2>1 DEF Runs, AtHead, IInv, CallInv, Holds, Closes, Working
  <2>3. BridgeOk(c)
    BY <2>2 DEF BridgeOk
  <2>4. CASE /\ doc' = [doc EXCEPT ![old] = 0] /\ UNCHANGED troubles /\ Return(c)
             /\ Describes(c, IF doc[old] # 0 THEN Repointed(old, new, generation)
                             ELSE SiblingsGone(old, generation), new)
    <3>1. GimpTypes' /\ Later
      <4>1. doc' \in [Images -> 0 .. MaxDocs]
        BY <2>2, <2>4, CheckpointAssumption DEF IInv, Types
      <4>2. Later
        BY <1>1, <2>2, <2>4, ClosesLater DEF IInv
      <4>3. QED
        BY <1>1, <2>4, <4>1, <4>2 DEF Runs, IInv, Types, GimpTypes
    <3>2. new <= used' /\ (doc'[new] # 0 => doc'[new] = record[i].shows) /\ doc'[old] = 0
      BY <1>1, <2>2, <2>4 DEF ShowsIts, IInv, Types
    <3>3. CASE doc[old] # 0
      <4>1. Sound(Repointed(old, new, generation))
        BY <1>1, <2>2, <2>4, <3>1, <3>3, RepointedIsSound
      <4>2. QED
        BY <2>1, <2>2, <2>3, <2>4, <3>1, <3>2, <3>3, <4>1, DescribeStep
    <3>4. CASE doc[old] = 0
      <4>1. Refresh(SiblingsGone(old, generation))
        <5>1. old \in 0 .. MaxImages /\ generation \in Nat
          BY <2>2, CheckpointAssumption DEF Images, IInv, Types
        <5>2. QED
          BY <3>2, <5>1, SiblingsGoneFacts DEF IInv
      <4>2. Sound(SiblingsGone(old, generation))
        BY <3>1, <4>1, RefreshIsSound
      <4>3. QED
        BY <2>1, <2>2, <2>3, <2>4, <3>1, <3>2, <3>4, <4>2, DescribeStep
    <3>5. QED
      BY <3>3, <3>4
  <2>5. CASE Trouble /\ Describes(c, record, new) /\ UNCHANGED doc /\ Return(c)
    <3>1. GimpTypes' /\ Later
      BY <1>1, <2>5, StaysLater, CheckpointAssumption DEF Runs, Trouble, IInv, Types, GimpTypes
    <3>2. new <= used' /\ (doc'[new] # 0 => doc'[new] = record[i].shows)
      BY <1>1, <2>2, <2>5 DEF ShowsIts
    <3>3. Sound(record)
      BY <3>1, RefreshFacts, RefreshIsSound DEF IInv
    <3>4. QED
      BY <2>1, <2>2, <2>3, <2>5, <3>1, <3>2, <3>3, DescribeStep
  <2>6. CASE Lost(c, "close") /\ RestoreFails(c)
    <3>1. BridgeOk(c) /\ GimpTypes' /\ (Later \/ Dies)
      BY <2>6, LostFacts, StaysLater DEF IInv, BridgeOk
    <3>2. QED
      BY <2>6, <3>1, ForgetStep DEF RestoreFails
  <2>7. QED
    BY <2>1, <2>4, <2>5, <2>6 DEF Close
<1>2. CASE Lost(c, "close") /\ RestoreFails(c)
  <2>1. BridgeOk(c) /\ GimpTypes' /\ (Later \/ Dies)
    BY <1>2, LostFacts, StaysLater DEF IInv, BridgeOk
  <2>2. QED
    BY <1>2, <2>1, ForgetStep DEF RestoreFails
<1>3. QED
  BY <1>1, <1>2 DEF Close

-----------------------------------------------------------------------------
(* The theorems. *)

LEMMA NextStep ==
    ASSUME IInv, [Next]_vars
    PROVE  IInv'
<1>1. CASE UNCHANGED vars
  <2>1. GimpTypes' /\ Later
    BY <1>1, StaysLater DEF vars, gimp, IInv, Types, GimpTypes
  <2>2. QED
    BY <1>1, <2>1, ProcessStep DEF vars, store
<1>2. ASSUME NEW c \in Calls,
             \/ Create(c) \/ Refreshed(c) \/ Export(c)
             \/ List(c) \/ ListRefreshed(c)
             \/ Delete(c) \/ Rm(c) \/ Unregister(c)
             \/ Restore(c) \/ Open(c) \/ Close(c)
      PROVE  IInv'
  BY <1>2, CreateStep, RefreshedStep, ExportStep, ListStep, ListRefreshedStep,
     DeleteStep, RmStep, UnregisterStep, RestoreStep, OpenStep, CloseStep
<1>3. CASE OpenDocument \/ CloseDocument \/ Die \/ LoseFile
  BY <1>3, EnvironmentStep
<1>4. QED
  BY <1>1, <1>2, <1>3 DEF Next

LEMMA Inductive == Spec => []IInv
<1>1. Init => IInv
  BY InitStep
<1>2. IInv /\ [Next]_vars => IInv'
  BY NextStep
<1>3. QED
  BY <1>1, <1>2, PTL DEF Spec

(***************************************************************************)
(* The line holds every call at most once, so it is no longer than there   *)
(* are calls.                                                              *)
(***************************************************************************)
LEMMA TypeFacts == IInv => TypeOK
<1>1. SUFFICES ASSUME IInv PROVE TypeOK
  OBVIOUS
<1>2. line \in Injection(1 .. Len(line), Calls)
  <2>1. line \in [1 .. Len(line) -> Calls]
    BY <1>1 DEF IInv, Types
  <2>2. \A j, k \in 1 .. Len(line) : line[j] = line[k] => j = k
    BY <1>1 DEF IInv, Lined
  <2>3. QED
    BY <2>1, <2>2 DEF Injection, IsInjective
<1>3. Cardinality(1 .. Len(line)) <= Cardinality(Calls)
  BY <1>2, FS_Injection, CheckpointAssumption
<1>4. Cardinality(1 .. Len(line)) = Len(line)
  <2>1. Len(line) \in Nat
    BY <1>1 DEF IInv, Types
  <2>2. Cardinality(1 .. Len(line)) = IF 1 > Len(line) THEN 0 ELSE Len(line) - 1 + 1
    BY <2>1, FS_Interval
  <2>3. QED
    BY <2>1, <2>2
<1>5. Len(line) <= Cardinality(Calls)
  BY <1>3, <1>4
<1>6. generation \in 0 .. MaxTroubles
  BY <1>1, CheckpointAssumption DEF IInv, Types
<1>7. issuedIn \in [Calls -> 0 .. MaxTroubles]
  <2>1. \A c \in Calls : issuedIn[c] \in 0 .. MaxTroubles
    BY <1>1, <1>6, CheckpointAssumption DEF IInv, Types, CallInv
  <2>2. QED
    BY <1>1, <2>1 DEF IInv, Types
<1>8. record \in [Ids -> Records]
  <2>1. ASSUME NEW i \in Ids PROVE record[i] \in Records
    <3>1. record[i] \in RecordType /\ record[i].generation <= generation
      BY <1>1 DEF IInv, Types, RecordInv
    <3>2. record[i].generation \in 0 .. MaxTroubles
      BY <1>6, <3>1, CheckpointAssumption DEF RecordType
    <3>3. QED
      BY <3>1, <3>2 DEF RecordType, Records
  <2>2. QED
    BY <1>1, <2>1 DEF IInv, Types
<1>9. QED
  BY <1>1, <1>5, <1>6, <1>7, <1>8 DEF IInv, Types, TypeOK, LocalsType

(***************************************************************************)
(* Whatever creates, lists, restores and deletes are under way, and        *)
(* whenever the process dies: a record that is believed to be gone is, and *)
(* the registry never holds more than it may.                              *)
(***************************************************************************)
THEOREM RegistryIsRight == Spec => []CheckpointInv
<1>1. IInv => CheckpointInv
  BY TypeFacts DEF IInv, CheckpointInv
<1>2. QED
  BY <1>1, Inductive, PTL

(***************************************************************************)
(* A restore closes only an image that shows the checkpoint's document.    *)
(***************************************************************************)
THEOREM ClosesNoStranger == Spec => NoStrangerClosed
<1>1. ASSUME IInv, NEW c \in Calls, NEW n \in Images,
             Close(c), doc[n] # 0, doc'[n] = 0, generation' = generation
      PROVE  doc[n] = record[its[c].id].shows
  <2>1. CASE Runs(c, "close") /\ doc' = [doc EXCEPT ![its[c].image] = 0]
    <3>1. n = its[c].image
      BY <1>1, <2>1 DEF IInv, Types
    <3>2. QED
      BY <1>1, <2>1, <3>1 DEF Runs, AtHead, IInv, CallInv, Closes, ShowsIts
  <2>2. CASE UNCHANGED doc
    BY <1>1, <2>2
  <2>3. CASE Dies
    BY <1>1, <2>3 DEF Dies, IInv, Types
  <2>4. QED
    BY <1>1, <2>1, <2>2, <2>3 DEF Close, Lost
<1>2. IInv => [\A c \in Calls, n \in Images :
                  (Close(c) /\ up /\ doc[n] # 0 /\ doc'[n] = 0 /\ generation' = generation) =>
                      doc[n] = record[its[c].id].shows]_vars
  BY <1>1
<1>3. QED
  BY <1>2, Inductive, PTL DEF NoStrangerClosed

(***************************************************************************)
(* A step of one call moves no other.                                      *)
(***************************************************************************)
LEMMA MovesOne ==
    ASSUME Types, NEW c \in Calls, NEW d \in Calls, c # d,
           \/ Create(d) \/ Refreshed(d) \/ Export(d)
           \/ List(d) \/ ListRefreshed(d)
           \/ Delete(d) \/ Rm(d) \/ Unregister(d)
           \/ Restore(d) \/ Open(d) \/ Close(d)
    PROVE  pc'[c] = pc[c]
<1>1. ASSUME NEW what, pc' = [pc EXCEPT ![d] = what] PROVE pc'[c] = pc[c]
  BY <1>1 DEF Types
<1>2. Return(d) => pc'[c] = pc[c]
  BY <1>1 DEF Return
<1>3. ASSUME NEW what, NEW locals, NEW g, Issue(d, what, locals, g) PROVE pc'[c] = pc[c]
  BY <1>1, <1>3 DEF Issue
<1>4. ASSUME NEW n, NEW records, NEW g, NEW given, Reserve(d, n, records, g, given)
      PROVE  pc'[c] = pc[c]
  BY <1>2, <1>3, <1>4 DEF Reserve
<1>5. CASE Create(d) \/ List(d) \/ Restore(d)
  BY <1>3, <1>4, <1>5 DEF Create, List, Restore
<1>6. CASE Refreshed(d)
  <2>1. PICK records, g, given : Reserve(d, its[d].image, records, g, given)
    BY <1>6 DEF Refreshed
  <2>2. QED
    BY <1>4, <2>1
<1>7. CASE Export(d) \/ ListRefreshed(d) \/ Unregister(d) \/ Close(d)
  BY <1>2, <1>7 DEF Export, ExportFails, ListRefreshed, Unregister, Close, RestoreFails
<1>8. CASE Delete(d) \/ Rm(d)
  BY <1>1, <1>2, <1>8 DEF Delete, Rm
<1>9. CASE Open(d)
  BY <1>2, <1>3, <1>9 DEF Open, AfterOpen, RestoreFails
<1>10. QED
  BY <1>5, <1>6, <1>7, <1>8, <1>9

(***************************************************************************)
(* A restore that awaited a close changes its record only in the process   *)
(* that opened the new image.                                              *)
(***************************************************************************)
THEOREM AnswersLive == Spec => AnswersAreLive
<1>1. ASSUME IInv, NEW c \in Calls, [Next]_vars, pc[c] = "close", pc'[c] = "idle", its[c].id \in known
      PROVE  generation' = issuedIn[c] \/ record'[its[c].id] = record[its[c].id]
  <2>1. CASE Close(c)
    <3>1. CASE Runs(c, "close") /\ UNCHANGED generation
      BY <3>1 DEF Runs
    <3>2. CASE record' = Keep(record, known, c)
      BY <1>1, <3>2 DEF Keep, IInv, Types
    <3>3. QED
      BY <2>1, <3>1, <3>2 DEF Close, RestoreFails
  <2>2. CASE ~Close(c)
    <3>1. ~UNCHANGED pc
      BY <1>1
    <3>2. PICK d \in Calls :
              \/ Create(d) \/ Refreshed(d) \/ Export(d)
              \/ List(d) \/ ListRefreshed(d)
              \/ Delete(d) \/ Rm(d) \/ Unregister(d)
              \/ Restore(d) \/ Open(d) \/ Close(d)
      BY <1>1, <3>1 DEF vars, Next, OpenDocument, CloseDocument, Die, LoseFile
    <3>3. d = c
      BY <1>1, <3>2, MovesOne DEF IInv
    <3>4. QED
      BY <1>1, <2>2, <3>2, <3>3
         DEF Create, Refreshed, Export, List, ListRefreshed, Delete, Rm, Unregister, Restore, Open,
             Runs, Lost, AtHead
  <2>3. QED
    BY <2>1, <2>2
<1>2. IInv /\ [Next]_vars =>
          [\A c \in Calls :
               (pc[c] = "close" /\ pc'[c] = "idle" /\ its[c].id \in known) =>
                   \/ generation' = issuedIn[c]
                   \/ record'[its[c].id] = record[its[c].id]]_vars
  BY <1>1
<1>3. QED
  BY <1>2, Inductive, PTL DEF AnswersAreLive, Spec
=============================================================================
