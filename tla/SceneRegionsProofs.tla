------------------------- MODULE SceneRegionsProofs -------------------------
(***************************************************************************)
(* Proofs about SceneRegions, for any documents, targets and calls.        *)
(***************************************************************************)
EXTENDS SceneRegions, Integers, SequenceTheorems, TLAPS

(***************************************************************************)
(* The shape of the state: TypeOK with everything the steps need.  A call  *)
(* is at a step that its tool takes.                                       *)
(***************************************************************************)
Steps == {"idle", "export", "histogram", "purge", "exists", "wipe", "derive", "save", "deselect"}
Words == Regions \cup {Narrowed, Own, None}
Selections == [of : Words, px : Versions \cup {None}]
Channels == [name : Regions, of : Words, px : Versions,
             fit : BOOLEAN, offRecord : BOOLEAN, stuck : BOOLEAN]

Slots == [at : Steps, tool : {None, "read", "select", "psd"}, target : Regions \cup {None},
          refresh : BOOLEAN, narrow : BOOLEAN, eager : BOOLEAN, key : Keys,
          names : SUBSET Regions, left : Seq(Regions), built : SUBSET Regions,
          covered : BOOLEAN, disturbed : BOOLEAN]

Serves(m) ==
    /\ m.at # "idle" => m.tool \in {"read", "select"}
    /\ m.tool = "select" => m.target \in Regions
    /\ m.tool = "read" => ~m.narrow
    /\ m.at \in {"purge", "exists", "wipe", "deselect"} => m.tool = "read"
    /\ m.at = "exists" => m.eager /\ m.names # {}
    /\ m.at = "save" => ~m.narrow
    /\ m.at \in {"derive", "save"} /\ m.tool = "read" => m.left # <<>>
    /\ m.at \notin {"derive", "save", "deselect"} => m.built = {}

(***************************************************************************)
(* A document: what is selected has pixels, and a channel that a call      *)
(* nobody disturbed has saved is of the region it is named for.            *)
(***************************************************************************)
Opened == [px : Versions, sel : Selections, chan : SUBSET Channels]

DocOK(r) ==
    /\ r.sel # Nothing => r.sel.px \in Versions
    /\ \A mask \in r.chan : mask.fit => mask.of = mask.name

DocsOK  == doc \in [Docs -> Opened] /\ \A d \in Docs : DocOK(doc[d])
CallsOK == call \in [Calls -> Slots] /\ \A c \in Calls : Serves(call[c])
MemoryOK ==
    /\ scene \in [key : Keys, zones : Keys, calm : BOOLEAN]
    /\ recorded \in Keys /\ recordedFit \in BOOLEAN
    /\ menu \in [key : Keys, items : SUBSET Regions]

ShapeOK == active \in Docs /\ DocsOK /\ CallsOK /\ MemoryOK

(***************************************************************************)
(* What a call nobody has disturbed knows.  Until it begins to change the  *)
(* document that is active, its key is of the very state of it, if it has  *)
(* one; a region that is to be saved is selected, and of the pixels the    *)
(* document has; and an eager read that has wiped the channels finds those *)
(* it has saved, and none of other pixels but those that could not be      *)
(* removed and those it has covered itself.                                *)
(***************************************************************************)
Undisturbed(c) == ~At(c, "idle") /\ ~call[c].disturbed
Fresh(key) == key \in {NoKey, KeyOf(active), PixelsOf(active)}
Early == {"histogram", "purge", "exists", "wipe"}

KeyFits(c) == Undisturbed(c) /\ call[c].at \in Early => Fresh(call[c].key)

SaveFits(c) ==
    Undisturbed(c) /\ At(c, "save") =>
      doc[active].sel # Nothing /\ doc[active].sel = Selected(InHand(c), doc[active].px)

WipeFits(c) ==
    Undisturbed(c) /\ call[c].tool = "read" /\ call[c].at \in {"derive", "save", "deselect"} =>
      /\ \A t \in call[c].built : Named(active, t) # {}
      /\ \A mask \in doc[active].chan :
           mask.px = doc[active].px \/ mask.stuck \/ call[c].covered

Knows(c) == KeyFits(c) /\ SaveFits(c) /\ WipeFits(c)

CallInv == ShapeOK /\ \A c \in Calls : Knows(c)

-----------------------------------------------------------------------------
(* The requests, and where a call goes on *)

(***************************************************************************)
(* The targets are regions, and there is one.                              *)
(***************************************************************************)
LEMMA TargetsAreRegions == Targets \in Seq(Regions) /\ Targets # <<>>
  BY SceneAssumption DEF Regions

(***************************************************************************)
(* The empty values are well formed.                                       *)
(***************************************************************************)
LEMMA EmptyValues ==
    /\ Idle \in Slots /\ Serves(Idle) /\ Idle.at = "idle"
    /\ Nothing \in Selections
    /\ NoKey \in Keys
  <1>1. NoKey \in Keys
    BY DEF Keys
  <1>2. Nothing \in Selections
    BY DEF Nothing, Selected, Selections, Words
  <1>3. <<>> \in Seq(Regions)
    OBVIOUS
  <1>4. Idle \in Slots
    BY <1>1, <1>3 DEF Idle, Slots, Steps
  <1>5. Serves(Idle) /\ Idle.at = "idle"
    BY DEF Serves, Idle, None
  <1>6. QED
    BY <1>1, <1>2, <1>4, <1>5

(***************************************************************************)
(* What is asked of a call that begins, by its first step.                 *)
(***************************************************************************)
LEMMA RequestsAreCalls ==
    ASSUME NEW m \in Requests
    PROVE  /\ m \in Slots /\ ~m.disturbed /\ m.key = NoKey /\ m.built = {}
           /\ m.tool = "select" => m.target \in Regions
           /\ m.tool = "read" => ~m.narrow
           /\ FirstStep(m) = "export" => m.tool \in {"read", "select"}
           /\ FirstStep(m) = "load" => m.tool = "select" /\ ~m.narrow
  <1>1. m \in Reads \/ m \in Selects \/ m \in Saves
    BY RequestAssumption DEF Every
  <1>2. CASE m \in Reads
    <2>1. PICK how \in BOOLEAN \X BOOLEAN :
                 m = [Idle EXCEPT !.tool = "read", !.refresh = how[1], !.eager = how[2]]
      BY <1>2 DEF Reads
    <2>2. how[1] \in BOOLEAN /\ how[2] \in BOOLEAN
      BY <2>1
    <2>3. m \in Slots
      BY <2>1, <2>2, EmptyValues DEF Slots
    <2>4. QED
      BY <2>1, <2>2, <2>3 DEF FirstStep, Idle
  <1>3. CASE m \in Selects
    <2>1. PICK how \in Regions \X BOOLEAN \X BOOLEAN :
                 m = [Idle EXCEPT !.tool = "select", !.target = how[1], !.refresh = how[2],
                                  !.narrow = how[3]]
      BY <1>3 DEF Selects
    <2>2. how[1] \in Regions /\ how[2] \in BOOLEAN /\ how[3] \in BOOLEAN
      BY <2>1
    <2>3. m \in Slots
      BY <2>1, <2>2, EmptyValues DEF Slots
    <2>4. QED
      BY <2>1, <2>2, <2>3 DEF FirstStep, Idle
  <1>4. CASE m \in Saves
    BY <1>4, EmptyValues DEF Saves, Slots, FirstStep, Idle
  <1>5. QED
    BY <1>1, <1>2, <1>3, <1>4

(***************************************************************************)
(* A call that exports is one that waits for it, or a new one.             *)
(***************************************************************************)
LEMMA ReadyToExport ==
    ASSUME CallsOK, NEW c \in Calls, NEW m \in Ready(c, "export")
    PROVE  /\ m \in Slots /\ m.built = {}
           /\ m.tool \in {"read", "select"}
           /\ m.tool = "select" => m.target \in Regions
           /\ m.tool = "read" => ~m.narrow
  <1>1. CASE m = call[c] /\ At(c, "export")
    BY <1>1 DEF CallsOK, Serves, At
  <1>2. CASE m \in Requests /\ FirstStep(m) = "export"
    BY <1>2, RequestsAreCalls
  <1>3. QED
    BY <1>1, <1>2 DEF Ready, Beginning

(***************************************************************************)
(* Only a new call loads a channel.                                        *)
(***************************************************************************)
LEMMA ReadyToLoad ==
    ASSUME CallsOK, NEW c \in Calls, NEW m \in Ready(c, "load")
    PROVE  /\ m \in Slots /\ m.key = NoKey /\ ~m.disturbed /\ m.built = {}
           /\ m.tool = "select" /\ ~m.narrow /\ m.target \in Regions
  <1>1. ~At(c, "load")
    BY DEF CallsOK, Slots, Steps, At
  <1>2. m \in Requests /\ FirstStep(m) = "load"
    BY <1>1 DEF Ready, Beginning
  <1>3. QED
    BY <1>2, RequestsAreCalls

(***************************************************************************)
(* A call that has its scene model goes on with the key it has.            *)
(***************************************************************************)
LEMMA AfterModelServes ==
    ASSUME MemoryOK, NEW m \in Slots,
           m.tool \in {"read", "select"},
           m.tool = "select" => m.target \in Regions,
           m.tool = "read" => ~m.narrow,
           m.built = {}
    PROVE  LET n == AfterModel(m)
           IN  /\ n \in Slots /\ Serves(n)
               /\ n.at \in {"idle", "derive", "purge", "exists", "wipe"}
               /\ n.at = "derive" => n.tool = "select" /\ n.key = NoKey
               /\ n.at \in {"purge", "exists", "wipe"} => n.key = m.key
               /\ n.at # "idle" => n.disturbed = m.disturbed
               /\ n = Idle => m.tool = "read" /\ (~m.eager => Same(recorded, m.key))
  <1>1. CASE m.tool = "select"
    <2>1. AfterModel(m) = [m EXCEPT !.at = "derive", !.key = NoKey]
      BY <1>1 DEF AfterModel
    <2>2. AfterModel(m) \in Slots /\ AfterModel(m).at = "derive"
      BY <2>1, EmptyValues DEF Slots, Steps
    <2>3. Serves(AfterModel(m))
      BY <1>1, <2>1 DEF Serves, Slots
    <2>4. QED
      BY <1>1, <2>1, <2>2, <2>3, EmptyValues DEF Slots
  <1>2. CASE m.tool = "read"
    <2>1. \/ AfterModel(m) = Idle /\ (~m.eager => Same(recorded, m.key))
          \/ AfterModel(m) = [m EXCEPT !.at = "purge"]
          \/ AfterModel(m) = [m EXCEPT !.at = "wipe"]
          \/ /\ AfterModel(m) = [m EXCEPT !.at = "exists", !.names = menu.items]
             /\ menu.items # {} /\ m.eager
      BY <1>2 DEF AfterModel, Recorded
    <2>2. CASE AfterModel(m) = Idle /\ (~m.eager => Same(recorded, m.key))
      BY <1>2, <2>2, EmptyValues
    <2>3. CASE AfterModel(m) = [m EXCEPT !.at = "purge"]
      BY <1>2, <2>3, EmptyValues DEF Slots, Steps, Serves
    <2>4. CASE AfterModel(m) = [m EXCEPT !.at = "wipe"]
      BY <1>2, <2>4, EmptyValues DEF Slots, Steps, Serves
    <2>5. CASE /\ AfterModel(m) = [m EXCEPT !.at = "exists", !.names = menu.items]
               /\ menu.items # {} /\ m.eager
      <3>1. menu.items \in SUBSET Regions
        BY DEF MemoryOK
      <3>2. QED
        BY <1>2, <2>5, <3>1, EmptyValues DEF Slots, Steps, Serves
    <2>6. QED
      BY <2>1, <2>2, <2>3, <2>4, <2>5
  <1>3. QED
    BY <1>1, <1>2

-----------------------------------------------------------------------------
(* What a step leaves of the calls it is not of *)

(***************************************************************************)
(* The call that makes the step goes on as m, the others where they were.  *)
(***************************************************************************)
LEMMA ContinuesServes ==
    ASSUME CallsOK, NEW c \in Calls, NEW m \in Slots, NEW touches \in BOOLEAN,
           Serves(m), Continues(c, m, touches)
    PROVE  /\ CallsOK'
           /\ call'[c] = m
           /\ \A k \in Calls \ {c} :
                call'[k] = [call[k] EXCEPT !.disturbed =
                              call[k].at # "idle" /\ (call[k].disturbed \/ touches)]
  <1>1. call' = [k \in Calls |->
                   IF k = c THEN m
                   ELSE [call[k] EXCEPT !.disturbed =
                           call[k].at # "idle" /\ (call[k].disturbed \/ touches)]]
    BY DEF Continues
  <1>2. ASSUME NEW k \in Calls
        PROVE  call'[k] \in Slots /\ Serves(call'[k])
    <2>1. CASE k = c
      BY <1>1, <2>1
    <2>2. CASE k # c
      <3>1. call'[k] = [call[k] EXCEPT !.disturbed =
                          call[k].at # "idle" /\ (call[k].disturbed \/ touches)]
        BY <1>1, <2>2
      <3>2. (call[k].at # "idle" /\ (call[k].disturbed \/ touches)) \in BOOLEAN
        OBVIOUS
      <3>3. call[k] \in Slots /\ Serves(call[k])
        BY DEF CallsOK
      <3>4. QED
        BY <3>1, <3>2, <3>3 DEF Slots, Serves
    <2>3. QED
      BY <2>1, <2>2
  <1>3. call' \in [Calls -> Slots]
    BY <1>1, <1>2
  <1>4. QED
    BY <1>1, <1>2, <1>3 DEF CallsOK

(***************************************************************************)
(* A call that did not make the step knows what it knew, unless the step   *)
(* has disturbed it.                                                       *)
(***************************************************************************)
LEMMA OthersKnow ==
    ASSUME CallInv, NEW c \in Calls, NEW m \in Slots, NEW touches \in BOOLEAN,
           Serves(m), Continues(c, m, touches),
           ~touches => UNCHANGED <<doc, active>>,
           NEW k \in Calls, k # c
    PROVE  Knows(k)'
  <1>1. call'[k] = [call[k] EXCEPT !.disturbed =
                      call[k].at # "idle" /\ (call[k].disturbed \/ touches)]
    BY ContinuesServes DEF CallInv, ShapeOK
  <1>2. call[k] \in Slots /\ Knows(k)
    BY DEF CallInv, ShapeOK, CallsOK
  <1>3. CASE touches \/ ~Undisturbed(k)
    <2>1. ~Undisturbed(k)'
      BY <1>1, <1>2, <1>3 DEF Undisturbed, At, Slots
    <2>2. QED
      BY <2>1 DEF Knows, KeyFits, SaveFits, WipeFits
  <1>4. CASE ~touches /\ Undisturbed(k)
    <2>1. call'[k] = call[k]
      BY <1>1, <1>2, <1>4 DEF Undisturbed, At, Slots
    <2>2. doc' = doc /\ active' = active
      BY <1>4
    <2>3. KeyFits(k)'
      BY <1>2, <2>1, <2>2 DEF Knows, KeyFits, Undisturbed, At, Fresh, KeyOf, PixelsOf
    <2>4. SaveFits(k)'
      BY <1>2, <2>1, <2>2 DEF Knows, SaveFits, Undisturbed, At, InHand
    <2>5. WipeFits(k)'
      BY <1>2, <2>1, <2>2 DEF Knows, WipeFits, Undisturbed, At, Named
    <2>6. QED
      BY <2>3, <2>4, <2>5 DEF Knows
  <1>5. QED
    BY <1>3, <1>4

(***************************************************************************)
(* A call that has ended, or was disturbed, has nothing to know.           *)
(***************************************************************************)
LEMMA NothingToKnow ==
    ASSUME NEW c \in Calls, call'[c].at = "idle" \/ call'[c].disturbed
    PROVE  Knows(c)'
  <1>1. ~Undisturbed(c)'
    BY DEF Undisturbed, At
  <1>2. QED
    BY <1>1 DEF Knows, KeyFits, SaveFits, WipeFits

(***************************************************************************)
(* What remains of channels is stuck, and was there.                       *)
(***************************************************************************)
LEMMA RemainsAreStuck ==
    ASSUME NEW chan \in SUBSET Channels, NEW left \in Remains(chan)
    PROVE  /\ left \in SUBSET Channels
           /\ \A mask \in left :
                /\ mask.stuck
                /\ \E old \in chan : /\ mask.name = old.name /\ mask.of = old.of
                                     /\ mask.px = old.px /\ mask.fit = old.fit
  <1>1. PICK kept \in SUBSET chan : left = {[mask EXCEPT !.stuck = TRUE] : mask \in kept}
    BY DEF Remains
  <1>2. ASSUME NEW mask \in left
        PROVE  /\ mask \in Channels /\ mask.stuck
               /\ \E old \in chan : /\ mask.name = old.name /\ mask.of = old.of
                                    /\ mask.px = old.px /\ mask.fit = old.fit
    <2>1. PICK old \in kept : mask = [old EXCEPT !.stuck = TRUE]
      BY <1>1
    <2>2. old \in chan /\ old \in Channels
      BY <1>1
    <2>3. QED
      BY <2>1, <2>2 DEF Channels
  <1>3. QED
    BY <1>2

(***************************************************************************)
(* Giving a document channels of the regions they are named for leaves it  *)
(* well formed.                                                            *)
(***************************************************************************)
LEMMA ChannelsPut ==
    ASSUME DocsOK, NEW d \in Docs, NEW chan \in SUBSET Channels,
           \A mask \in chan : mask.fit => mask.of = mask.name,
           doc' = [doc EXCEPT ![d].chan = chan]
    PROVE  /\ DocsOK' /\ doc'[d].chan = chan
           /\ doc'[d].px = doc[d].px /\ doc'[d].sel = doc[d].sel
           /\ \A e \in Docs \ {d} : doc'[e] = doc[e]
  <1>1. \A e \in Docs : doc[e] \in Opened /\ DocOK(doc[e])
    BY DEF DocsOK
  <1>2. doc'[d] = [doc[d] EXCEPT !.chan = chan]
    BY DEF DocsOK
  <1>3. doc'[d].chan = chan /\ doc'[d].px = doc[d].px /\ doc'[d].sel = doc[d].sel
    BY <1>1, <1>2 DEF Opened
  <1>4. doc'[d] \in Opened
    BY <1>1, <1>2 DEF Opened
  <1>5. DocOK(doc'[d])
    BY <1>1, <1>3 DEF DocOK
  <1>6. \A e \in Docs \ {d} : doc'[e] = doc[e]
    BY DEF DocsOK
  <1>7. doc' \in [Docs -> Opened]
    BY <1>1, <1>4, <1>6 DEF DocsOK
  <1>8. QED
    BY <1>1, <1>3, <1>5, <1>6, <1>7 DEF DocsOK

(***************************************************************************)
(* So does selecting something.                                            *)
(***************************************************************************)
LEMMA RegionSelected ==
    ASSUME DocsOK, NEW d \in Docs, NEW of \in Words, NEW sel,
           sel \in {Nothing, doc[d].sel} \/ (\E v \in Versions : sel = Selected(of, v)),
           doc' = [doc EXCEPT ![d].sel = sel]
    PROVE  DocsOK' /\ doc'[d].chan = doc[d].chan /\ doc'[d].sel = sel
  <1>1. \A e \in Docs : doc[e] \in Opened /\ DocOK(doc[e])
    BY DEF DocsOK
  <1>2. doc'[d] = [doc[d] EXCEPT !.sel = sel]
    BY DEF DocsOK
  <1>3. sel \in Selections /\ (sel # Nothing => sel.px \in Versions)
    <2>1. CASE sel = Nothing
      BY <2>1, EmptyValues
    <2>2. CASE sel = doc[d].sel
      BY <1>1, <2>2 DEF Opened, DocOK
    <2>3. CASE \E v \in Versions : sel = Selected(of, v)
      BY <2>3 DEF Selected, Selections
    <2>4. QED
      BY <2>1, <2>2, <2>3
  <1>4. doc'[d] \in Opened
    BY <1>1, <1>2, <1>3 DEF Opened
  <1>5. doc'[d].chan = doc[d].chan /\ doc'[d].sel = sel
    BY <1>1, <1>2 DEF Opened
  <1>6. DocOK(doc'[d])
    BY <1>1, <1>3, <1>5 DEF DocOK
  <1>7. \A e \in Docs \ {d} : doc'[e] = doc[e]
    BY DEF DocsOK
  <1>8. doc' \in [Docs -> Opened]
    BY <1>1, <1>4, <1>7 DEF DocsOK
  <1>9. QED
    BY <1>1, <1>5, <1>6, <1>7, <1>8 DEF DocsOK

-----------------------------------------------------------------------------
(* Each step keeps the invariant *)


(***************************************************************************)
(* A call that goes on at an early step knows its key, if it has one.      *)
(***************************************************************************)
LEMMA EarlyKnows ==
    ASSUME NEW c \in Calls,
           call'[c].at \notin {"derive", "save", "deselect"}
             \/ (call'[c].at = "derive" /\ call'[c].tool = "select"),
           ~call'[c].disturbed /\ call'[c].at \in Early => Fresh(call[c].key)'
    PROVE  Knows(c)'
  <1>1. SaveFits(c)' /\ WipeFits(c)'
    BY DEF SaveFits, WipeFits, At
  <1>2. KeyFits(c)'
    BY DEF KeyFits, Undisturbed, At
  <1>3. QED
    BY <1>1, <1>2 DEF Knows

(***************************************************************************)
(* A key stays fresh as long as no document is touched.                    *)
(***************************************************************************)
LEMMA StaysFresh ==
    ASSUME NEW c \in Calls, NEW key, Fresh(key), call'[c].key = key, UNCHANGED <<doc, active>>
    PROVE  Fresh(call[c].key)'
  BY DEF Fresh, KeyOf, PixelsOf

(***************************************************************************)
(* What a step must show: that the memory and the documents stay well      *)
(* formed, that it tells the other calls what it touched, and what its own *)
(* call knows then.                                                        *)
(***************************************************************************)
LEMMA StepKeeps ==
    ASSUME CallInv, NEW c \in Calls, NEW m \in Slots, NEW touches \in BOOLEAN,
           Serves(m), Continues(c, m, touches), active' = active,
           ~touches => doc' = doc,
           MemoryOK', DocsOK', Knows(c)'
    PROVE  CallInv'
  <1>1. CallsOK'
    BY ContinuesServes DEF CallInv, ShapeOK
  <1>2. ASSUME NEW k \in Calls
        PROVE  Knows(k)'
    BY OthersKnow
  <1>3. QED
    BY <1>1, <1>2 DEF CallInv, ShapeOK

(***************************************************************************)
(* Loading a channel.                                                      *)
(***************************************************************************)
LEMMA LoadKeeps ==
    ASSUME CallInv, NEW c \in Calls, Load(c)
    PROVE  CallInv'
  <1>1. PICK m \in Ready(c, "load"), e \in Endings :
          /\ \/ /\ doc' = doc
                /\ Continues(c, IF e = "ok" THEN [m EXCEPT !.at = "export"] ELSE Idle, FALSE)
             \/ \E mask \in Named(active, m.target) :
                  /\ doc' = IF Runs(e)
                            THEN [doc EXCEPT ![active].sel = Selected(mask.of, mask.px)]
                            ELSE doc
                  /\ Continues(c, Idle, Runs(e))
          /\ UNCHANGED <<active, memory>>
    BY DEF Load
  <1>2. ShapeOK /\ active \in Docs /\ doc[active] \in Opened
    BY DEF CallInv, ShapeOK, DocsOK
  <1>3. /\ m \in Slots /\ ~m.disturbed /\ m.built = {}
        /\ m.tool = "select" /\ ~m.narrow /\ m.target \in Regions
    BY <1>2, ReadyToLoad DEF ShapeOK
  <1>4. MemoryOK' /\ active' = active
    BY <1>1, <1>2 DEF ShapeOK, MemoryOK, memory
  <1>5. CASE /\ doc' = doc
             /\ Continues(c, IF e = "ok" THEN [m EXCEPT !.at = "export"] ELSE Idle, FALSE)
    <2> DEFINE n == IF e = "ok" THEN [m EXCEPT !.at = "export"] ELSE Idle
    <2>1. n \in Slots /\ Serves(n) /\ n.at \in {"idle", "export"}
      BY <1>3, EmptyValues DEF Slots, Steps, Serves
    <2>2. DocsOK'
      BY <1>2, <1>5 DEF ShapeOK, DocsOK
    <2>3. Continues(c, n, FALSE)
      BY <1>5
    <2> HIDE DEF n
    <2>4. call'[c] = n
      BY <1>2, <2>1, <2>3, ContinuesServes DEF ShapeOK
    <2>5. Knows(c)'
      BY <2>1, <2>4, EarlyKnows DEF Early
    <2>6. QED
      BY <1>4, <1>5, <2>1, <2>2, <2>3, <2>5, StepKeeps
  <1>6. ASSUME NEW mask \in Named(active, m.target),
               doc' = IF Runs(e) THEN [doc EXCEPT ![active].sel = Selected(mask.of, mask.px)]
                      ELSE doc,
               Continues(c, Idle, Runs(e))
        PROVE  CallInv'
    <2>1. mask.of \in Words /\ mask.px \in Versions
      BY <1>2 DEF Named, Opened, Channels
    <2>2. Runs(e) \in BOOLEAN /\ (~Runs(e) => doc' = doc)
      BY <1>6 DEF Runs
    <2>3. DocsOK'
      <3>1. CASE Runs(e)
        <4>1. doc' = [doc EXCEPT ![active].sel = Selected(mask.of, mask.px)]
          BY <1>6, <3>1
        <4>2. \E v \in Versions : Selected(mask.of, mask.px) = Selected(mask.of, v)
          BY <2>1
        <4>3. QED
          BY <1>2, <2>1, <4>1, <4>2, RegionSelected DEF ShapeOK
      <3>2. CASE ~Runs(e)
        BY <1>2, <2>2, <3>2 DEF ShapeOK, DocsOK
      <3>3. QED
        BY <3>1, <3>2
    <2>4. call'[c] = Idle
      BY <1>2, <1>6, <2>2, EmptyValues, ContinuesServes DEF ShapeOK
    <2>5. Knows(c)'
      BY <2>4, EmptyValues, NothingToKnow
    <2>6. QED
      BY <1>4, <1>6, <2>2, <2>3, <2>5, EmptyValues, StepKeeps
  <1>7. QED
    BY <1>1, <1>5, <1>6

(***************************************************************************)
(* The keys an export may have.                                            *)
(***************************************************************************)
LEMMA ExportedKeys ==
    ASSUME ShapeOK, NEW key \in {KeyOf(active), PixelsOf(active), NoKey}
    PROVE  key \in Keys /\ Fresh(key)
  <1>1. doc[active].px \in Versions /\ Name[active] \in Names
    BY SceneAssumption DEF ShapeOK, DocsOK, Opened
  <1>2. KeyOf(active) \in Keys /\ PixelsOf(active) \in Keys
    BY <1>1 DEF KeyOf, PixelsOf, Keys
  <1>3. QED
    BY <1>2, EmptyValues DEF Fresh

(***************************************************************************)
(* Exporting.                                                              *)
(***************************************************************************)
LEMMA ExportKeeps ==
    ASSUME CallInv, NEW c \in Calls, Export(c)
    PROVE  CallInv'
  <1>1. PICK m \in Ready(c, "export"), e \in Endings,
             key \in {KeyOf(active), PixelsOf(active), NoKey} :
          LET keyed == [m EXCEPT !.key = key]
              hit   == ~m.refresh /\ SameIdentity(scene.key, key)
          IN  /\ Continues(c, CASE e # "ok" -> Idle
                                [] e = "ok" /\ hit -> AfterModel(keyed)
                                [] OTHER -> [keyed EXCEPT !.at = "histogram"], FALSE)
              /\ UNCHANGED <<doc, active, memory>>
    BY DEF Export
  <1> DEFINE keyed == [m EXCEPT !.key = key]
             hit   == ~m.refresh /\ SameIdentity(scene.key, key)
             n == CASE e # "ok" -> Idle
                    [] e = "ok" /\ hit -> AfterModel(keyed)
                    [] OTHER -> [keyed EXCEPT !.at = "histogram"]
  <1>2. ShapeOK
    BY DEF CallInv
  <1>3. /\ m \in Slots /\ m.built = {}
        /\ m.tool \in {"read", "select"}
        /\ m.tool = "select" => m.target \in Regions
        /\ m.tool = "read" => ~m.narrow
    BY <1>2, ReadyToExport DEF ShapeOK
  <1>4. key \in Keys /\ Fresh(key)
    BY <1>2, ExportedKeys
  <1>5. /\ keyed \in Slots /\ keyed.built = {}
        /\ keyed.tool \in {"read", "select"}
        /\ keyed.tool = "select" => keyed.target \in Regions
        /\ keyed.tool = "read" => ~keyed.narrow
        /\ keyed.key = key
    BY <1>3, <1>4 DEF Slots
  <1>6. MemoryOK' /\ DocsOK' /\ active' = active /\ doc' = doc
    BY <1>1, <1>2 DEF ShapeOK, MemoryOK, DocsOK, memory
  <1>7. Continues(c, n, FALSE)
    BY <1>1
  <1> HIDE DEF keyed, hit
  <1>8. n = Idle \/ n = AfterModel(keyed) \/ n = [keyed EXCEPT !.at = "histogram"]
    OBVIOUS
  <1>9. /\ n \in Slots /\ Serves(n)
        /\ n.at \notin {"derive", "save", "deselect"} \/ (n.at = "derive" /\ n.tool = "select")
        /\ n.at \in Early => n.key = key
    <2>1. CASE n = Idle
      BY <2>1, EmptyValues DEF Early
    <2>2. CASE n = AfterModel(keyed)
      BY <1>2, <1>5, <2>2, AfterModelServes DEF ShapeOK, Early
    <2>3. CASE n = [keyed EXCEPT !.at = "histogram"]
      BY <1>5, <2>3 DEF Slots, Steps, Serves
    <2>4. QED
      BY <1>8, <2>1, <2>2, <2>3
  <1> HIDE DEF n
  <1>10. call'[c] = n
    BY <1>2, <1>7, <1>9, ContinuesServes DEF ShapeOK
  <1>11. Knows(c)'
    BY <1>4, <1>6, <1>9, <1>10, StaysFresh, EarlyKnows
  <1>12. QED
    BY <1>6, <1>7, <1>9, <1>11, StepKeeps

(***************************************************************************)
(* Building a model.                                                       *)
(***************************************************************************)
LEMMA HistogramKeeps ==
    ASSUME CallInv, NEW c \in Calls, Histogram(c)
    PROVE  CallInv'
  <1>1. PICK e \in Endings :
          /\ scene' = IF e = "ok" /\ call[c].key # NoKey
                      THEN [key |-> call[c].key, zones |-> ZonesOf(active),
                            calm |-> ~call[c].disturbed]
                      ELSE scene
          /\ Continues(c, IF e = "ok" THEN AfterModel(call[c]) ELSE Idle, FALSE)
    BY DEF Histogram
  <1> DEFINE n == IF e = "ok" THEN AfterModel(call[c]) ELSE Idle
  <1>2. ShapeOK /\ Knows(c)
    BY DEF CallInv
  <1>3. /\ At(c, "histogram")
        /\ UNCHANGED <<doc, active, recorded, recordedFit, menu>>
    BY DEF Histogram
  <1>4. /\ call[c] \in Slots /\ Serves(call[c])
        /\ call[c].tool \in {"read", "select"} /\ call[c].built = {}
    BY <1>2, <1>3 DEF ShapeOK, CallsOK, Serves, At
  <1>5. ZonesOf(active) \in Keys
    BY <1>2, SceneAssumption DEF ShapeOK, DocsOK, Opened, ZonesOf, Keys
  <1>6. DocsOK' /\ active' = active /\ doc' = doc
    BY <1>2, <1>3 DEF ShapeOK, DocsOK
  <1>7. MemoryOK'
    <2>1. call[c].key \in Keys /\ (~call[c].disturbed) \in BOOLEAN
      BY <1>4 DEF Slots
    <2>2. scene' \in [key : Keys, zones : Keys, calm : BOOLEAN]
      BY <1>1, <1>2, <1>5, <2>1 DEF ShapeOK, MemoryOK
    <2>3. QED
      BY <1>2, <1>3, <2>2 DEF ShapeOK, MemoryOK
  <1>8. Continues(c, n, FALSE)
    BY <1>1
  <1>9. /\ n \in Slots /\ Serves(n)
        /\ n.at \notin {"derive", "save", "deselect"} \/ (n.at = "derive" /\ n.tool = "select")
        /\ n.at \in Early => n.key = call[c].key /\ n.disturbed = call[c].disturbed
    <2>1. CASE n = Idle
      BY <2>1, EmptyValues DEF Early
    <2>2. CASE n = AfterModel(call[c])
      BY <1>2, <1>4, <2>2, AfterModelServes DEF ShapeOK, Serves, Early
    <2>3. QED
      BY <2>1, <2>2
  <1>10. ~call[c].disturbed => Fresh(call[c].key)
    BY <1>2, <1>3 DEF Knows, KeyFits, Undisturbed, At, Early
  <1> HIDE DEF n
  <1>11. call'[c] = n
    BY <1>2, <1>8, <1>9, ContinuesServes DEF ShapeOK
  <1>12. Knows(c)'
    BY <1>6, <1>9, <1>10, <1>11, StaysFresh, EarlyKnows
  <1>13. QED
    BY <1>6, <1>7, <1>8, <1>9, <1>12, StepKeeps


(***************************************************************************)
(* A step that deletes the channels of the active document touches the     *)
(* documents exactly if it runs, and leaves no other channels than it met  *)
(* and those that could not be removed, in the active document these only. *)
(***************************************************************************)
LEMMA DeletionTouches ==
    ASSUME DocsOK, active \in Docs, NEW e, DeletesChannels(e)
    PROVE  /\ DocsOK' /\ Runs(e) \in BOOLEAN /\ (~Runs(e) => doc' = doc)
           /\ Runs(e) => \A mask \in doc'[active].chan : mask.stuck
           /\ \A d \in Docs : \A mask \in doc'[d].chan : mask \in doc[d].chan \/ mask.stuck
  <1>1. PICK left \in Remains(doc[active].chan) :
          doc' = IF Runs(e) THEN [doc EXCEPT ![active].chan = left] ELSE doc
    BY DEF DeletesChannels
  <1>2. Runs(e) \in BOOLEAN
    BY DEF Runs
  <1>3. doc[active].chan \in SUBSET Channels /\ DocOK(doc[active])
    BY DEF DocsOK, Opened
  <1>4. left \in SUBSET Channels /\ \A mask \in left : mask.stuck /\ (mask.fit => mask.of = mask.name)
    BY <1>3, RemainsAreStuck DEF DocOK
  <1>5. CASE Runs(e)
    <2>1. doc' = [doc EXCEPT ![active].chan = left]
      BY <1>1, <1>5
    <2>2. /\ DocsOK' /\ doc'[active].chan = left
          /\ \A d \in Docs \ {active} : doc'[d] = doc[d]
      BY <1>4, <2>1, ChannelsPut
    <2>3. QED
      BY <1>4, <1>5, <2>2
  <1>6. CASE ~Runs(e)
    <2>1. doc' = doc
      BY <1>1, <1>6
    <2>2. QED
      BY <1>2, <1>6, <2>1 DEF DocsOK
  <1>7. QED
    BY <1>2, <1>5, <1>6

(***************************************************************************)
(* Purging.                                                                *)
(***************************************************************************)
LEMMA PurgeKeeps ==
    ASSUME CallInv, NEW c \in Calls, Purge(c)
    PROVE  CallInv'
  <1>1. PICK e \in Endings :
          /\ DeletesChannels(e)
          /\ recorded' = IF e = "ok" THEN call[c].key ELSE NoKey
          /\ recordedFit' = NamesActive(call[c].key)
          /\ Continues(c, Idle, Runs(e))
    BY DEF Purge
  <1>2. UNCHANGED <<active, scene, menu>>
    BY DEF Purge
  <1>3. ShapeOK /\ call[c] \in Slots
    BY DEF CallInv, ShapeOK, CallsOK
  <1>4. DocsOK' /\ Runs(e) \in BOOLEAN /\ (~Runs(e) => doc' = doc)
    BY <1>1, <1>3, DeletionTouches DEF ShapeOK
  <1>5. MemoryOK'
    <2>1. recordedFit' \in BOOLEAN /\ recorded' \in Keys
      BY <1>1, <1>3, EmptyValues DEF Slots, NamesActive
    <2>2. QED
      BY <1>2, <1>3, <2>1 DEF ShapeOK, MemoryOK
  <1>6. call'[c] = Idle
    BY <1>1, <1>3, <1>4, EmptyValues, ContinuesServes DEF ShapeOK
  <1>7. Knows(c)'
    BY <1>6, EmptyValues, NothingToKnow
  <1>8. QED
    BY <1>1, <1>2, <1>4, <1>5, <1>7, EmptyValues, StepKeeps

(***************************************************************************)
(* Looking for the channels of the menu.                                   *)
(***************************************************************************)
LEMMA ExistsKeeps ==
    ASSUME CallInv, NEW c \in Calls, Exists(c)
    PROVE  CallInv'
  <1>1. \E good \in BOOLEAN :
          Continues(c, IF good THEN Idle ELSE [Go(c, "wipe") EXCEPT !.names = {}], FALSE)
    BY DEF Exists
  <1>2. PICK good \in BOOLEAN :
          Continues(c, IF good THEN Idle ELSE [Go(c, "wipe") EXCEPT !.names = {}], FALSE)
    BY <1>1
  <1> DEFINE n == IF good THEN Idle ELSE [Go(c, "wipe") EXCEPT !.names = {}]
  <1>3. UNCHANGED <<doc, active, memory>> /\ At(c, "exists")
    BY DEF Exists
  <1>4. ShapeOK /\ Knows(c) /\ call[c] \in Slots /\ Serves(call[c])
    BY DEF CallInv, ShapeOK, CallsOK
  <1>5. DocsOK' /\ MemoryOK' /\ active' = active /\ doc' = doc
    BY <1>3, <1>4 DEF ShapeOK, DocsOK, MemoryOK, memory
  <1>6. Continues(c, n, FALSE)
    BY <1>2
  <1>7. n = Idle \/ n = [Go(c, "wipe") EXCEPT !.names = {}]
    OBVIOUS
  <1>8. /\ n \in Slots /\ Serves(n) /\ n.at \in {"idle", "wipe"}
        /\ n.at \in Early => n.key = call[c].key /\ n.disturbed = call[c].disturbed
    <2>1. CASE n = Idle
      BY <2>1, EmptyValues DEF Early
    <2>2. CASE n = [Go(c, "wipe") EXCEPT !.names = {}]
      BY <1>3, <1>4, <2>2 DEF Go, At, Slots, Steps, Serves
    <2>3. QED
      BY <1>7, <2>1, <2>2
  <1>9. ~call[c].disturbed => Fresh(call[c].key)
    BY <1>3, <1>4 DEF Knows, KeyFits, Undisturbed, At, Early
  <1> HIDE DEF n
  <1>10. call'[c] = n
    BY <1>4, <1>6, <1>8, ContinuesServes DEF ShapeOK
  <1>11. Knows(c)'
    BY <1>5, <1>8, <1>9, <1>10, StaysFresh, EarlyKnows
  <1>12. QED
    BY <1>5, <1>6, <1>8, <1>11, StepKeeps

(***************************************************************************)
(* Wiping: an eager read that goes on has left the active document no      *)
(* channels but those that could not be removed.                           *)
(***************************************************************************)
LEMMA WipeKeeps ==
    ASSUME CallInv, NEW c \in Calls, Wipe(c)
    PROVE  CallInv'
  <1> DEFINE on == [Go(c, "derive") EXCEPT !.left = Targets, !.refresh = FALSE]
  <1>1. PICK e \in Endings :
          /\ DeletesChannels(e)
          /\ recorded' = IF e = "ok" THEN call[c].key ELSE recorded
          /\ recordedFit' = IF e = "ok" THEN NamesActive(call[c].key) ELSE recordedFit
          /\ Continues(c, IF e = "ok" THEN on ELSE Idle, Runs(e))
    BY DEF Wipe
  <1> DEFINE n == IF e = "ok" THEN on ELSE Idle
  <1>2. UNCHANGED <<active, scene, menu>> /\ At(c, "wipe")
    BY DEF Wipe
  <1>3. ShapeOK /\ call[c] \in Slots /\ Serves(call[c])
    BY DEF CallInv, ShapeOK, CallsOK
  <1>4. /\ DocsOK' /\ Runs(e) \in BOOLEAN /\ (~Runs(e) => doc' = doc)
        /\ Runs(e) => \A mask \in doc'[active].chan : mask.stuck
    BY <1>1, <1>3, DeletionTouches DEF ShapeOK
  <1>5. MemoryOK'
    <2>1. recorded' \in Keys
      BY <1>1, <1>3 DEF Slots, ShapeOK, MemoryOK
    <2>2. NamesActive(call[c].key) \in BOOLEAN /\ recordedFit \in BOOLEAN
      BY <1>3 DEF NamesActive, ShapeOK, MemoryOK
    <2>3. recordedFit' \in BOOLEAN
      BY <1>1, <2>2
    <2>4. QED
      BY <1>2, <1>3, <2>1, <2>3 DEF ShapeOK, MemoryOK
  <1>6. /\ on \in Slots /\ Serves(on) /\ on.at = "derive"
        /\ on.tool = "read" /\ on.built = {}
    BY <1>2, <1>3, TargetsAreRegions DEF Go, At, Slots, Steps, Serves
  <1>7. n \in Slots /\ Serves(n)
    BY <1>6, EmptyValues
  <1>8. call'[c] = n
    BY <1>1, <1>3, <1>4, <1>7, ContinuesServes DEF ShapeOK
  <1>9. Knows(c)'
    <2>1. CASE e # "ok"
      BY <1>8, <2>1, EmptyValues, NothingToKnow
    <2>2. CASE e = "ok"
      <3>1. call'[c] = on /\ Runs(e)
        BY <1>8, <2>2 DEF Runs
      <3>2. KeyFits(c)' /\ SaveFits(c)'
        BY <1>6, <3>1 DEF KeyFits, SaveFits, Early, At
      <3>3. WipeFits(c)'
        BY <1>2, <1>4, <1>6, <3>1 DEF WipeFits
      <3>4. QED
        BY <3>2, <3>3 DEF Knows
    <2>3. QED
      BY <2>1, <2>2
  <1>10. QED
    BY <1>1, <1>2, <1>4, <1>5, <1>7, <1>9, StepKeeps


(***************************************************************************)
(* More than one target leaves one to go on with.                          *)
(***************************************************************************)
LEMMA TailIsLeft ==
    ASSUME NEW q \in Seq(Regions), Len(q) > 1
    PROVE  Tail(q) \in Seq(Regions) /\ Tail(q) # <<>>
  <1>1. Len(q) \in Nat /\ q # <<>>
    OBVIOUS
  <1>2. Tail(q) \in Seq(Regions) /\ Len(Tail(q)) = Len(q) - 1
    BY <1>1
  <1>3. Len(Tail(q)) # 0
    BY <1>1, <1>2
  <1>4. QED
    BY <1>2, <1>3, EmptySeq

(***************************************************************************)
(* A call that is done with its target has ended, or is an eager read with *)
(* the same history, that goes on to its next target or has none left.     *)
(***************************************************************************)
LEMMA NextTargetServes ==
    ASSUME NEW m \in Slots, Serves(m), m.at \in {"derive", "save"}
    PROVE  LET n == NextTarget(m)
           IN  /\ n \in Slots /\ Serves(n)
               /\ \/ n = Idle
                  \/ /\ n.tool = "read" /\ m.tool = "read"
                     /\ n.at \in {"derive", "deselect"}
                     /\ n.built = m.built /\ n.disturbed = m.disturbed
                     /\ n.covered = m.covered
  <1>1. m.tool \in {"read", "select"} /\ m.left \in Seq(Regions)
    BY DEF Serves, Slots
  <1>2. CASE m.tool = "select"
    <2>1. NextTarget(m) = Idle
      BY <1>2 DEF NextTarget
    <2>2. QED
      BY <2>1, EmptyValues
  <1>3. CASE m.tool = "read" /\ Len(m.left) > 1
    <2>1. Tail(m.left) \in Seq(Regions) /\ Tail(m.left) # <<>>
      BY <1>1, <1>3, TailIsLeft
    <2>3. NextTarget(m) = [m EXCEPT !.at = "derive", !.left = Tail(m.left)]
      BY <1>3 DEF NextTarget
    <2>4. QED
      BY <1>3, <2>1, <2>3 DEF Slots, Steps, Serves
  <1>4. CASE m.tool = "read" /\ ~(Len(m.left) > 1)
    <2>1. NextTarget(m) = [m EXCEPT !.at = "deselect", !.left = <<>>]
      BY <1>4 DEF NextTarget
    <2>2. <<>> \in Seq(Regions)
      OBVIOUS
    <2>3. NextTarget(m) \in Slots
      BY <2>1, <2>2 DEF Slots, Steps
    <2>4. QED
      BY <1>4, <2>1, <2>3 DEF Slots, Serves
  <1>5. QED
    BY <1>1, <1>2, <1>3, <1>4

(***************************************************************************)
(* The target in hand is a region.                                         *)
(***************************************************************************)
LEMMA InHandIsARegion ==
    ASSUME NEW c \in Calls, call[c] \in Slots, Serves(call[c]), call[c].at \in {"derive", "save"}
    PROVE  InHand(c) \in Regions
  <1>1. CASE call[c].tool = "select"
    BY <1>1 DEF InHand, Serves
  <1>2. CASE call[c].tool = "read"
    <2>1. call[c].left \in Seq(Regions) /\ call[c].left # <<>>
      BY <1>2 DEF Serves, Slots
    <2>2. Head(call[c].left) \in Regions
      BY <2>1
    <2>3. QED
      BY <1>2, <2>2 DEF InHand
  <1>3. QED
    BY <1>1, <1>2 DEF Serves

(***************************************************************************)
(* A method selects something.                                             *)
(***************************************************************************)
LEMMA FoundIsSelected ==
    ASSUME NEW c \in Calls, call[c] \in Slots, Serves(call[c]), At(c, "derive"),
           NEW px \in Versions
    PROVE  /\ \E of \in Words : Found(c, px) = Selected(of, px)
           /\ Found(c, px) # Nothing
           /\ ~call[c].narrow => Found(c, px) = Selected(InHand(c), px)
  <1>1. InHand(c) \in Regions
    BY InHandIsARegion DEF At
  <1>2. (IF call[c].narrow THEN Narrowed ELSE InHand(c)) \in Words
    BY <1>1 DEF Words
  <1>3. \E of \in Words : Found(c, px) = Selected(of, px)
    BY <1>2 DEF Found
  <1>4. Found(c, px).px = px
    BY DEF Found, Selected
  <1>5. Nothing.px = None /\ px # None
    BY SceneAssumption DEF Nothing, Selected
  <1>6. ~call[c].narrow => Found(c, px) = Selected(InHand(c), px)
    BY DEF Found
  <1>7. QED
    BY <1>3, <1>4, <1>5, <1>6

(***************************************************************************)
(* Deriving a region.                                                      *)
(***************************************************************************)
LEMMA DeriveKeeps ==
    ASSUME CallInv, NEW c \in Calls, Derive(c)
    PROVE  CallInv'
  <1>1. PICK passes \in BOOLEAN, smooth \in BOOLEAN, px \in {Uncovered} \cup Covered :
          /\ \E sel \in IF passes THEN {Found(c, px)} ELSE Left(c, px, smooth) :
               doc' = [doc EXCEPT ![active].px = px, ![active].sel = sel]
          /\ LET m == [call[c] EXCEPT !.covered = call[c].covered \/ px # doc[active].px]
             IN  Continues(c, IF ~passes THEN NextTarget(m)
                              ELSE IF m.narrow THEN Idle ELSE [m EXCEPT !.at = "save"], TRUE)
    BY DEF Derive
  <1>2. PICK sel \in IF passes THEN {Found(c, px)} ELSE Left(c, px, smooth) :
          doc' = [doc EXCEPT ![active].px = px, ![active].sel = sel]
    BY <1>1
  <1> DEFINE m == [call[c] EXCEPT !.covered = call[c].covered \/ px # doc[active].px]
             n == IF ~passes THEN NextTarget(m)
                  ELSE IF m.narrow THEN Idle ELSE [m EXCEPT !.at = "save"]
  <1>3. UNCHANGED <<active, memory>> /\ At(c, "derive")
    BY DEF Derive
  <1>4. ShapeOK /\ Knows(c) /\ call[c] \in Slots /\ Serves(call[c])
    BY DEF CallInv, ShapeOK, CallsOK
  <1>5. px \in Versions
    BY <1>4 DEF Uncovered, Covered, ShapeOK, DocsOK, Opened
  <1>6. PICK of \in Words : Found(c, px) = Selected(of, px)
    BY <1>3, <1>4, <1>5, FoundIsSelected
  <1>7. sel \in {Nothing, doc[active].sel, Selected(of, px)} /\ (passes => sel = Found(c, px))
    BY <1>2, <1>6 DEF Left
  <1>8. /\ DocsOK' /\ doc'[active].chan = doc[active].chan /\ doc'[active].sel = sel
        /\ doc'[active].px = px
    <2>1. DocsOK' /\ doc'[active].chan = doc[active].chan /\ doc'[active].sel = sel
      <3>1. DocsOK /\ active \in Docs
        BY <1>4 DEF ShapeOK
      <3> DEFINE new == [doc[active] EXCEPT !.px = px, !.sel = sel]
      <3>2. doc[active] \in Opened /\ DocOK(doc[active])
        BY <3>1 DEF DocsOK
      <3>3. sel \in Selections /\ (sel # Nothing => sel.px \in Versions)
        <4>1. CASE sel = Nothing
          BY <4>1, EmptyValues
        <4>2. CASE sel = doc[active].sel
          BY <3>2, <4>2 DEF Opened, DocOK
        <4>3. CASE sel = Selected(of, px)
          BY <1>5, <4>3 DEF Selected, Selections
        <4>4. QED
          BY <1>7, <4>1, <4>2, <4>3
      <3>4. /\ new \in Opened /\ new.chan = doc[active].chan
            /\ new.sel = sel /\ new.px = px
        BY <1>5, <3>2, <3>3 DEF Opened
      <3>5. DocOK(new)
        BY <3>2, <3>3, <3>4 DEF DocOK
      <3>6. doc' = [doc EXCEPT ![active] = new]
        BY <1>2, <3>1 DEF DocsOK, Opened
      <3> HIDE DEF new
      <3>7. doc'[active] = new /\ \A d \in Docs : doc'[d] \in Opened /\ DocOK(doc'[d])
        BY <3>1, <3>4, <3>5, <3>6 DEF DocsOK
      <3>8. doc' \in [Docs -> Opened]
        BY <3>1, <3>4, <3>6 DEF DocsOK
      <3>9. QED
        BY <3>4, <3>7, <3>8 DEF DocsOK
    <2>2. doc'[active].px = px
      BY <1>2, <1>4 DEF ShapeOK, DocsOK, Opened
    <2>3. QED
      BY <2>1, <2>2
  <1>9. MemoryOK' /\ active' = active
    BY <1>3, <1>4 DEF ShapeOK, MemoryOK, memory
  <1>10. Continues(c, n, TRUE)
    BY <1>1
  <1>11. /\ m \in Slots /\ Serves(m) /\ m.at = "derive" /\ m.narrow = call[c].narrow
         /\ m.tool = call[c].tool /\ m.target = call[c].target /\ m.left = call[c].left
         /\ m.built = call[c].built /\ m.disturbed = call[c].disturbed
         /\ m.covered = (call[c].covered \/ px # doc[active].px)
    BY <1>3, <1>4 DEF Slots, Serves, At
  <1> HIDE DEF m
  <1>12. /\ n \in Slots /\ Serves(n)
         /\ \/ n = Idle
            \/ /\ n.at \in {"derive", "save", "deselect"}
               /\ n.at \in {"derive", "deselect"} => n.tool = "read"
               /\ n.at = "save" => /\ passes /\ ~call[c].narrow
                                   /\ n.target = call[c].target /\ n.left = call[c].left
               /\ n.tool = call[c].tool /\ n.built = call[c].built
               /\ n.disturbed = call[c].disturbed /\ n.covered = m.covered
    <2>1. CASE ~passes
      <3>1. n = NextTarget(m)
        BY <2>1
      <3>2. QED
        BY <1>11, <3>1, NextTargetServes
    <2>2. CASE passes /\ m.narrow
      BY <2>2, EmptyValues
    <2>3. CASE passes /\ ~m.narrow
      <3>1. n = [m EXCEPT !.at = "save"]
        BY <2>3
      <3>2. n \in Slots /\ n.at = "save" /\ n.target = m.target /\ n.left = m.left
        BY <1>11, <3>1 DEF Slots, Steps
      <3>3. Serves(n)
        BY <1>11, <2>3, <3>1 DEF Slots, Serves
      <3>4. n.tool = m.tool /\ n.built = m.built /\ n.disturbed = m.disturbed /\ n.covered = m.covered
        BY <1>11, <3>1 DEF Slots
      <3>5. QED
        BY <1>11, <2>3, <3>2, <3>3, <3>4
    <2>4. QED
      BY <2>1, <2>2, <2>3
  <1> HIDE DEF n
  <1>13. call'[c] = n
    BY <1>4, <1>10, <1>12, ContinuesServes DEF ShapeOK
  <1>14. Knows(c)'
    <2>1. CASE n = Idle \/ n.disturbed
      BY <1>13, <2>1, EmptyValues, NothingToKnow
    <2>2. CASE n # Idle /\ ~n.disturbed
      <3>1. Undisturbed(c)
        BY <1>3, <1>12, <2>2 DEF Undisturbed, At
      <3>2. KeyFits(c)'
        BY <1>12, <1>13, <2>2 DEF KeyFits, Early
      <3>3. SaveFits(c)'
        <4>1. SUFFICES ASSUME n.at = "save"
                       PROVE  /\ doc'[active].sel # Nothing
                              /\ doc'[active].sel = Selected(InHand(c)', doc'[active].px)
          BY <1>9, <1>13 DEF SaveFits, At
        <4>2. InHand(c)' = InHand(c)
          BY <1>12, <1>13, <2>2, <4>1 DEF InHand
        <4>3. doc'[active].sel = Found(c, px) /\ ~call[c].narrow
          BY <1>7, <1>8, <1>12, <2>2, <4>1
        <4>4. QED
          BY <1>3, <1>4, <1>5, <1>8, <4>2, <4>3, FoundIsSelected
      <3>4. WipeFits(c)'
        <4>1. SUFFICES ASSUME n.tool = "read"
                       PROVE  /\ \A t \in n.built : Named(active, t)' # {}
                              /\ \A mask \in doc'[active].chan :
                                   mask.px = doc'[active].px \/ mask.stuck \/ n.covered
          BY <1>9, <1>13 DEF WipeFits
        <4>2. /\ \A t \in call[c].built : Named(active, t) # {}
              /\ \A mask \in doc[active].chan :
                   mask.px = doc[active].px \/ mask.stuck \/ call[c].covered
          BY <1>3, <1>4, <1>12, <2>2, <3>1, <4>1 DEF Knows, WipeFits, At
        <4>3. \A t : Named(active, t)' = Named(active, t)
          BY <1>8, <1>9 DEF Named
        <4>4. QED
          BY <1>8, <1>11, <1>12, <2>2, <4>2, <4>3
      <3>5. QED
        BY <3>2, <3>3, <3>4 DEF Knows
    <2>3. QED
      BY <2>1, <2>2
  <1>15. QED
    BY <1>8, <1>9, <1>10, <1>12, <1>14, StepKeeps


(***************************************************************************)
(* The channel saved is well formed, of the region it is named for if      *)
(* nobody has disturbed the call, and off the record if it is of other     *)
(* pixels than those recorded for its document.                            *)
(***************************************************************************)
LEMMA SavedIsTrue ==
    ASSUME ShapeOK, NEW c \in Calls, Knows(c), At(c, "save")
    PROVE  /\ Saved(c) \in SUBSET Channels
           /\ \A mask \in Saved(c) :
                /\ mask.name = InHand(c) /\ mask.px = doc[active].sel.px
                /\ mask.fit => mask.of = mask.name
                /\ recorded.name = Name[active] => mask.px = recorded.px \/ mask.offRecord
           /\ doc[active].sel # Nothing <=> Saved(c) # {}
  <1> DEFINE sel == doc[active].sel
             off == recorded.name = Name[active] /\ recorded.px # sel.px
             mask == Mask(InHand(c), sel, ~call[c].disturbed, off)
  <1>1. sel \in Selections /\ (sel # Nothing => sel.px \in Versions)
    BY DEF ShapeOK, DocsOK, DocOK, Opened
  <1>2. call[c] \in Slots /\ Serves(call[c])
    BY DEF ShapeOK, CallsOK
  <1>3. InHand(c) \in Regions /\ (~call[c].disturbed) \in BOOLEAN /\ off \in BOOLEAN
    BY <1>2, InHandIsARegion DEF At, Slots
  <1>4. CASE sel = Nothing
    <2>1. Saved(c) = {}
      BY <1>4 DEF Saved
    <2>2. QED
      BY <1>4, <2>1
  <1>5. CASE sel # Nothing
    <2>1. Saved(c) = {mask}
      BY <1>5 DEF Saved
    <2>2. ~call[c].disturbed => sel.of = InHand(c)
      BY DEF Knows, SaveFits, Undisturbed, At, Selected
    <2> HIDE DEF off
    <2>3. /\ mask.name = InHand(c) /\ mask.of = sel.of /\ mask.px = sel.px
          /\ mask.fit = (~call[c].disturbed) /\ mask.offRecord = off
      BY DEF Mask
    <2>4. mask \in Channels
      BY <1>1, <1>3, <1>5 DEF Mask, Channels, Selections
    <2>5. recorded.name = Name[active] => sel.px = recorded.px \/ off
      BY DEF off
    <2>6. QED
      BY <1>5, <2>1, <2>2, <2>3, <2>4, <2>5
  <1>6. QED
    BY <1>4, <1>5

(***************************************************************************)
(* What Save makes of the channels of the active document, if it runs: it  *)
(* leaves those of other names, what remains of this one, and the new one. *)
(***************************************************************************)
LEMMA ChannelSaved ==
    ASSUME ShapeOK, NEW c \in Calls, Knows(c), At(c, "save"),
           NEW left \in Remains(Named(active, InHand(c))),
           doc' = [doc EXCEPT ![active].chan =
                     (doc[active].chan \ Named(active, InHand(c))) \cup left \cup Saved(c)]
    PROVE  /\ DocsOK'
           /\ doc'[active].px = doc[active].px /\ doc'[active].sel = doc[active].sel
           /\ \A d \in Docs \ {active} : doc'[d] = doc[d]
           /\ doc'[active].chan =
                (doc[active].chan \ Named(active, InHand(c))) \cup left \cup Saved(c)
           /\ \A mask \in left : mask.stuck
  <1> DEFINE old == Named(active, InHand(c))
             new == (doc[active].chan \ old) \cup left \cup Saved(c)
  <1>1. /\ DocsOK /\ active \in Docs /\ doc[active].chan \in SUBSET Channels
        /\ \A mask \in doc[active].chan : mask.fit => mask.of = mask.name
    BY DEF ShapeOK, DocsOK, DocOK, Opened
  <1>2. old \in SUBSET Channels
    BY <1>1 DEF Named
  <1>3. /\ left \in SUBSET Channels
        /\ \A mask \in left : mask.stuck /\ (mask.fit => mask.of = mask.name)
    BY <1>1, <1>2, RemainsAreStuck DEF Named
  <1>4. Saved(c) \in SUBSET Channels /\ \A mask \in Saved(c) : mask.fit => mask.of = mask.name
    BY SavedIsTrue
  <1>5. new \in SUBSET Channels /\ \A mask \in new : mask.fit => mask.of = mask.name
    BY <1>1, <1>3, <1>4
  <1>6. doc' = [doc EXCEPT ![active].chan = new]
    OBVIOUS
  <1> HIDE DEF new
  <1>7. /\ DocsOK' /\ doc'[active].chan = new
        /\ doc'[active].px = doc[active].px /\ doc'[active].sel = doc[active].sel
        /\ \A d \in Docs \ {active} : doc'[d] = doc[d]
    BY <1>1, <1>5, <1>6, ChannelsPut
  <1>8. QED
    BY <1>3, <1>7 DEF new

(***************************************************************************)
(* Saving a region.                                                        *)
(***************************************************************************)
LEMMA SaveKeeps ==
    ASSUME CallInv, NEW c \in Calls, Save(c)
    PROVE  CallInv'
  <1> DEFINE t == InHand(c)
             ok(e) == e = "ok" /\ Saved(c) # {}
             w(e) == [call[c] EXCEPT !.built = IF ok(e) THEN call[c].built \cup {t}
                                               ELSE call[c].built]
  <1>1. PICK e \in Endings, left \in Remains(Named(active, t)) :
          /\ doc' = IF Runs(e)
                    THEN [doc EXCEPT ![active].chan =
                            (doc[active].chan \ Named(active, t)) \cup left \cup Saved(c)]
                    ELSE doc
          /\ Continues(c, NextTarget(w(e)), Runs(e))
    BY DEF Save
  <1> DEFINE n == NextTarget(w(e))
  <1>2. UNCHANGED <<active, memory>> /\ At(c, "save")
    BY DEF Save
  <1>3. ShapeOK /\ Knows(c) /\ call[c] \in Slots /\ Serves(call[c])
    BY DEF CallInv, ShapeOK, CallsOK
  <1>4. t \in Regions
    BY <1>2, <1>3, InHandIsARegion DEF At
  <1>5. MemoryOK' /\ active' = active
    BY <1>2, <1>3 DEF ShapeOK, MemoryOK, memory
  <1>6. w(e) \in Slots /\ Serves(w(e)) /\ w(e).at = "save"
        /\ w(e).tool = call[c].tool /\ w(e).disturbed = call[c].disturbed
        /\ w(e).built = (IF ok(e) THEN call[c].built \cup {t} ELSE call[c].built)
        /\ w(e).covered = call[c].covered
    <2>1. (IF ok(e) THEN call[c].built \cup {t} ELSE call[c].built) \in SUBSET Regions
      BY <1>3, <1>4 DEF Slots
    <2> DEFINE b == IF ok(e) THEN call[c].built \cup {t} ELSE call[c].built
    <2>2. w(e) = [call[c] EXCEPT !.built = b]
      OBVIOUS
    <2> HIDE DEF b, w
    <2>3. w(e) \in Slots /\ w(e).at = "save" /\ w(e).tool = call[c].tool
      BY <1>2, <1>3, <2>1, <2>2 DEF Slots, At, b
    <2>4. /\ w(e).disturbed = call[c].disturbed /\ w(e).covered = call[c].covered
          /\ w(e).built = b
      BY <1>3, <2>2 DEF Slots
    <2>5. Serves(w(e))
      BY <1>2, <1>3, <2>2, <2>3 DEF Slots, Serves, At
    <2>6. QED
      BY <2>3, <2>4, <2>5 DEF b
  <1> HIDE DEF w
  <1>7. /\ n \in Slots /\ Serves(n)
        /\ \/ n = Idle
           \/ /\ n.tool = "read" /\ call[c].tool = "read"
              /\ n.at \in {"derive", "deselect"}
              /\ n.disturbed = call[c].disturbed /\ n.covered = call[c].covered
              /\ n.built = IF ok(e) THEN call[c].built \cup {t} ELSE call[c].built
    <2>1. /\ n \in Slots /\ Serves(n)
          /\ \/ n = Idle
             \/ /\ n.tool = "read" /\ w(e).tool = "read"
                /\ n.at \in {"derive", "deselect"}
                /\ n.built = w(e).built /\ n.disturbed = w(e).disturbed
                /\ n.covered = w(e).covered
      BY <1>6, NextTargetServes
    <2>2. QED
      BY <1>6, <2>1
  <1>8. Runs(e) \in BOOLEAN
    BY DEF Runs
  <1>9. Continues(c, n, Runs(e))
    BY <1>1
  <1> HIDE DEF n
  <1>10. Runs(e) => /\ DocsOK' /\ doc'[active].px = doc[active].px
                    /\ doc'[active].chan =
                         (doc[active].chan \ Named(active, t)) \cup left \cup Saved(c)
                    /\ \A mask \in left : mask.stuck
    BY <1>1, <1>2, <1>3, ChannelSaved
  <1>11. ~Runs(e) => doc' = doc
    BY <1>1
  <1>12. DocsOK'
    <2>1. ASSUME ~Runs(e) PROVE DocsOK'
      BY <1>3, <1>11, <2>1 DEF ShapeOK, DocsOK
    <2>2. QED
      BY <1>8, <1>10, <2>1
  <1>13. call'[c] = n
    BY <1>3, <1>7, <1>8, <1>9, ContinuesServes DEF ShapeOK
  <1>14. Knows(c)'
    <2>1. CASE n = Idle \/ n.disturbed
      BY <1>13, <2>1, EmptyValues, NothingToKnow
    <2>2. CASE n # Idle /\ ~n.disturbed
      <3>1. Undisturbed(c) /\ call[c].tool = "read"
        BY <1>2, <1>7, <2>2 DEF Undisturbed, At
      <3>2. /\ \A r \in call[c].built : Named(active, r) # {}
            /\ \A mask \in doc[active].chan :
                 mask.px = doc[active].px \/ mask.stuck \/ call[c].covered
        BY <1>2, <1>3, <3>1 DEF Knows, WipeFits, At
      <3>3. \A mask \in Saved(c) : mask.name = t /\ mask.px = doc[active].px
        <4>1. doc[active].sel.px = doc[active].px
          BY <1>2, <1>3, <3>1 DEF Knows, SaveFits, Selected
        <4>2. QED
          BY <1>2, <1>3, <4>1, SavedIsTrue
      <3>4. Saved(c) # {}
        BY <1>2, <1>3, <3>1, SavedIsTrue DEF Knows, SaveFits
      <3>5. CASE ~Runs(e)
        <4>1. e # "ok"
          BY <3>5 DEF Runs
        <4>2. WipeFits(c)'
          BY <1>5, <1>7, <1>11, <1>13, <2>2, <3>2, <3>5, <4>1 DEF WipeFits, Named
        <4>3. QED
          BY <1>7, <1>13, <2>2, <4>2 DEF Knows, KeyFits, SaveFits, Early, At
      <3>6. CASE Runs(e)
        <4>1. ASSUME NEW r \in Regions, r # t, Named(active, r) # {}
              PROVE  \E mask \in doc'[active].chan : mask.name = r
          <5>1. PICK mask \in Named(active, r) : TRUE
            BY <4>1
          <5>2. mask \in doc[active].chan /\ mask.name = r /\ mask \notin Named(active, t)
            BY <4>1, <5>1 DEF Named
          <5>3. mask \in doc'[active].chan
            BY <1>10, <3>6, <5>2
          <5>4. QED
            BY <5>2, <5>3
        <4>2. \E mask \in doc'[active].chan : mask.name = t
          <5>1. PICK mask \in Saved(c) : TRUE
            BY <3>4
          <5>2. mask \in doc'[active].chan /\ mask.name = t
            BY <1>10, <3>3, <3>6, <5>1
          <5>3. QED
            BY <5>2
        <4>3. n.built \subseteq Regions /\ n.built \subseteq call[c].built \cup {t}
          BY <1>7, <2>2 DEF Slots
        <4>4. \A r \in n.built : Named(active, r)' # {}
          <5>1. \A r \in n.built : \E mask \in doc'[active].chan : mask.name = r
            BY <3>2, <4>1, <4>2, <4>3
          <5>2. QED
            BY <1>5, <5>1 DEF Named
        <4>5. \A mask \in doc'[active].chan :
                mask.px = doc'[active].px \/ mask.stuck \/ n.covered
          BY <1>7, <1>10, <2>2, <3>2, <3>3, <3>6
        <4>6. WipeFits(c)'
          BY <1>5, <1>13, <4>4, <4>5 DEF WipeFits
        <4>7. QED
          BY <1>7, <1>13, <2>2, <4>6 DEF Knows, KeyFits, SaveFits, Early, At
      <3>7. QED
        BY <1>8, <3>5, <3>6
    <2>3. QED
      BY <2>1, <2>2
  <1>15. QED
    BY <1>5, <1>7, <1>8, <1>9, <1>11, <1>12, <1>14, StepKeeps


(***************************************************************************)
(* The end of an eager read.                                               *)
(***************************************************************************)
LEMMA DeselectKeeps ==
    ASSUME CallInv, NEW c \in Calls, Deselect(c)
    PROVE  CallInv'
  <1>1. PICK e \in Endings :
          /\ doc' = IF Runs(e) THEN [doc EXCEPT ![active].sel = Nothing] ELSE doc
          /\ Continues(c, Idle, Runs(e))
    BY DEF Deselect
  <1>2. /\ UNCHANGED <<active, scene, recorded, recordedFit>>
        /\ menu' = [key |-> call[c].key, items |-> call[c].built]
    BY DEF Deselect
  <1>3. ShapeOK /\ call[c] \in Slots
    BY DEF CallInv, ShapeOK, CallsOK
  <1>4. Runs(e) \in BOOLEAN /\ (~Runs(e) => doc' = doc)
    BY <1>1 DEF Runs
  <1>5. DocsOK'
    <2>1. CASE Runs(e)
      <3>1. doc' = [doc EXCEPT ![active].sel = Nothing]
        BY <1>1, <2>1
      <3>2. None \in Words
        BY DEF Words
      <3>3. QED
        BY <1>3, <3>1, <3>2, RegionSelected DEF ShapeOK
    <2>2. CASE ~Runs(e)
      BY <1>3, <1>4, <2>2 DEF ShapeOK, DocsOK
    <2>3. QED
      BY <2>1, <2>2
  <1>6. MemoryOK'
    BY <1>2, <1>3 DEF ShapeOK, MemoryOK, Slots
  <1>7. Knows(c)'
    BY <1>1, <1>3, <1>4, EmptyValues, ContinuesServes, NothingToKnow DEF ShapeOK
  <1>8. QED
    BY <1>1, <1>2, <1>4, <1>5, <1>6, <1>7, EmptyValues, StepKeeps

(***************************************************************************)
(* Dropping the channels before a document is saved.                       *)
(***************************************************************************)
LEMMA DropKeeps ==
    ASSUME CallInv, NEW c \in Calls, Drop(c)
    PROVE  CallInv'
  <1>1. PICK e \in Endings :
          /\ DeletesChannels(e)
          /\ menu' = IF e = "ok" THEN NoMenu ELSE menu
          /\ Continues(c, Idle, Runs(e))
    BY DEF Drop
  <1>2. UNCHANGED <<active, scene, recorded, recordedFit>>
    BY DEF Drop
  <1>3. ShapeOK
    BY DEF CallInv
  <1>4. DocsOK' /\ Runs(e) \in BOOLEAN /\ (~Runs(e) => doc' = doc)
    BY <1>1, <1>3, DeletionTouches DEF ShapeOK
  <1>5. MemoryOK'
    BY <1>1, <1>2, <1>3, EmptyValues DEF ShapeOK, MemoryOK, NoMenu
  <1>6. Knows(c)'
    BY <1>1, <1>3, <1>4, EmptyValues, ContinuesServes, NothingToKnow DEF ShapeOK
  <1>7. QED
    BY <1>1, <1>2, <1>4, <1>5, <1>6, EmptyValues, StepKeeps

(***************************************************************************)
(* What the user does disturbs every call under way.                       *)
(***************************************************************************)
LEMMA ActsKeeps ==
    ASSUME CallInv, NEW d \in Docs, NEW new, Acts(d, new), active' \in Docs, DocsOK'
    PROVE  CallInv'
  <1>1. /\ call' = [c \in Calls |-> [call[c] EXCEPT !.disturbed = call[c].at # "idle"]]
        /\ UNCHANGED memory
    BY DEF Acts
  <1>2. ASSUME NEW c \in Calls
        PROVE  call'[c] \in Slots /\ Serves(call'[c]) /\ Knows(c)'
    <2>1. call[c] \in Slots /\ Serves(call[c])
      BY DEF CallInv, ShapeOK, CallsOK
    <2>2. call'[c] = [call[c] EXCEPT !.disturbed = call[c].at # "idle"]
      BY <1>1
    <2>3. call'[c].at = "idle" \/ call'[c].disturbed
      BY <2>1, <2>2 DEF Slots
    <2>4. QED
      BY <2>1, <2>2, <2>3, NothingToKnow DEF Slots, Serves
  <1>3. CallsOK'
    BY <1>1, <1>2 DEF CallsOK
  <1>4. MemoryOK'
    BY <1>1 DEF CallInv, ShapeOK, MemoryOK, memory
  <1>5. QED
    BY <1>2, <1>3, <1>4 DEF CallInv, ShapeOK

(***************************************************************************)
(* The user's acts.                                                        *)
(***************************************************************************)
LEMMA UserKeeps ==
    ASSUME CallInv, Edit \/ Select \/ DeleteChannels \/ Turn
    PROVE  CallInv'
  <1>1. /\ active \in Docs /\ DocsOK
        /\ \A d \in Docs : doc[d] \in Opened /\ DocOK(doc[d])
    BY DEF CallInv, ShapeOK, DocsOK
  <1>2. ASSUME NEW d \in Docs, NEW new \in Opened, DocOK(new), Acts(d, new), active' \in Docs
        PROVE  CallInv'
    <2>1. doc' = [doc EXCEPT ![d] = new]
      BY <1>2 DEF Acts
    <2>2. doc' \in [Docs -> Opened] /\ \A e \in Docs : DocOK(doc'[e])
      BY <1>1, <1>2, <2>1 DEF DocsOK
    <2>3. QED
      BY <1>2, <2>2, ActsKeeps DEF DocsOK
  <1>3. CASE Edit
    <2>1. PICK px \in Versions : Acts(active, [doc[active] EXCEPT !.px = px])
      BY <1>3 DEF Edit
    <2>2. [doc[active] EXCEPT !.px = px] \in Opened /\ DocOK([doc[active] EXCEPT !.px = px])
      BY <1>1 DEF Opened, DocOK
    <2>3. QED
      BY <1>1, <1>2, <1>3, <2>1, <2>2 DEF Edit
  <1>4. CASE Select
    <2>1. PICK sel \in {Nothing, Selected(Own, doc[active].px)} :
            Acts(active, [doc[active] EXCEPT !.sel = sel])
      BY <1>4 DEF Select
    <2>2. sel \in Selections /\ (sel # Nothing => sel.px \in Versions)
      <3>1. CASE sel = Nothing
        BY <3>1, EmptyValues
      <3>2. CASE sel = Selected(Own, doc[active].px)
        BY <1>1, <3>2 DEF Selected, Selections, Words, Opened
      <3>3. QED
        BY <2>1, <3>1, <3>2
    <2>3. [doc[active] EXCEPT !.sel = sel] \in Opened
      BY <1>1, <2>2 DEF Opened
    <2>4. DocOK([doc[active] EXCEPT !.sel = sel])
      BY <1>1, <2>2 DEF Opened, DocOK
    <2>5. QED
      BY <1>1, <1>2, <1>4, <2>1, <2>3, <2>4 DEF Select
  <1>5. CASE DeleteChannels
    <2>1. /\ [doc[active] EXCEPT !.chan = {}] \in Opened
          /\ DocOK([doc[active] EXCEPT !.chan = {}])
      BY <1>1 DEF Opened, DocOK
    <2>2. QED
      BY <1>1, <1>2, <1>5, <2>1 DEF DeleteChannels
  <1>6. CASE Turn
    BY <1>1, <1>2, <1>6 DEF Turn
  <1>7. QED
    BY <1>3, <1>4, <1>5, <1>6

(***************************************************************************)
(* The invariant holds in the beginning.                                   *)
(***************************************************************************)
LEMMA CallInvInit == Init => CallInv
  <1> SUFFICES ASSUME Init PROVE CallInv
    OBVIOUS
  <1>1. PICK first \in Versions, old \in [Regions -> UNION {Leftover(t) : t \in Regions}] :
          /\ \A t \in Regions : old[t] \in Leftover(t)
          /\ doc = [d \in Docs |->
                      [px |-> first, sel |-> Nothing,
                       chan |-> IF d = active THEN UNION {old[t] : t \in Regions} ELSE {}]]
    BY DEF Init
  <1>2. ASSUME NEW t \in Regions, NEW mask \in old[t]
        PROVE  mask \in Channels /\ mask.of = mask.name
    <2>1. PICK px \in Versions : mask = Mask(t, Selected(t, px), TRUE, FALSE)
      BY <1>1, <1>2 DEF Leftover
    <2>2. QED
      BY <2>1 DEF Mask, Selected, Channels, Words
  <1>5. ASSUME NEW d \in Docs
        PROVE  doc[d] \in Opened /\ DocOK(doc[d])
    <2>1. doc[d] = [px |-> first, sel |-> Nothing,
                    chan |-> IF d = active THEN UNION {old[t] : t \in Regions} ELSE {}]
      BY <1>1
    <2>2. \A mask \in doc[d].chan : mask \in Channels /\ mask.of = mask.name
      BY <1>2, <2>1
    <2>3. QED
      BY <2>1, <2>2, EmptyValues DEF Opened, DocOK
  <1>6. DocsOK
    BY <1>1, <1>5 DEF DocsOK
  <1>7. MemoryOK
    BY EmptyValues DEF Init, MemoryOK, NoScene, NoMenu
  <1>8. \A c \in Calls : call[c] = Idle
    BY DEF Init
  <1>9. CallsOK
    BY <1>8, EmptyValues DEF Init, CallsOK
  <1>10. \A c \in Calls : Knows(c)
    BY <1>8, EmptyValues DEF Knows, KeyFits, SaveFits, WipeFits, Undisturbed, At, Early
  <1>11. QED
    BY <1>6, <1>7, <1>9, <1>10 DEF Init, CallInv, ShapeOK

(***************************************************************************)
(* Every step keeps it.                                                    *)
(***************************************************************************)
LEMMA CallInvNext == CallInv /\ [Next]_vars => CallInv'
  <1> SUFFICES ASSUME CallInv, [Next]_vars PROVE CallInv'
    OBVIOUS
  <1>1. ASSUME NEW c \in Calls,
               \/ Load(c) \/ Export(c) \/ Histogram(c)
               \/ Purge(c) \/ Exists(c) \/ Wipe(c) \/ Derive(c) \/ Save(c) \/ Deselect(c) \/ Drop(c)
        PROVE  CallInv'
    BY <1>1, LoadKeeps, ExportKeeps, HistogramKeeps, PurgeKeeps, ExistsKeeps, WipeKeeps,
       DeriveKeeps, SaveKeeps, DeselectKeeps, DropKeeps
  <1>2. CASE Edit \/ Select \/ DeleteChannels \/ Turn
    BY <1>2, UserKeeps
  <1>3. CASE UNCHANGED vars
    BY <1>3 DEF vars, memory, bounds, CallInv, ShapeOK, DocsOK, CallsOK, MemoryOK,
       Knows, KeyFits, SaveFits, WipeFits, Undisturbed, At, InHand, Fresh, KeyOf, PixelsOf, Named
  <1>4. QED
    BY <1>1, <1>2, <1>3 DEF Next

-----------------------------------------------------------------------------
(* The record of the channels *)

(***************************************************************************)
(* No two documents have one name and size.                                *)
(***************************************************************************)
NamesDiffer == \A d, e \in Docs : Name[d] = Name[e] => d = e

(***************************************************************************)
(* The channels of the document whose name is on record are of the pixels  *)
(* recorded, unless they were saved against the record or could not be     *)
(* removed; if, when the state was recorded, that document was purged.     *)
(***************************************************************************)
OnRecord(mask) == mask.px = recorded.px \/ mask.stuck \/ mask.offRecord

RecordOK ==
    recordedFit =>
      \A d \in Docs : Name[d] = recorded.name => \A mask \in doc[d].chan : OnRecord(mask)

(***************************************************************************)
(* Channels that are left as they were, or stuck, leave the record true.   *)
(***************************************************************************)
LEMMA FewerChannels ==
    ASSUME RecordOK, UNCHANGED <<recorded, recordedFit>>,
           \A d \in Docs : \A mask \in doc'[d].chan : mask \in doc[d].chan \/ mask.stuck
    PROVE  RecordOK'
  BY DEF RecordOK, OnRecord

(***************************************************************************)
(* A state that is recorded when the channels of the active document have  *)
(* been deleted has only stuck channels on record.                         *)
(***************************************************************************)
LEMMA RecordedAfresh ==
    ASSUME NamesDiffer, DocsOK, active \in Docs, NEW e, Runs(e), DeletesChannels(e), NEW key,
           recorded' = key, recordedFit' = NamesActive(key)
    PROVE  RecordOK'
  <1>1. SUFFICES ASSUME NamesActive(key), NEW d \in Docs, Name[d] = key.name,
                        NEW mask \in doc'[d].chan
                 PROVE  mask.stuck
    BY DEF RecordOK, OnRecord
  <1>2. Name[d] \in Names /\ Name[d] \notin {None, Unnamed}
    BY SceneAssumption
  <1>3. d = active
    BY <1>1, <1>2 DEF NamesActive, NamesDiffer
  <1>4. QED
    BY <1>1, <1>3, DeletionTouches

(***************************************************************************)
(* Every step keeps the record true.                                       *)
(***************************************************************************)
LEMMA RecordNext ==
    ASSUME NamesDiffer, CallInv, RecordOK, [Next]_vars
    PROVE  RecordOK'
  <1>1. /\ active \in Docs /\ DocsOK
        /\ \A d \in Docs : doc[d] \in Opened /\ DocOK(doc[d])
    BY DEF CallInv, ShapeOK, DocsOK
  <1>2. ASSUME NEW sel, NEW px, doc' = [doc EXCEPT ![active].px = px, ![active].sel = sel],
               UNCHANGED <<recorded, recordedFit>>
        PROVE  RecordOK'
    <2>1. doc'[active].chan = doc[active].chan /\ \A d \in Docs \ {active} : doc'[d] = doc[d]
      BY <1>1, <1>2 DEF DocsOK, Opened
    <2>2. QED
      BY <1>2, <2>1, FewerChannels
  <1>3. ASSUME NEW sel, doc' = [doc EXCEPT ![active].sel = sel],
               UNCHANGED <<recorded, recordedFit>>
        PROVE  RecordOK'
    <2>1. doc'[active].chan = doc[active].chan /\ \A d \in Docs \ {active} : doc'[d] = doc[d]
      BY <1>1, <1>3 DEF DocsOK, Opened
    <2>2. QED
      BY <1>3, <2>1, FewerChannels
  <1>4. ASSUME UNCHANGED <<doc, recorded, recordedFit>>
        PROVE  RecordOK'
    BY <1>4 DEF RecordOK, OnRecord
  <1>5. ASSUME NEW c \in Calls, Load(c) PROVE RecordOK'
    <2>1. UNCHANGED <<recorded, recordedFit>>
      BY <1>5 DEF Load, memory
    <2>2. doc' = doc \/ \E sel : doc' = [doc EXCEPT ![active].sel = sel]
      BY <1>5 DEF Load
    <2>3. QED
      BY <1>3, <1>4, <2>1, <2>2
  <1>6. ASSUME NEW c \in Calls, Export(c) \/ Histogram(c) \/ Exists(c) PROVE RecordOK'
    BY <1>4, <1>6 DEF Export, Histogram, Exists, memory
  <1>7. ASSUME NEW c \in Calls, Purge(c) PROVE RecordOK'
    <2>1. PICK e \in Endings :
            /\ DeletesChannels(e)
            /\ recorded' = IF e = "ok" THEN call[c].key ELSE NoKey
            /\ recordedFit' = NamesActive(call[c].key)
      BY <1>7 DEF Purge
    <2>2. CASE e = "ok"
      BY <1>1, <2>1, <2>2, RecordedAfresh DEF Runs
    <2>3. CASE e # "ok"
      <3>1. recorded'.name = None
        BY <2>1, <2>3 DEF NoKey
      <3>2. \A d \in Docs : Name[d] # None
        BY SceneAssumption
      <3>3. QED
        BY <3>1, <3>2 DEF RecordOK
    <2>4. QED
      BY <2>2, <2>3
  <1>8. ASSUME NEW c \in Calls, Wipe(c) PROVE RecordOK'
    <2>1. PICK e \in Endings :
            /\ DeletesChannels(e)
            /\ recorded' = IF e = "ok" THEN call[c].key ELSE recorded
            /\ recordedFit' = IF e = "ok" THEN NamesActive(call[c].key) ELSE recordedFit
      BY <1>8 DEF Wipe
    <2>2. CASE e = "ok"
      BY <1>1, <2>1, <2>2, RecordedAfresh DEF Runs
    <2>3. CASE e # "ok"
      BY <1>1, <2>1, <2>3, DeletionTouches, FewerChannels
    <2>4. QED
      BY <2>2, <2>3
  <1>9. ASSUME NEW c \in Calls, Derive(c) PROVE RecordOK'
    BY <1>2, <1>9 DEF Derive, memory
  <1>10. ASSUME NEW c \in Calls, Save(c) PROVE RecordOK'
    <2>1. PICK e \in Endings, left \in Remains(Named(active, InHand(c))) :
            doc' = IF Runs(e)
                   THEN [doc EXCEPT ![active].chan =
                           (doc[active].chan \ Named(active, InHand(c))) \cup left \cup Saved(c)]
                   ELSE doc
      BY <1>10 DEF Save
    <2>2. UNCHANGED <<recorded, recordedFit>> /\ At(c, "save")
      BY <1>10 DEF Save, memory
    <2>3. CASE ~Runs(e)
      BY <1>4, <2>1, <2>2, <2>3
    <2>4. CASE Runs(e)
      <3>1. ShapeOK /\ Knows(c)
        BY DEF CallInv
      <3>2. doc' = [doc EXCEPT ![active].chan =
                      (doc[active].chan \ Named(active, InHand(c))) \cup left \cup Saved(c)]
        BY <2>1, <2>4
      <3>3. /\ \A d \in Docs \ {active} : doc'[d] = doc[d]
            /\ doc'[active].chan =
                 (doc[active].chan \ Named(active, InHand(c))) \cup left \cup Saved(c)
            /\ \A mask \in left : mask.stuck
        BY <2>2, <3>1, <3>2, ChannelSaved
      <3>4. \A mask \in Saved(c) : recorded.name = Name[active] => OnRecord(mask)
        BY <2>2, <3>1, SavedIsTrue DEF OnRecord
      <3>5. ASSUME recordedFit, NEW d \in Docs, Name[d] = recorded.name,
                   NEW mask \in doc'[d].chan
            PROVE  OnRecord(mask)
        <4>1. CASE mask \in doc[d].chan
          BY <3>5, <4>1 DEF RecordOK
        <4>2. CASE mask \notin doc[d].chan
          <5>1. d = active /\ (mask \in left \/ mask \in Saved(c))
            BY <3>3, <3>5, <4>2
          <5>2. QED
            BY <3>3, <3>4, <3>5, <5>1 DEF OnRecord
        <4>3. QED
          BY <4>1, <4>2
      <3>6. QED
        BY <2>2, <3>5 DEF RecordOK, OnRecord
    <2>5. QED
      BY <2>3, <2>4
  <1>11. ASSUME NEW c \in Calls, Deselect(c) PROVE RecordOK'
    BY <1>3, <1>4, <1>11 DEF Deselect
  <1>12. ASSUME NEW c \in Calls, Drop(c) PROVE RecordOK'
    <2>1. PICK e \in Endings : DeletesChannels(e)
      BY <1>12 DEF Drop
    <2>2. UNCHANGED <<recorded, recordedFit>>
      BY <1>12 DEF Drop
    <2>3. QED
      BY <1>1, <2>1, <2>2, DeletionTouches, FewerChannels
  <1>13. CASE Edit \/ Select \/ DeleteChannels \/ Turn
    <2>1. ASSUME NEW d \in Docs, NEW new, Acts(d, new), new.chan \in {doc[d].chan, {}}
          PROVE  RecordOK'
      <3>1. /\ doc' = [doc EXCEPT ![d] = new]
            /\ UNCHANGED <<recorded, recordedFit>>
        BY <2>1 DEF Acts, memory
      <3>2. doc'[d].chan \in {doc[d].chan, {}} /\ \A e \in Docs \ {d} : doc'[e] = doc[e]
        BY <1>1, <2>1, <3>1 DEF DocsOK
      <3>3. QED
        BY <3>1, <3>2, FewerChannels
    <2>2. \A px : [doc[active] EXCEPT !.px = px].chan = doc[active].chan
      BY <1>1 DEF Opened
    <2>3. \A sel : [doc[active] EXCEPT !.sel = sel].chan = doc[active].chan
      BY <1>1 DEF Opened
    <2>4. [doc[active] EXCEPT !.chan = {}].chan = {}
      BY <1>1 DEF Opened
    <2>5. QED
      BY <1>1, <1>13, <2>1, <2>2, <2>3, <2>4 DEF Edit, Select, DeleteChannels, Turn
  <1>14. CASE UNCHANGED vars
    BY <1>4, <1>14 DEF vars, memory
  <1>15. QED
    BY <1>5, <1>6, <1>7, <1>8, <1>9, <1>10, <1>11, <1>12, <1>13, <1>14 DEF Next

-----------------------------------------------------------------------------
(* The theorems *)

(***************************************************************************)
(* Calls are well formed, and what an undisturbed one knows is true.       *)
(***************************************************************************)
THEOREM CallsKnow == Spec => []CallInv
  BY CallInvInit, CallInvNext, PTL DEF Spec

(***************************************************************************)
(* The shape says what the model checker is asked of it.                   *)
(***************************************************************************)
LEMMA ShapeIsType == ShapeOK => TypeOK
  <1> SUFFICES ASSUME ShapeOK PROVE TypeOK
    OBVIOUS
  <1>1. /\ active \in Docs
        /\ \A d \in Docs :
             /\ doc[d].px \in Versions
             /\ \A mask \in doc[d].chan : mask.name \in Regions /\ mask.px \in Versions
    BY DEF ShapeOK, DocsOK, Opened, Channels
  <1>2. recorded \in Keys /\ menu.key \in Keys /\ menu.items \subseteq Regions
    BY DEF ShapeOK, MemoryOK
  <1>3. ASSUME NEW c \in Calls
        PROVE  /\ call[c].key \in Keys
               /\ At(c, "exists") => call[c].names # {}
               /\ At(c, "save") => ~call[c].narrow /\ InHand(c) \in Regions
    <2>1. call[c] \in Slots /\ Serves(call[c])
      BY DEF ShapeOK, CallsOK
    <2>2. At(c, "save") => InHand(c) \in Regions
      BY <2>1, InHandIsARegion DEF At
    <2>3. QED
      BY <2>1, <2>2 DEF Slots, Serves, At
  <1>4. QED
    BY <1>1, <1>2, <1>3 DEF TypeOK

(***************************************************************************)
(* The scene model kept is true: it is built by Histogram, whose call has  *)
(* the key of the document's very state if nobody has disturbed it.        *)
(***************************************************************************)
LEMMA CacheNext ==
    ASSUME CallInv, CacheIsTrue, [Next]_vars
    PROVE  CacheIsTrue'
  <1>1. ASSUME NEW c \in Calls, Histogram(c)
        PROVE  CacheIsTrue'
    <2>1. \/ scene' = scene
          \/ /\ call[c].key # NoKey
             /\ scene' = [key |-> call[c].key, zones |-> ZonesOf(active),
                          calm |-> ~call[c].disturbed]
      BY <1>1 DEF Histogram
    <2>2. ~call[c].disturbed /\ call[c].key # NoKey /\ call[c].key.name # Unnamed
            => call[c].key = ZonesOf(active)
      <3>1. ~call[c].disturbed => Fresh(call[c].key)
        BY <1>1 DEF CallInv, Knows, KeyFits, Undisturbed, Histogram, At, Early
      <3>2. QED
        BY <3>1 DEF Fresh, KeyOf, PixelsOf, ZonesOf
    <2>3. CASE scene' = scene
      BY <2>3 DEF CacheIsTrue
    <2>4. CASE /\ call[c].key # NoKey
               /\ scene' = [key |-> call[c].key, zones |-> ZonesOf(active),
                            calm |-> ~call[c].disturbed]
      <3>1. /\ scene'.calm = ~call[c].disturbed
            /\ scene'.key = call[c].key /\ scene'.zones = ZonesOf(active)
        BY <2>4
      <3>2. QED
        BY <2>2, <2>4, <3>1 DEF CacheIsTrue
    <2>5. QED
      BY <2>1, <2>3, <2>4
  <1>2. ASSUME UNCHANGED scene PROVE CacheIsTrue'
    BY <1>2 DEF CacheIsTrue
  <1>3. ASSUME NEW c \in Calls,
               \/ Load(c) \/ Export(c) \/ Purge(c) \/ Exists(c) \/ Wipe(c)
               \/ Derive(c) \/ Save(c) \/ Deselect(c) \/ Drop(c)
        PROVE  UNCHANGED scene
    BY <1>3 DEF Load, Export, Purge, Exists, Wipe, Derive, Save, Deselect, Drop, memory
  <1>4. CASE (Edit \/ Select \/ DeleteChannels \/ Turn) \/ UNCHANGED vars
    <2>1. UNCHANGED scene
      BY <1>4 DEF Edit, Select, DeleteChannels, Turn, Acts, vars, memory
    <2>2. QED
      BY <1>2, <2>1
  <1>5. QED
    BY <1>1, <1>2, <1>3, <1>4 DEF Next

(***************************************************************************)
(* The module is well formed and its cache true: scene-model.ts may keep a *)
(* scene model under the key of an export that was made before it.         *)
(***************************************************************************)
THEOREM TheCacheIsTrue == Spec => []SceneInv
  <1>1. Init => CacheIsTrue
    BY DEF Init, CacheIsTrue, NoScene
  <1>2. CallInv /\ CacheIsTrue /\ [Next]_vars => CacheIsTrue'
    BY CacheNext
  <1>3. CallInv /\ CacheIsTrue => SceneInv
    BY ShapeIsType DEF CallInv, SceneInv
  <1>4. QED
    BY <1>1, <1>2, <1>3, CallsKnow, PTL DEF Spec

(***************************************************************************)
(* What a read answers, if it answers anything of itself.                  *)
(***************************************************************************)
LEMMA AnswersOfReads ==
    /\ NoAnswer.tool \notin {"read", "select"}
    /\ \A m : \/ AnswerOfModel(m) = NoAnswer
              \/ /\ AfterModel(m) = Idle /\ ~m.disturbed
                 /\ AnswerOfModel(m) = [tool |-> "read", items |-> {}, unsure |-> OnTrust(m)]
  BY DEF NoAnswer, None, ReadAnswer, AnswerOfModel

(***************************************************************************)
(* A select is answered by Load alone, with the channel of its target.     *)
(***************************************************************************)
LEMMA SelectsAnswered ==
    ASSUME CallInv, AnswersFitTheQuestion, [Next]_vars
    PROVE  AnswersFitTheQuestion'
  <1>1. ASSUME answer'.tool # "select" PROVE AnswersFitTheQuestion'
    BY <1>1 DEF AnswersFitTheQuestion
  <1>2. ASSUME NEW c \in Calls, Load(c) PROVE AnswersFitTheQuestion'
    <2>1. PICK m \in Ready(c, "load") :
            \/ answer' = NoAnswer
            \/ \E mask \in Named(active, m.target) :
                 answer' = [tool |-> "select", asked |-> m.target, got |-> mask.of,
                            fit |-> mask.fit]
      BY <1>2 DEF Load
    <2>2. \A mask \in Named(active, m.target) : mask.fit => mask.of = m.target
      BY DEF Named, CallInv, ShapeOK, DocsOK, DocOK
    <2>3. QED
      BY <1>1, <2>1, <2>2, AnswersOfReads DEF AnswersFitTheQuestion
  <1>3. ASSUME NEW c \in Calls, Export(c) \/ Histogram(c) PROVE AnswersFitTheQuestion'
    <2>1. answer' = NoAnswer \/ \E m : answer' = AnswerOfModel(m)
      BY <1>3 DEF Export, Histogram
    <2>2. QED
      BY <1>1, <2>1, AnswersOfReads
  <1>4. ASSUME NEW c \in Calls, Purge(c) \/ Exists(c) \/ Wipe(c) \/ Deselect(c)
        PROVE  AnswersFitTheQuestion'
    <2>1. answer' = NoAnswer \/ \E items, unsure :
            answer' = [tool |-> "read", items |-> items, unsure |-> unsure]
      BY <1>4 DEF Purge, Exists, Wipe, Deselect, ReadAnswer
    <2>2. QED
      BY <1>1, <2>1, AnswersOfReads
  <1>5. ASSUME NEW c \in Calls, Derive(c) \/ Save(c) \/ Drop(c) PROVE AnswersFitTheQuestion'
    BY <1>1, <1>5, AnswersOfReads DEF Derive, Save, Drop
  <1>6. CASE Edit \/ Select \/ DeleteChannels \/ Turn
    BY <1>1, <1>6, AnswersOfReads DEF Edit, Select, DeleteChannels, Turn, Acts
  <1>7. CASE UNCHANGED vars
    BY <1>7 DEF vars, AnswersFitTheQuestion
  <1>8. QED
    BY <1>2, <1>3, <1>4, <1>5, <1>6, <1>7 DEF Next

(***************************************************************************)
(* A select that is answered from a channel gets the region it asked for,  *)
(* if nobody has disturbed the call that saved it: ps_select_by_reference  *)
(* may load by name and ask no key.                                        *)
(***************************************************************************)
THEOREM RegionsAreWhatTheyAreNamed == Spec => []AnswersFitTheQuestion
  <1>1. Init => AnswersFitTheQuestion
    BY AnswersOfReads DEF Init, AnswersFitTheQuestion
  <1>2. CallInv /\ AnswersFitTheQuestion /\ [Next]_vars => AnswersFitTheQuestion'
    BY SelectsAnswered
  <1>3. QED
    BY <1>1, <1>2, CallsKnow, PTL DEF Spec

(***************************************************************************)
(* A read that finds the state it read on record, under a name, finds no   *)
(* channel of other pixels but those excepted.                             *)
(***************************************************************************)
LEMMA RecordedIsRead ==
    ASSUME CallInv, RecordOK, NEW key, Fresh(key), Same(recorded, key), key.name # Unnamed
    PROVE  \A mask \in doc[active].chan :
             mask.px = doc[active].px \/ mask.stuck \/ mask.offRecord \/ ~recordedFit
  <1>1. recorded = KeyOf(active)
    BY DEF Same, Fresh, PixelsOf
  <1>2. active \in Docs /\ recorded.name = Name[active] /\ recorded.px = doc[active].px
    BY <1>1 DEF CallInv, ShapeOK, KeyOf
  <1>3. QED
    BY <1>2 DEF RecordOK, OnRecord

(***************************************************************************)
(* What a read of its own answers when the step leaves the documents and   *)
(* the record as they are.                                                 *)
(***************************************************************************)
LEMMA ReadAfterModel ==
    ASSUME CallInv, RecordOK, UNCHANGED <<doc, active, recorded, recordedFit>>,
           NEW m \in Slots, m.tool \in {"read", "select"},
           m.tool = "select" => m.target \in Regions,
           m.tool = "read" => ~m.narrow,
           m.built = {},
           ~m.disturbed => Fresh(m.key),
           answer' \in {NoAnswer, AnswerOfModel(m)}
    PROVE  ReadsLeaveNothingStale'
  <1>1. CASE answer' = NoAnswer
    BY <1>1, AnswersOfReads DEF ReadsLeaveNothingStale
  <1>2. CASE answer' # NoAnswer
    <2>1. /\ AfterModel(m) = Idle /\ ~m.disturbed
          /\ answer' = [tool |-> "read", items |-> {}, unsure |-> OnTrust(m)]
      BY <1>2, AnswersOfReads
    <2>2. ~m.eager => Same(recorded, m.key)
      BY <2>1, AfterModelServes DEF CallInv, ShapeOK
    <2>3. CASE OnTrust(m)
      BY <2>1, <2>3 DEF ReadsLeaveNothingStale
    <2>4. CASE ~OnTrust(m)
      <3>1. Same(recorded, m.key) /\ m.key.name # Unnamed
        BY <2>2, <2>4 DEF OnTrust, Slots
      <3>2. \A mask \in doc[active].chan :
              mask.px = doc[active].px \/ mask.stuck \/ mask.offRecord \/ ~recordedFit
        BY <2>1, <3>1, RecordedIsRead
      <3>3. QED
        BY <2>1, <3>2 DEF ReadsLeaveNothingStale
    <2>5. QED
      BY <2>3, <2>4
  <1>3. QED
    BY <1>1, <1>2

(***************************************************************************)
(* No step ends a read with a stale channel.                               *)
(***************************************************************************)
LEMMA ReadsAnswered ==
    ASSUME CallInv, RecordOK, ReadsLeaveNothingStale, [Next]_vars
    PROVE  ReadsLeaveNothingStale'
  <1>1. ASSUME answer'.tool # "read" PROVE ReadsLeaveNothingStale'
    BY <1>1 DEF ReadsLeaveNothingStale
  <1>2. /\ ShapeOK /\ active \in Docs /\ DocsOK
        /\ \A c \in Calls : call[c] \in Slots /\ Serves(call[c]) /\ Knows(c)
    BY DEF CallInv, ShapeOK, CallsOK
  <1>3. ASSUME NEW c \in Calls, Load(c) PROVE ReadsLeaveNothingStale'
    <2>1. answer' = NoAnswer \/ \E x, y, z :
            answer' = [tool |-> "select", asked |-> x, got |-> y, fit |-> z]
      BY <1>3 DEF Load
    <2>2. QED
      BY <1>1, <2>1, AnswersOfReads
  <1>4. ASSUME NEW c \in Calls, Export(c) PROVE ReadsLeaveNothingStale'
    <2>1. PICK m \in Ready(c, "export"), key \in {KeyOf(active), PixelsOf(active), NoKey} :
            /\ answer' \in {NoAnswer, AnswerOfModel([m EXCEPT !.key = key])}
            /\ UNCHANGED <<doc, active, memory>>
      BY <1>4 DEF Export
    <2> DEFINE keyed == [m EXCEPT !.key = key]
    <2>2. /\ m \in Slots /\ m.built = {}
          /\ m.tool \in {"read", "select"}
          /\ m.tool = "select" => m.target \in Regions
          /\ m.tool = "read" => ~m.narrow
      BY <1>2, ReadyToExport DEF ShapeOK
    <2>3. key \in Keys /\ Fresh(key)
      BY <1>2, ExportedKeys
    <2>4. /\ keyed \in Slots /\ keyed.built = {}
          /\ keyed.tool \in {"read", "select"}
          /\ keyed.tool = "select" => keyed.target \in Regions
          /\ keyed.tool = "read" => ~keyed.narrow
          /\ Fresh(keyed.key)
      BY <2>2, <2>3 DEF Slots
    <2>5. answer' \in {NoAnswer, AnswerOfModel(keyed)}
      BY <2>1
    <2> HIDE DEF keyed
    <2>6. QED
      BY <2>1, <2>4, <2>5, ReadAfterModel DEF memory
  <1>5. ASSUME NEW c \in Calls, Histogram(c) PROVE ReadsLeaveNothingStale'
    <2>1. /\ answer' \in {NoAnswer, AnswerOfModel(call[c])}
          /\ UNCHANGED <<doc, active, recorded, recordedFit>> /\ At(c, "histogram")
      BY <1>5 DEF Histogram
    <2>2. /\ ~call[c].disturbed => Fresh(call[c].key)
          /\ call[c].tool \in {"read", "select"} /\ call[c].built = {}
      BY <1>2, <2>1 DEF Knows, KeyFits, Undisturbed, At, Serves, Early
    <2>3. QED
      BY <1>2, <2>1, <2>2, ReadAfterModel DEF Serves
  <1>6. ASSUME NEW c \in Calls, Purge(c) PROVE ReadsLeaveNothingStale'
    <2>1. PICK e \in Endings :
            /\ DeletesChannels(e)
            /\ answer' = ReadAnswer(call[c], e = "ok", {}, FALSE)
            /\ active' = active
      BY <1>6 DEF Purge
    <2>2. CASE answer' = NoAnswer
      BY <1>1, <2>2, AnswersOfReads
    <2>3. CASE answer' # NoAnswer
      <3>1. e = "ok" /\ answer' = [tool |-> "read", items |-> {}, unsure |-> FALSE]
        BY <2>1, <2>3 DEF ReadAnswer
      <3>2. \A mask \in doc'[active].chan : mask.stuck
        BY <1>2, <2>1, <3>1, DeletionTouches DEF Runs
      <3>3. answer'.items = {}
        BY <3>1
      <3>4. QED
        BY <2>1, <3>2, <3>3 DEF ReadsLeaveNothingStale
    <2>4. QED
      BY <2>2, <2>3
  <1>7. ASSUME NEW c \in Calls, Exists(c) PROVE ReadsLeaveNothingStale'
    <2>1. /\ \/ answer' = NoAnswer
             \/ /\ \A t \in call[c].names : Named(active, t) # {}
                /\ answer' = ReadAnswer(call[c], menu.items = call[c].names, menu.items,
                                        OnTrust(call[c]))
          /\ UNCHANGED <<doc, active, recorded, recordedFit>> /\ At(c, "exists")
      BY <1>7 DEF Exists, memory
    <2>2. CASE answer' = NoAnswer
      BY <1>1, <2>2, AnswersOfReads
    <2>3. CASE answer' # NoAnswer
      <3>1. /\ menu.items = call[c].names /\ ~call[c].disturbed
            /\ \A t \in call[c].names : Named(active, t) # {}
            /\ answer' = [tool |-> "read", items |-> menu.items, unsure |-> OnTrust(call[c])]
        BY <2>1, <2>3 DEF ReadAnswer
      <3>2. Fresh(call[c].key) /\ call[c].eager
        BY <1>2, <2>1, <3>1 DEF Knows, KeyFits, Undisturbed, At, Serves, Early
      <3>3. ~OnTrust(call[c]) =>
              \A mask \in doc[active].chan :
                mask.px = doc[active].px \/ mask.stuck \/ mask.offRecord \/ ~recordedFit
        BY <3>2, RecordedIsRead DEF OnTrust
      <3>4. \A t : Named(active, t)' = Named(active, t)
        BY <2>1 DEF Named
      <3>5. answer'.items = menu.items /\ answer'.unsure = OnTrust(call[c])
        BY <3>1
      <3>6. QED
        BY <2>1, <3>1, <3>3, <3>4, <3>5 DEF ReadsLeaveNothingStale
    <2>4. QED
      BY <2>2, <2>3
  <1>8. ASSUME NEW c \in Calls, Wipe(c) PROVE ReadsLeaveNothingStale'
    <2>1. answer' = NoAnswer
      BY <1>8 DEF Wipe, ReadAnswer
    <2>2. QED
      BY <1>1, <2>1, AnswersOfReads
  <1>9. ASSUME NEW c \in Calls, Deselect(c) PROVE ReadsLeaveNothingStale'
    <2>1. PICK e \in Endings :
            /\ doc' = IF Runs(e) THEN [doc EXCEPT ![active].sel = Nothing] ELSE doc
            /\ answer' = ReadAnswer(call[c], TRUE, call[c].built, call[c].covered)
            /\ UNCHANGED <<active, recorded, recordedFit>>
      BY <1>9 DEF Deselect
    <2>2. CASE answer' = NoAnswer
      BY <1>1, <2>2, AnswersOfReads
    <2>3. CASE answer' # NoAnswer
      <3>1. /\ ~call[c].disturbed
            /\ answer' = [tool |-> "read", items |-> call[c].built, unsure |-> call[c].covered]
        BY <2>1, <2>3 DEF ReadAnswer
      <3>2. doc'[active].chan = doc[active].chan /\ doc'[active].px = doc[active].px
        BY <1>2, <2>1 DEF DocsOK, Opened
      <3>3. At(c, "deselect") /\ call[c].tool = "read"
        BY <1>2, <1>9 DEF Deselect, Serves, At
      <3>4. /\ \A t \in call[c].built : Named(active, t) # {}
            /\ \A mask \in doc[active].chan :
                 mask.px = doc[active].px \/ mask.stuck \/ call[c].covered
        BY <1>2, <3>1, <3>3 DEF Knows, WipeFits, Undisturbed, At
      <3>5. \A t : Named(active, t)' = Named(active, t)
        BY <2>1, <3>2 DEF Named
      <3>6. answer'.items = call[c].built /\ answer'.unsure = call[c].covered
        BY <3>1
      <3>7. QED
        BY <2>1, <3>2, <3>4, <3>5, <3>6 DEF ReadsLeaveNothingStale
    <2>4. QED
      BY <2>2, <2>3
  <1>10. ASSUME NEW c \in Calls, Derive(c) \/ Save(c) \/ Drop(c) PROVE ReadsLeaveNothingStale'
    BY <1>1, <1>10, AnswersOfReads DEF Derive, Save, Drop
  <1>11. CASE Edit \/ Select \/ DeleteChannels \/ Turn
    BY <1>1, <1>11, AnswersOfReads DEF Edit, Select, DeleteChannels, Turn, Acts
  <1>12. CASE UNCHANGED vars
    BY <1>12 DEF vars, memory, ReadsLeaveNothingStale, Named
  <1>13. QED
    BY <1>3, <1>4, <1>5, <1>6, <1>7, <1>8, <1>9, <1>10, <1>11, <1>12 DEF Next

(***************************************************************************)
(* A read that nobody disturbed leaves no region in the active document    *)
(* that is older than its pixels, with the exceptions the property names,  *)
(* and none missing from the menu, as long as no two documents have one    *)
(* name and size: whatever channels of an earlier session it came with,    *)
(* for any number of targets, calls, acts of the user and scripts that     *)
(* fail, and of channels whose removal fails.                              *)
(***************************************************************************)
THEOREM NothingStaleIsLeft ==
    ASSUME NamesDiffer
    PROVE  Spec => []ReadsLeaveNothingStale
  <1>1. Init => RecordOK /\ ReadsLeaveNothingStale
    <2>1. Init => recorded.name = None /\ answer = NoAnswer
      BY DEF Init, NoKey
    <2>2. \A d \in Docs : Name[d] # None
      BY SceneAssumption
    <2>3. QED
      BY <2>1, <2>2, AnswersOfReads DEF RecordOK, ReadsLeaveNothingStale
  <1>2. CallInv /\ RecordOK /\ [Next]_vars => RecordOK'
    BY RecordNext
  <1>3. CallInv /\ RecordOK /\ ReadsLeaveNothingStale /\ [Next]_vars => ReadsLeaveNothingStale'
    BY ReadsAnswered
  <1>4. QED
    BY <1>1, <1>2, <1>3, CallsKnow, PTL DEF Spec
=============================================================================
