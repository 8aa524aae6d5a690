---------------------------- MODULE SceneRegions ----------------------------
(***************************************************************************)
(* What the perception tools remember of the documents in Photoshop:       *)
(* the cached scene model (perception/scene-model.ts), the regions saved   *)
(* as scene:<target> channels inside the documents and the server's idea   *)
(* of which document state they belong to (region-precompute.ts).          *)
(* ps_read_scene, ps_select_by_reference and ps_save_psd use them.         *)
(*                                                                         *)
(* A call is a series of scripts.  Photoshop runs one script at a time,    *)
(* always on the document that is active then; between two scripts of a    *)
(* call other calls run theirs, and the user of Photoshop edits, selects   *)
(* and changes documents.  A script may fail without having run, or be     *)
(* given up on although it runs.                                           *)
(*                                                                         *)
(* The pixels of a document are a version; that two versions have the same *)
(* hash is left out.  What is selected, or kept in a channel, is the       *)
(* region it was derived for and the pixels it was derived from.           *)
(***************************************************************************)
EXTENDS Naturals, Sequences

CONSTANTS Docs,         \* the documents open in Photoshop
          Names,        \* names and sizes of documents
          Name,         \* Name[d]: those of document d
          Versions,     \* the states the pixels of a document may be in
          Targets,      \* the targets of an eager read, in their order
          Requests,     \* the calls that are made, of the set Every below
          Calls,        \* slots for calls that run at the same time
          MaxCalls,     \* bound on the number of calls
          MaxActs,      \* bound on what the user does
          MaxFailures   \* bound on scripts that fail

None    == "none"
Unnamed == "null"
Regions == {Targets[i] : i \in DOMAIN Targets}

ASSUME SceneAssumption ==
    /\ Name \in [Docs -> Names]
    /\ None \notin Versions /\ Names \cap {None, Unnamed} = {}
    /\ Targets \in Seq(STRING) /\ Targets # <<>>
    /\ {MaxCalls, MaxActs, MaxFailures} \subseteq Nat

VARIABLES
    doc,        \* doc[d]: its pixels, its selection and its scene:* channels
    active,     \* the active document
    scene,      \* cache: the scene model kept, and the key it is kept under
    recorded,   \* channelsDocState: the key the channels are taken to belong to
    menu,       \* lastPrecomputedKey and cachedMenu
    call        \* call[c]: the call in slot c

\* History, and the counters behind the bounds.
VARIABLES
    recordedFit,    \* recorded does not name another document than was purged
    answer,         \* what the last step answered, if it ended a call
    begun, acts, failures

memory == <<scene, recorded, recordedFit, menu>>
bounds == <<begun, acts, failures>>
vars   == <<doc, active, memory, call, answer, bounds>>

(***************************************************************************)
(* The key of a document state: name and size, whether something is        *)
(* selected, and the pixels.  An export that cannot be decoded has none:   *)
(* the key made up for it never comes again.  One that comes without the   *)
(* name of its document (a degraded context) has only the pixels; the      *)
(* scene cache then never hits, but the key is a string like any other to  *)
(* those who compare cache_key.                                            *)
(***************************************************************************)
NoKey == [name |-> None, px |-> None, selected |-> FALSE]

\* What is selected: a target, one narrowed by its caller, or the user's own.
Selected(of, px) == [of |-> of, px |-> px]
Nothing  == Selected(None, None)
Narrowed == "narrowed"
Own      == "own"

\* A channel scene:<name>.  The rest is history.  fit: saved by a call nobody
\* disturbed; offRecord: saved while recorded described other pixels of its
\* document; stuck: a script has tried to delete it and could not.
Mask(name, sel, fit, offRecord) ==
    [name |-> name, of |-> sel.of, px |-> sel.px,
     fit |-> fit, offRecord |-> offRecord, stuck |-> FALSE]

\* Mutant: the key does not tell whether something is selected.
KeyOfPixels(d) == [name |-> Name[d], px |-> doc[d].px, selected |-> FALSE]

KeyOf(d) == [name |-> Name[d], px |-> doc[d].px, selected |-> doc[d].sel # Nothing]
PixelsOf(d) == [name |-> Unnamed, px |-> doc[d].px, selected |-> FALSE]
ZonesOf(d) == [name |-> Name[d], px |-> doc[d].px, selected |-> doc[d].sel # Nothing]

Same(a, b) == a # NoKey /\ a = b
SameIdentity(a, b) == Same(a, b) /\ a.name # Unnamed

\* The channels of that name: the script that saves one means to leave no other.
Named(d, t) == {mask \in doc[d].chan : mask.name = t}

Idle == [at |-> "idle", tool |-> None, target |-> None, refresh |-> FALSE,
         narrow |-> FALSE, eager |-> FALSE, key |-> NoKey,
         names |-> {}, left |-> <<>>, built |-> {}, covered |-> FALSE, disturbed |-> FALSE]

NoAnswer == [tool |-> None]
NoMenu   == [key |-> NoKey, items |-> {}]
NoScene  == [key |-> NoKey, zones |-> NoKey, calm |-> TRUE]

(***************************************************************************)
(* A document may come with channels of an earlier session, which a native *)
(* save has put into its file.                                             *)
(***************************************************************************)
Leftover(t) == {{}} \cup {{Mask(t, Selected(t, px), TRUE, FALSE)} : px \in Versions}

Init ==
    /\ active \in Docs
    /\ \E first \in Versions, old \in [Regions -> UNION {Leftover(t) : t \in Regions}] :
         /\ \A t \in Regions : old[t] \in Leftover(t)
         /\ doc = [d \in Docs |->
                     [px |-> first, sel |-> Nothing,
                      chan |-> IF d = active THEN UNION {old[t] : t \in Regions} ELSE {}]]
    /\ scene = NoScene
    /\ recorded = NoKey /\ recordedFit = TRUE
    /\ menu = NoMenu
    /\ call = [c \in Calls |-> Idle]
    /\ answer = NoAnswer
    /\ begun = 0 /\ acts = 0 /\ failures = 0

-----------------------------------------------------------------------------
(***************************************************************************)
(* How a script ends: it runs and answers, it runs after it was given up   *)
(* on, or it does not run.  Only the first returns; after the others the   *)
(* call sees an error.                                                     *)
(***************************************************************************)
Endings == IF failures < MaxFailures THEN {"ok", "late", "refused"} ELSE {"ok"}
Runs(e) == e # "refused"
Counts(failed) == /\ failed => failures < MaxFailures
                  /\ failures' = IF failed THEN failures + 1 ELSE failures

(***************************************************************************)
(* A script that deletes channels passes over those whose remove() throws, *)
(* and answers as if it had deleted them.                                  *)
(***************************************************************************)
Remains(chan) == {{[mask EXCEPT !.stuck = TRUE] : mask \in kept} : kept \in SUBSET chan}

\* deleteSceneChannelsScript, on the active document.
DeletesChannels(e) ==
    \E left \in Remains(doc[active].chan) :
      /\ Counts(e # "ok" \/ (Runs(e) /\ left # {}))
      /\ doc' = IF Runs(e) THEN [doc EXCEPT ![active].chan = left] ELSE doc

\* Call c goes on as m.  What it did to the documents disturbs the others.
Continues(c, m, touches) ==
    call' = [k \in Calls |->
               IF k = c THEN m
               ELSE [call[k] EXCEPT !.disturbed = call[k].at # "idle" /\ (@ \/ touches)]]

At(c, step) == call[c].at = step
Go(c, step) == [call[c] EXCEPT !.at = step]

(***************************************************************************)
(* The dispatcher starts a call at once, whatever is under way: in the     *)
(* model when its first script runs.  A select that is not narrowed and    *)
(* not told to refresh tries the channel first.                            *)
(***************************************************************************)
Reads == {[Idle EXCEPT !.tool = "read", !.refresh = how[1], !.eager = how[2]] :
            how \in BOOLEAN \X BOOLEAN}
Selects == {[Idle EXCEPT !.tool = "select", !.target = how[1],
                         !.refresh = how[2], !.narrow = how[3]] :
              how \in Regions \X BOOLEAN \X BOOLEAN}
Saves == {[Idle EXCEPT !.tool = "psd"]}
Every == Reads \cup Selects \cup Saves

ASSUME RequestAssumption == Requests \subseteq Every

FirstStep(m) ==
    CASE m.tool = "psd" -> "drop"
      [] m.tool = "select" /\ ~m.refresh /\ ~m.narrow -> "load"
      [] OTHER -> "export"

Beginning == [step \in {"drop", "load", "export"} |-> {m \in Requests : FirstStep(m) = step}]

\* The calls that slot c may take through a step: the one at it, or a new one.
Ready(c, step) ==
    IF At(c, step) THEN {call[c]}
    ELSE IF At(c, "idle") /\ begun < MaxCalls THEN Beginning[step] ELSE {}
Begins(c) == begun' = IF At(c, "idle") THEN begun + 1 ELSE begun

(***************************************************************************)
(* loadPrecomputedRegion: the first channel of that name in the active     *)
(* document becomes the selection, and the call is answered with it.  Of   *)
(* two channels of one name either may be the first.                       *)
(***************************************************************************)
Load(c) ==
    \E m \in Ready(c, "load"), e \in Endings :
      /\ Begins(c)
      /\ Counts(e # "ok")
      /\ \/ /\ Named(active, m.target) = {}
            /\ doc' = doc
            /\ Continues(c, IF e = "ok" THEN [m EXCEPT !.at = "export"] ELSE Idle, FALSE)
            /\ answer' = NoAnswer
         \/ \E mask \in Named(active, m.target) :
              /\ doc' = IF Runs(e) THEN [doc EXCEPT ![active].sel = Selected(mask.of, mask.px)]
                        ELSE doc
              /\ Continues(c, Idle, Runs(e))
              /\ answer' = IF e = "ok"
                           THEN [tool |-> "select", asked |-> m.target, got |-> mask.of,
                                 fit |-> mask.fit]
                           ELSE NoAnswer
      /\ UNCHANGED <<active, memory, acts>>

\* Mutant: a null state on record is taken to be any.
RecordedOrUnknown(m) == recorded = NoKey \/ recorded = m.key

\* channelsDocState === cacheKey: the channels are taken to be of this state.
Recorded(m) == Same(recorded, m.key)

(***************************************************************************)
(* What a call does once it has its scene model, kept or built: a read     *)
(* looks whether the channels are of this state (invalidateScene-          *)
(* ChannelsIfStale), an eager one whether its menu is (precomputeRegions); *)
(* a select derives, and needs the key no more.  A menu without saved      *)
(* channels needs no script.                                               *)
(***************************************************************************)
AfterModel(m) ==
    CASE m.tool = "select" -> [m EXCEPT !.at = "derive", !.key = NoKey]
      [] m.tool = "read" /\ ~m.eager ->
            IF Recorded(m) THEN Idle ELSE [m EXCEPT !.at = "purge"]
      [] OTHER ->
            IF m.refresh \/ ~Same(menu.key, m.key) THEN [m EXCEPT !.at = "wipe"]
            ELSE IF menu.items = {} THEN Idle
            ELSE [m EXCEPT !.at = "exists", !.names = menu.items]

\* The answer of a read that nobody has disturbed and whose purge has worked.
\* unsure: its own methods have covered the image, or the channels are taken on
\* trust: by the pixels alone, or for a menu kept from before another state was
\* recorded.
ReadAnswer(m, sound, items, unsure) ==
    IF sound /\ ~m.disturbed THEN [tool |-> "read", items |-> items, unsure |-> unsure]
    ELSE NoAnswer

OnTrust(m) == m.key.name = Unnamed \/ (m.eager /\ ~Same(recorded, m.key))

AnswerOfModel(m) ==
    IF AfterModel(m) = Idle THEN ReadAnswer(m, TRUE, {}, OnTrust(m)) ELSE NoAnswer

(***************************************************************************)
(* detectActiveDoc exports the active document and decodes the export;     *)
(* buildSceneModel then looks into its cache.                              *)
(***************************************************************************)
Export(c) ==
    \E m \in Ready(c, "export"), e \in Endings, key \in {KeyOf(active), PixelsOf(active), NoKey} :
      LET keyed == [m EXCEPT !.key = key]
          hit   == ~m.refresh /\ SameIdentity(scene.key, key)
      IN  /\ Begins(c)
          /\ Counts(e # "ok" \/ key # KeyOf(active))
          /\ Continues(c, CASE e # "ok" -> Idle
                            [] e = "ok" /\ hit -> AfterModel(keyed)
                            [] OTHER -> [keyed EXCEPT !.at = "histogram"], FALSE)
          /\ answer' = IF e = "ok" /\ hit THEN AnswerOfModel(keyed) ELSE NoAnswer
          /\ UNCHANGED <<doc, active, memory, acts>>

(***************************************************************************)
(* A scene model is built: the tonal zones come from the histogram of the  *)
(* document that is active now, and of its selection if it has one.  The   *)
(* model is kept under the key of the export.                              *)
(***************************************************************************)
Histogram(c) ==
    /\ At(c, "histogram")
    /\ \E e \in Endings :
         /\ Counts(e # "ok")
         /\ scene' = IF e = "ok" /\ call[c].key # NoKey
                     THEN [key |-> call[c].key, zones |-> ZonesOf(active),
                           calm |-> ~call[c].disturbed]
                     ELSE scene
         /\ Continues(c, IF e = "ok" THEN AfterModel(call[c]) ELSE Idle, FALSE)
         /\ answer' = IF e = "ok" THEN AnswerOfModel(call[c]) ELSE NoAnswer
    /\ UNCHANGED <<doc, active, recorded, recordedFit, menu, begun, acts>>

(***************************************************************************)
(* The channels of the active document are deleted, and those that remain  *)
(* recorded as the ones of the state that was read; a purge that fails     *)
(* leaves nothing recorded.                                                *)
(***************************************************************************)
NamesActive(key) == key.name \in {Name[active], Unnamed, None}

Purge(c) ==
    /\ At(c, "purge")
    /\ \E e \in Endings :
         /\ DeletesChannels(e)
         /\ recorded' = IF e = "ok" THEN call[c].key ELSE NoKey
         /\ recordedFit' = NamesActive(call[c].key)
         /\ Continues(c, Idle, Runs(e))
         /\ answer' = ReadAnswer(call[c], e = "ok", {}, FALSE)
    /\ UNCHANGED <<active, scene, menu, begun, acts>>

(***************************************************************************)
(* channelsExist: the menu kept is good if the document has the channels   *)
(* it names.  The menu returned is the one kept by then: if another call   *)
(* has put its own in place meanwhile, nobody has looked for its channels. *)
(***************************************************************************)
Exists(c) ==
    /\ At(c, "exists")
    /\ \E e \in Endings :
         LET good == e = "ok" /\ \A t \in call[c].names : Named(active, t) # {}
         IN  /\ Counts(e # "ok")
             /\ Continues(c, IF good THEN Idle ELSE [Go(c, "wipe") EXCEPT !.names = {}], FALSE)
             /\ answer' = IF good
                          THEN ReadAnswer(call[c], menu.items = call[c].names, menu.items,
                                           OnTrust(call[c]))
                          ELSE NoAnswer
    /\ UNCHANGED <<doc, active, memory, begun, acts>>

\* An eager read begins by deleting the channels; if that fails it has no menu.
Wipe(c) ==
    /\ At(c, "wipe")
    /\ \E e \in Endings :
         /\ DeletesChannels(e)
         /\ recorded' = IF e = "ok" THEN call[c].key ELSE recorded
         /\ recordedFit' = IF e = "ok" THEN NamesActive(call[c].key) ELSE recordedFit
         /\ Continues(c, IF e = "ok"
                         THEN [Go(c, "derive") EXCEPT !.left = Targets, !.refresh = FALSE]
                         ELSE Idle, Runs(e))
         /\ answer' = IF e = "ok" THEN NoAnswer ELSE ReadAnswer(call[c], FALSE, {}, FALSE)
    /\ UNCHANGED <<active, scene, menu, begun, acts>>

-----------------------------------------------------------------------------
(***************************************************************************)
(* resolveSelection: a region of the active document is selected and       *)
(* measured.  It passes the gate, or it is dropped.  The scripts of the    *)
(* methods are one step, that of the method whose result counts.  A method *)
(* may fail: the next one may pass, or what is selected stays; and one     *)
(* that puts a layer over the image to find the region has then not taken  *)
(* it away (thresholdSkyScript, posterizeRegionScript).                    *)
(***************************************************************************)
InHand(c) == IF call[c].tool = "select" THEN call[c].target ELSE Head(call[c].left)

\* The target in hand is done with.
NextTarget(m) ==
    CASE m.tool = "select" -> Idle
      [] m.tool = "read" /\ Len(m.left) > 1 -> [m EXCEPT !.at = "derive", !.left = Tail(@)]
      [] OTHER -> [m EXCEPT !.at = "deselect", !.left = <<>>]

\* What a method selects, in pixels px, and what may stay selected when the
\* target does not pass: nothing, or what a method that failed has left.
Found(c, px) == Selected(IF call[c].narrow THEN Narrowed ELSE InHand(c), px)
Left(c, px, smooth) == IF smooth THEN {Nothing} ELSE {Nothing, Found(c, px), doc[active].sel}

\* The pixels a method may leave: those it met, or covered by its layer.
Uncovered == doc[active].px
Covered == Versions \ {doc[d].px : d \in Docs}

\* Mutant: what a narrowed select has found is saved like any other.
DeriveSavesAll(c) ==
    /\ At(c, "derive")
    /\ doc' = [doc EXCEPT ![active].sel = Found(c, doc[active].px)]
    /\ Continues(c, Go(c, "save"), TRUE)
    /\ answer' = NoAnswer
    /\ UNCHANGED <<active, memory, bounds>>

Derive(c) ==
    /\ At(c, "derive")
    /\ \E passes, smooth \in BOOLEAN, px \in {Uncovered} \cup Covered :
         /\ Counts(~smooth)
         /\ smooth => px = Uncovered
         /\ ~smooth /\ passes => px \in Covered
         /\ \E sel \in IF passes THEN {Found(c, px)} ELSE Left(c, px, smooth) :
              doc' = [doc EXCEPT ![active].px = px, ![active].sel = sel]
         /\ LET m == [call[c] EXCEPT !.covered = @ \/ px # doc[active].px]
            IN  Continues(c, IF ~passes THEN NextTarget(m)
                             ELSE IF m.narrow THEN Idle ELSE [m EXCEPT !.at = "save"], TRUE)
    /\ answer' = NoAnswer
    /\ UNCHANGED <<active, memory, begun, acts>>

(***************************************************************************)
(* saveSelectionToNamedChannelScript: the old channels of that name go, if *)
(* they can be removed, and what is selected in the active document        *)
(* becomes one.  With nothing selected that fails.                         *)
(***************************************************************************)
Saved(c) ==
    LET sel == doc[active].sel
    IN  IF sel = Nothing THEN {}
        ELSE {Mask(InHand(c), sel, ~call[c].disturbed,
                   recorded.name = Name[active] /\ recorded.px # sel.px)}

Save(c) ==
    /\ At(c, "save")
    /\ \E e \in Endings, left \in Remains(Named(active, InHand(c))) :
         LET t  == InHand(c)
             ok == e = "ok" /\ Saved(c) # {}
         IN  /\ Counts(e # "ok" \/ left # {})
             /\ doc' = IF Runs(e)
                       THEN [doc EXCEPT ![active].chan =
                                          (@ \ Named(active, t)) \cup left \cup Saved(c)]
                       ELSE doc
             /\ Continues(c, NextTarget([call[c] EXCEPT !.built = IF ok THEN @ \cup {t} ELSE @]),
                          Runs(e))
    /\ answer' = NoAnswer
    /\ UNCHANGED <<active, memory, begun, acts>>

\* An eager read drops the selection, whether it can or not, and keeps its menu.
Deselect(c) ==
    /\ At(c, "deselect")
    /\ \E e \in Endings :
         /\ Counts(e # "ok")
         /\ doc' = IF Runs(e) THEN [doc EXCEPT ![active].sel = Nothing] ELSE doc
         /\ Continues(c, Idle, Runs(e))
    /\ menu' = [key |-> call[c].key, items |-> call[c].built]
    /\ answer' = ReadAnswer(call[c], TRUE, call[c].built, call[c].covered)
    /\ UNCHANGED <<active, scene, recorded, recordedFit, begun, acts>>

\* ps_save_psd deletes the channels before it writes the file, if it can.
Drop(c) ==
    /\ Ready(c, "drop") # {}
    /\ Begins(c)
    /\ \E e \in Endings :
         /\ DeletesChannels(e)
         /\ menu' = IF e = "ok" THEN NoMenu ELSE menu
         /\ Continues(c, Idle, Runs(e))
    /\ answer' = NoAnswer
    /\ UNCHANGED <<active, scene, recorded, recordedFit, acts>>

-----------------------------------------------------------------------------
(***************************************************************************)
(* The user of Photoshop (and every other tool) edits the image or brings  *)
(* it back to what it was, selects something or nothing, deletes channels, *)
(* and turns to another document.                                          *)
(***************************************************************************)
Acts(d, new) ==
    /\ acts' = acts + 1
    /\ new # doc[d] \/ active # d
    /\ doc' = [doc EXCEPT ![d] = new]
    /\ call' = [c \in Calls |-> [call[c] EXCEPT !.disturbed = call[c].at # "idle"]]
    /\ answer' = NoAnswer
    /\ UNCHANGED <<memory, begun, failures>>

Edit == /\ acts < MaxActs
        /\ \E px \in Versions : Acts(active, [doc[active] EXCEPT !.px = px])
        /\ UNCHANGED active

Select == /\ acts < MaxActs
          /\ \E sel \in {Nothing, Selected(Own, doc[active].px)} :
               Acts(active, [doc[active] EXCEPT !.sel = sel])
          /\ UNCHANGED active

DeleteChannels == /\ acts < MaxActs
                  /\ Acts(active, [doc[active] EXCEPT !.chan = {}])
                  /\ UNCHANGED active

Turn == /\ acts < MaxActs
        /\ \E d \in Docs : d # active /\ Acts(d, doc[d]) /\ active' = d

Next ==
    \/ \E c \in Calls :
         \/ Load(c) \/ Export(c) \/ Histogram(c)
         \/ Purge(c) \/ Exists(c) \/ Wipe(c) \/ Derive(c) \/ Save(c) \/ Deselect(c) \/ Drop(c)
    \/ Edit \/ Select \/ DeleteChannels \/ Turn

Spec == Init /\ [][Next]_vars

-----------------------------------------------------------------------------

(***************************************************************************)
(* Every slot, document and cache is well formed, and what a call has at   *)
(* hand fits the step it is at.                                            *)
(***************************************************************************)
Keys == [name : Names \cup {Unnamed}, px : Versions, selected : BOOLEAN] \cup {NoKey}

TypeOK ==
    /\ active \in Docs
    /\ \A d \in Docs :
         /\ doc[d].px \in Versions
         /\ \A mask \in doc[d].chan : mask.name \in Regions /\ mask.px \in Versions
    /\ recorded \in Keys /\ menu.key \in Keys /\ menu.items \subseteq Regions
    /\ \A c \in Calls :
         /\ call[c].key \in Keys
         /\ At(c, "exists") => call[c].names # {}
         /\ At(c, "save") => ~call[c].narrow /\ InHand(c) \in Regions

(***************************************************************************)
(* The scene model kept is the one of the state it is kept under, if       *)
(* nobody touched the documents while it was built: its tonal zones are    *)
(* read later than the pixels of its key.  One kept under pixels alone is  *)
(* never found again.                                                      *)
(***************************************************************************)
CacheIsTrue == scene.calm /\ scene.key.name # Unnamed => scene.zones = scene.key

(***************************************************************************)
(* The module is well formed, and its cache true.                          *)
(***************************************************************************)
SceneInv == TypeOK /\ CacheIsTrue

(***************************************************************************)
(* When a read nobody disturbed has been answered and its scripts worked,  *)
(* no region saved in the active document is older than its pixels, and    *)
(* the document has every channel of the menu: loading by name, which asks *)
(* no key, is safe until the next edit.  Channels of an earlier session    *)
(* and regions saved before any read are no exception; these are:          *)
(*   - a channel a script has tried to delete, where remove() threw and    *)
(*     the script went on and answered (stuck);                            *)
(*   - a region saved while other pixels of its document were on record:   *)
(*     the pixels come back to those and nothing is purged (offRecord);    *)
(*   - a state recorded by a read during which somebody turned to another  *)
(*     document, whose channels were then deleted (recordedFit), and two   *)
(*     documents of one name;                                              *)
(*   - a read whose export names no document and has the pixels of another *)
(*     one, an eager read that is content with its menu although another   *)
(*     state has been recorded since, and one whose own methods have left  *)
(*     a layer over the image (unsure);                                    *)
(*   - a menu another call puts in place while the channels of its         *)
(*     predecessor are looked for (sound, in ReadAnswer).                  *)
(***************************************************************************)
ReadsLeaveNothingStale ==
    answer.tool = "read" =>
      /\ \A t \in answer.items : Named(active, t) # {}
      /\ \A mask \in doc[active].chan :
           \/ mask.px = doc[active].px
           \/ mask.stuck \/ mask.offRecord
           \/ answer.unsure \/ ~recordedFit

(***************************************************************************)
(* A select answered from a channel gets the region it asked for, never    *)
(* one that was narrowed to a label or an instance, if nobody disturbed    *)
(* the call that saved it: what is saved is whatever is selected then.     *)
(***************************************************************************)
AnswersFitTheQuestion ==
    answer.tool = "select" /\ answer.fit => answer.got = answer.asked

=============================================================================
