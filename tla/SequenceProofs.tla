--------------------------- MODULE SequenceProofs ---------------------------
(***************************************************************************)
(* Proofs about Sequence, for any documents, names, lengths of histories,  *)
(* steps, edits and acts of others.                                        *)
(***************************************************************************)
EXTENDS Sequence, FiniteSetTheorems, SequenceTheorems, TLAPS

(***************************************************************************)
(* The inductive invariant.  Histories: a later state was made by a later  *)
(* edit.                                                                   *)
(***************************************************************************)
Ordered(h) == \A i, j \in 1..Len(h) : i < j => h[i].edit < h[j].edit

Numbered(d) ==
    /\ Ordered(history[d])
    /\ \A i \in 1..Len(history[d]) : history[d][i].edit <= edits

(***************************************************************************)
(* What was captured: the place and the name of the state that was current *)
(* in the document of the start.  In that document nothing at this place   *)
(* or later is older than the captured state, and, unless a name came      *)
(* again, nothing newer has its name.                                      *)
(***************************************************************************)
NotOlder(d) ==
    \A i \in 1..Len(history[d]) : i >= captured.index => history[d][i].edit >= origin.edit
NameTells(d) ==
    captured # NoSnapshot /\ ~again =>
        \A i \in 1..Len(history[d]) :
            history[d][i].edit > origin.edit => history[d][i].name # captured.name

CaptureHolds ==
    /\ origin.doc \in Docs /\ origin.edit \in Nat /\ origin.edit <= edits
    /\ captured.index \in Nat
    /\ captured # NoSnapshot => captured.title = Title[origin.doc]
    /\ \A d \in Docs : origin.doc = d => NotOlder(d) /\ NameTells(d)

(***************************************************************************)
(* Where the call is: only a rollback goes back, it has captured a state,  *)
(* and when its undo is about to be executed Photoshop has nothing else to *)
(* do and the cursor is still as far away as was computed.                 *)
(***************************************************************************)
GoingBack == {"reading", "undoing", "verifying"}

CallFits ==
    /\ pc \in {"idle", "capturing"} => captured = NoSnapshot
    /\ pc = "capturing" => onError = "rollback"
    /\ pc = "stepping" /\ onError = "rollback" => captured # NoSnapshot
    /\ pc \in GoingBack => onError = "rollback" /\ captured # NoSnapshot /\ failedStep # 0
    /\ rolledBack => pc = "done"
    /\ pc \in {"undoing", "verifying"} => ~pending

TitlesDiffer == \A d, e \in Docs : Title[d] = Title[e] => d = e

UndoAims ==
    pc = "undoing" /\ ~intruded =>
        /\ TitlesDiffer => front = origin.doc
        /\ cursor[front] = captured.index + delta

(***************************************************************************)
(* The entries: all before the first failure are ok, and only the last one *)
(* may be skipped.                                                         *)
(***************************************************************************)
FailsFirst ==
    /\ \A i \in 1..Len(entries) : i < failedStep \/ failedStep = 0 => entries[i] = "ok"
    /\ failedStep <= Len(entries)
    /\ failedStep # 0 => entries[failedStep] # "ok"

SkipsLast ==
    /\ \A i \in 1..Len(entries) : entries[i] = "skipped" <=> capExceeded /\ i = Len(entries)
    /\ capExceeded => Len(entries) > 0 /\ failedStep # 0
    /\ capExceeded /\ onError # "continue" => failedStep = Len(entries)

EndsRight ==
    /\ pc \in {"idle", "capturing", "stepping"} =>
         /\ ~capExceeded
         /\ failedStep # 0 => onError = "continue"
         /\ pc = "idle" => Len(entries) = 0
         /\ pc # "idle" => Len(entries) < Len(steps)
    /\ pc \in GoingBack \cup {"done"} /\ ~capExceeded =>
         /\ failedStep = 0 \/ onError = "continue" => Len(entries) = Len(steps)
         /\ failedStep # 0 /\ onError # "continue" => failedStep = Len(entries)

EntriesHold == FailsFirst /\ SkipsLast /\ EndsRight

HistoryInv == HistoriesOK /\ (\A d \in Docs : Numbered(d)) /\ CaptureHolds
CallInv == CallOK /\ Len(steps) <= MaxSteps /\ CallFits /\ UndoAims /\ EntriesHold

IInv == HistoryInv /\ CallInv

-----------------------------------------------------------------------------
(* Histories *)

(***************************************************************************)
(* What a history is after an edit: it may have been shifted by one, and   *)
(* ends with the new state.                                                *)
(***************************************************************************)
Follows(g, h, k, x) ==
    /\ g \in Seq(State) /\ Len(g) \in Nat \ {0} /\ Len(g) <= MaxStates
    /\ g[Len(g)] = x
    /\ \E o \in {0, 1} : /\ Len(g) + o = k + 1
                        /\ \A i \in 1..(Len(g) - 1) : i + o \in 1..Len(h) /\ g[i] = h[i + o]

(***************************************************************************)
(* The history that Push makes is one.                                     *)
(***************************************************************************)
LEMMA ExtendedFacts ==
    ASSUME NEW h \in Seq(State), NEW k \in 1..Len(h), Len(h) <= MaxStates, NEW x \in State
    PROVE  Follows(Extended(h, k, x), h, k, x)
<1> PICK g : g = Extended(h, k, x)
  OBVIOUS
<1> SUFFICES Follows(g, h, k, x)
  OBVIOUS
<1> USE DEF Follows
<1> DEFINE cut == SubSeq(h, 1, k)
           states == Append(cut, x)
<1>1. MaxStates \in Nat \ {0} /\ Len(h) \in Nat
  BY SequenceAssumption
<1>2. cut \in Seq(State) /\ Len(cut) = k /\ \A i \in 1..k : cut[i] = h[i]
  BY <1>1
<1> HIDE DEF cut
<1>3. /\ states \in Seq(State) /\ Len(states) = k + 1 /\ states[k + 1] = x
      /\ \A i \in 1..k : states[i] = h[i]
  BY <1>1, <1>2
<1> HIDE DEF states
<1>4. g = IF Len(states) > MaxStates THEN Tail(states) ELSE states
  BY DEF states, cut, Extended
<1>5. CASE Len(states) > MaxStates
  <2>1. g = Tail(states) /\ states # <<>>
    BY <1>3, <1>4, <1>5
  <2>2. g \in Seq(State) /\ Len(g) = k /\ \A i \in 1..k : g[i] = states[i + 1]
    BY <1>3, <2>1, HeadTailProperties
  <2>3. Len(g) + 1 = k + 1 /\ \A i \in 1..(Len(g) - 1) : i + 1 \in 1..Len(h) /\ g[i] = h[i + 1]
    BY <1>1, <1>3, <2>2
  <2>4. g[Len(g)] = x /\ Len(g) \in Nat \ {0} /\ Len(g) <= MaxStates
    BY <1>1, <1>3, <2>2
  <2>5. QED
    BY <2>2, <2>3, <2>4
<1>6. CASE ~(Len(states) > MaxStates)
  <2>1. g = states
    BY <1>4, <1>6
  <2>2. Len(g) + 0 = k + 1 /\ \A i \in 1..(Len(g) - 1) : i + 0 \in 1..Len(h) /\ g[i] = h[i + 0]
    BY <1>1, <1>3, <2>1
  <2>3. g \in Seq(State) /\ g[Len(g)] = x /\ Len(g) \in Nat \ {0} /\ Len(g) <= MaxStates
    BY <1>1, <1>3, <1>6, <2>1
  <2>4. QED
    BY <2>2, <2>3
<1>7. QED
  BY <1>5, <1>6

(***************************************************************************)
(* An edit keeps all that is known of the histories.                       *)
(***************************************************************************)
LEMMA PushStep ==
    ASSUME HistoryInv, NEW d \in Docs, NEW n \in Names, Push(d, n),
           pending' \in BOOLEAN, captured' = captured, origin' = origin
    PROVE  HistoryInv'
<1>1. PICK h : h = history[d]
  OBVIOUS
<1>2. PICK x : x = [edit |-> edits + 1, name |-> n]
  OBVIOUS
<1> PICK k : k = cursor[d]
  OBVIOUS
<1>3. PICK g : g = Extended(h, k, x)
  OBVIOUS
<1>4. /\ MaxEdits \in Nat /\ MaxStates \in Nat
      /\ edits \in 1..MaxEdits /\ edits < MaxEdits /\ edits' = edits + 1 /\ edits' \in 1..MaxEdits
  BY SequenceAssumption DEF Push, HistoryInv, HistoriesOK
<1>5. x \in State
  BY <1>2, <1>4 DEF State
<1>6. h \in Seq(State) /\ k \in 1..Len(h) /\ Len(h) <= MaxStates /\ Len(h) \in Nat
  BY <1>1 DEF HistoryInv, HistoriesOK
<1>7. /\ h \in Seq(State) /\ k \in 1..Len(h) /\ Len(h) <= MaxStates /\ x \in State
      /\ g = Extended(h, k, x)
  BY <1>3, <1>5, <1>6
<1>8. Follows(g, h, k, x)
  BY <1>7, ExtendedFacts
<1>9. g \in Seq(State) /\ Len(g) \in Nat \ {0} /\ Len(g) <= MaxStates /\ g[Len(g)] = x
  BY <1>8 DEF Follows
<1>10. PICK o \in {0, 1} : /\ Len(g) + o = k + 1
                         /\ \A i \in 1..(Len(g) - 1) : i + o \in 1..Len(h) /\ g[i] = h[i + o]
  BY <1>8 DEF Follows
<1>11. history' = [history EXCEPT ![d] = g] /\ cursor' = [cursor EXCEPT ![d] = Len(g)]
  BY <1>1, <1>2, <1>3 DEF Push
<1>12. DOMAIN history = Docs /\ DOMAIN cursor = Docs
  BY DEF HistoryInv, HistoriesOK
<1>13. history'[d] = g /\ cursor'[d] = Len(g)
  BY <1>11, <1>12
<1>14. \A e \in Docs \ {d} : history'[e] = history[e] /\ cursor'[e] = cursor[e]
  BY <1>11, <1>12
<1>15. HistoriesOK'
  <2>1. ASSUME NEW e \in Docs
        PROVE  /\ history'[e] \in Seq(State) /\ cursor'[e] \in 1..Len(history'[e])
               /\ Len(history'[e]) <= MaxStates
    <3>1. CASE e = d
      BY <3>1, <1>9, <1>13
    <3>2. CASE e # d
      BY <3>2, <1>14 DEF HistoryInv, HistoriesOK
    <3>3. QED
      BY <3>1, <3>2
  <2>2. DOMAIN history' = Docs /\ DOMAIN cursor' = Docs
    BY <1>11, <1>12
  <2>3. front' \in Docs
    BY DEF Push, HistoryInv, HistoriesOK
  <2>4. QED
    BY <1>4, <2>1, <2>2, <2>3 DEF HistoriesOK, State
<1>16. /\ \A i \in 1..Len(h) : h[i].edit \in Nat /\ h[i].edit <= edits
       /\ Ordered(h)
  <2>1. \A i \in 1..Len(h) : h[i] \in State
    BY <1>6
  <2>2. \A i \in 1..Len(h) : h[i].edit \in Nat
    BY <2>1, <1>4 DEF State
  <2>3. QED
    BY <1>1, <2>2 DEF HistoryInv, Numbered
<1>17. x.edit = edits + 1 /\ x.name = n
  BY <1>2
<1>18. ASSUME NEW i \in 1..Len(g)
       PROVE  \/ i < Len(g) /\ i + o \in 1..Len(h) /\ g[i] = h[i + o]
              \/ i = Len(g) /\ g[i] = x
  BY <1>9, <1>10
<1>19. ASSUME NEW e \in Docs PROVE Numbered(e)'
  <2>1. CASE e # d
    <3>1. history'[e] = history[e] /\ history[e] \in Seq(State) /\ Numbered(e)
      BY <2>1, <1>14 DEF HistoryInv, HistoriesOK
    <3>2. \A i \in 1..Len(history[e]) : history[e][i] \in State
      BY <3>1
    <3>3. \A i \in 1..Len(history[e]) : history[e][i].edit <= edits'
      BY <3>1, <3>2, <1>4 DEF Numbered, State
    <3>4. QED
      BY <3>1, <3>3 DEF Numbered
  <2>2. CASE e = d
    <3>1. \A i \in 1..Len(g) : g[i].edit <= edits + 1
      BY <1>4, <1>16, <1>17, <1>18
    <3>2. ASSUME NEW i \in 1..Len(g), NEW j \in 1..Len(g), i < j PROVE g[i].edit < g[j].edit
      <4>1. i < Len(g) /\ i + o \in 1..Len(h) /\ g[i] = h[i + o]
        BY <1>9, <1>18, <3>2
      <4>2. CASE j = Len(g)
        BY <1>4, <1>9, <1>16, <1>17, <4>1, <4>2
      <4>3. CASE j # Len(g)
        <5>1. j + o \in 1..Len(h) /\ g[j] = h[j + o]
          BY <1>18, <4>3
        <5>2. i + o < j + o
          BY <1>9, <3>2, <1>10
        <5>3. QED
          BY <1>16, <4>1, <5>1, <5>2 DEF Ordered
      <4>4. QED
        BY <4>2, <4>3
    <3>3. QED
      BY <2>2, <3>1, <3>2, <1>4, <1>13 DEF Numbered, Ordered
  <2>3. QED
    BY <2>1, <2>2
<1>20. CaptureHolds'
  <2>1. /\ origin.doc \in Docs /\ origin.edit \in Nat /\ origin.edit <= edits
        /\ captured.index \in Nat
        /\ captured # NoSnapshot => captured.title = Title[origin.doc]
        /\ \A e \in Docs : origin.doc = e => NotOlder(e) /\ NameTells(e)
    BY DEF HistoryInv, CaptureHolds
  <2>2. origin.edit <= edits'
    BY <1>4, <2>1
  <2>3. ASSUME NEW e \in Docs, origin.doc = e PROVE NotOlder(e)' /\ NameTells(e)'
    <3>1. CASE e # d
      <4>1. history'[e] = history[e]
        BY <3>1, <1>14
      <4>2. again' <=> again
        BY <2>3, <3>1 DEF Push
      <4>3. NotOlder(e) /\ NameTells(e)
        BY <2>1, <2>3
      <4>4. NotOlder(e)'
        BY <4>1, <4>3 DEF NotOlder
      <4>5. NameTells(e)'
        BY <4>1, <4>2, <4>3 DEF NameTells, NoSnapshot
      <4>6. QED
        BY <4>4, <4>5
    <3>2. CASE e = d
      <4>1. history'[d] = g /\ history[d] = h /\ NotOlder(d) /\ NameTells(d)
        BY <2>1, <2>3, <3>2, <1>1, <1>13
      <4>2. ASSUME NEW i \in 1..Len(g), i >= captured.index
            PROVE  g[i].edit >= origin.edit
        <5>1. CASE i = Len(g)
          BY <1>4, <1>9, <1>17, <2>1, <5>1
        <5>2. CASE i # Len(g)
          <6>1. i + o \in 1..Len(h) /\ g[i] = h[i + o]
            BY <1>18, <5>2
          <6>2. i + o >= captured.index
            BY <2>1, <4>2, <1>9, <1>10
          <6>3. QED
            BY <4>1, <6>1, <6>2 DEF NotOlder
        <5>3. QED
          BY <5>1, <5>2
      <4>3. ASSUME NEW i \in 1..Len(g), captured # NoSnapshot, ~again', g[i].edit > origin.edit
            PROVE  g[i].name # captured.name
        <5>1. ~again /\ n # captured.name
          BY <2>3, <3>2, <4>3 DEF Push
        <5>2. CASE i = Len(g)
          BY <1>9, <1>17, <5>1, <5>2
        <5>3. CASE i # Len(g)
          <6>1. i + o \in 1..Len(h) /\ g[i] = h[i + o]
            BY <1>18, <5>3
          <6>2. QED
            BY <4>1, <4>3, <5>1, <6>1 DEF NameTells, NoSnapshot
        <5>4. QED
          BY <5>2, <5>3
      <4>4. NotOlder(d)'
        BY <4>1, <4>2 DEF NotOlder
      <4>5. NameTells(d)'
        BY <4>1, <4>3 DEF NameTells, NoSnapshot
      <4>6. QED
        BY <3>2, <4>4, <4>5
    <3>3. QED
      BY <3>1, <3>2
  <2>4. QED
    BY <2>1, <2>2, <2>3 DEF CaptureHolds, NoSnapshot
<1>21. QED
  BY <1>15, <1>19, <1>20 DEF HistoryInv

(***************************************************************************)
(* A step that edits nothing needs an argument for the cursor and the      *)
(* active document only.                                                   *)
(***************************************************************************)
LEMMA HistoryStays ==
    ASSUME HistoryInv, UNCHANGED <<history, edits, captured, origin, again>>,
           front' \in Docs, pending' \in BOOLEAN,
           \/ cursor' = cursor
           \/ \E k \in 1..Len(history[front]) : cursor' = [cursor EXCEPT ![front] = k]
    PROVE  HistoryInv'
<1>1. ASSUME NEW d \in Docs PROVE cursor'[d] \in 1..Len(history[d])
  BY DEF HistoryInv, HistoriesOK
<1>2. DOMAIN cursor' = Docs
  BY DEF HistoryInv, HistoriesOK
<1>3. HistoriesOK'
  BY <1>1, <1>2 DEF HistoryInv, HistoriesOK, State
<1>4. \A d \in Docs : Numbered(d)'
  BY DEF HistoryInv, Numbered, Ordered
<1>5. CaptureHolds'
  BY DEF HistoryInv, CaptureHolds, NotOlder, NameTells, NoSnapshot
<1>6. QED
  BY <1>3, <1>4, <1>5 DEF HistoryInv

-----------------------------------------------------------------------------
(* The entries *)

(***************************************************************************)
(* What is to be known of the entries and the first failure when that of   *)
(* one more step has been added.                                           *)
(***************************************************************************)
Goes(done, f) ==
    /\ done \in Seq({"ok", "failed", "skipped"}) /\ Len(done) \in 1..Len(steps)
    /\ \A i \in 1..Len(done) : done[i] # "skipped"
    /\ f \in 0..Len(done) /\ (f # 0 => done[f] = "failed")
    /\ \A i \in 1..Len(done) : i < f \/ f = 0 => done[i] = "ok"
    /\ onError # "continue" => f \in {0, Len(done)}

(***************************************************************************)
(* The loop goes on after a step, or is left.                              *)
(***************************************************************************)
LEMMA GoesOnStep ==
    ASSUME CallInv, pc = "stepping", NEW done, NEW f, Goes(done, f), GoesOn(done, f),
           onError # "continue" => f = 0,
           UNCHANGED <<steps, onError, captured, delta, rolledBack, reason>>
    PROVE  CallInv'
<1>1. /\ steps \in Seq(Kinds) /\ Len(steps) \in Nat /\ MaxSteps \in Nat /\ Len(steps) <= MaxSteps
      /\ done \in Seq({"ok", "failed", "skipped"}) /\ Len(done) \in Nat
  BY SequenceAssumption DEF CallInv, CallOK, Goes
<1>2. CASE /\ entries' = done /\ failedStep' = f /\ capExceeded' = capExceeded
           /\ IF Len(done) = Len(steps) THEN Leave(f) ELSE pc' = "stepping"
  <2>1. entries' \in Seq({"ok", "failed", "skipped"}) /\ Len(entries') <= Len(steps')
    BY <1>1, <1>2 DEF Goes
  <2>2. failedStep' \in 0..MaxSteps /\ capExceeded' \in BOOLEAN
    BY <1>1, <1>2 DEF Goes, CallInv, CallOK
  <2>3. /\ pc' \in {"stepping", "reading", "done"}
        /\ pc' = "reading" => onError = "rollback" /\ f # 0 /\ captured # NoSnapshot
        /\ pc' = "stepping" <=> Len(done) # Len(steps)
    BY <1>2 DEF Leave, CallInv, CallFits
  <2>4. CallOK' /\ CallFits'
    BY <1>2, <2>1, <2>2, <2>3 DEF CallInv, CallOK, CallFits, GoingBack, Places, NoSnapshot, Modes, Kinds, Reasons
  <2>5. EntriesHold'
    BY <1>1, <1>2, <2>3 DEF Goes, CallInv, EntriesHold, FailsFirst, SkipsLast, EndsRight
  <2>6. QED
    BY <1>1, <2>3, <2>4, <2>5 DEF CallInv, UndoAims
<1>3. CASE /\ Len(done) < Len(steps)
           /\ entries' = Append(done, "skipped") /\ capExceeded' = TRUE
           /\ failedStep' = IF f = 0 THEN Len(done) + 1 ELSE f
           /\ Leave(Len(done) + 1)
  <2>1. /\ entries' \in Seq({"ok", "failed", "skipped"}) /\ Len(entries') = Len(done) + 1
        /\ entries'[Len(done) + 1] = "skipped"
        /\ \A i \in 1..Len(done) : entries'[i] = done[i] /\ done[i] # "skipped"
    BY <1>1, <1>3 DEF Goes
  <2>2. failedStep' \in 0..MaxSteps /\ capExceeded' \in BOOLEAN
    BY <1>1, <1>3 DEF Goes, CallInv, CallOK
  <2>3. /\ pc' \in {"reading", "done"}
        /\ pc' = "reading" => onError = "rollback" /\ captured # NoSnapshot
    BY <1>1, <1>3 DEF Leave, CallInv, CallFits
  <2>4. failedStep' # 0 /\ Len(entries') <= Len(steps)
    BY <1>1, <1>3, <2>1 DEF Goes
  <2>5. CallOK' /\ CallFits'
    BY <1>3, <2>1, <2>2, <2>3, <2>4 DEF CallInv, CallOK, CallFits, GoingBack, Places, NoSnapshot, Modes, Kinds, Reasons
  <2>6. EntriesHold'
    BY <1>1, <1>3, <2>1, <2>3 DEF Goes, CallInv, EntriesHold, FailsFirst, SkipsLast, EndsRight
  <2>7. QED
    BY <1>1, <2>3, <2>5, <2>6 DEF CallInv, UndoAims
<1>4. QED
  BY <1>2, <1>3 DEF GoesOn

(***************************************************************************)
(* The end of a step.                                                      *)
(***************************************************************************)
LEMMA StepEnds ==
    ASSUME IInv, StepSucceeds \/ StepFails
    PROVE  IInv'
<1>1. /\ entries \in Seq({"ok", "failed", "skipped"}) /\ Len(entries) \in Nat
      /\ Len(entries) < Len(steps) /\ Len(steps) \in Nat /\ Len(steps) <= MaxSteps /\ MaxSteps \in Nat
      /\ failedStep \in Nat /\ ~capExceeded /\ pc = "stepping"
      /\ failedStep # 0 => onError = "continue"
  <2>1. pc = "stepping"
    BY DEF StepSucceeds, StepFails
  <2>2. EndsRight
    BY DEF IInv, CallInv, EntriesHold
  <2>3. ~capExceeded /\ Len(entries) < Len(steps) /\ (failedStep # 0 => onError = "continue")
    BY <2>1, <2>2, Zenon DEF EndsRight
  <2>4. /\ entries \in Seq({"ok", "failed", "skipped"}) /\ steps \in Seq(Kinds)
        /\ failedStep \in 0..MaxSteps /\ Len(steps) <= MaxSteps /\ MaxSteps \in Nat
    BY SequenceAssumption DEF IInv, CallInv, CallOK
  <2>5. QED
    BY <2>1, <2>3, <2>4
<1>2. /\ \A i \in 1..Len(entries) : entries[i] # "skipped" /\ entries[i] \in {"ok", "failed"}
      /\ \A i \in 1..Len(entries) : i < failedStep \/ failedStep = 0 => entries[i] = "ok"
      /\ failedStep <= Len(entries) /\ (failedStep # 0 => entries[failedStep] # "ok")
  BY <1>1 DEF IInv, CallInv, EntriesHold, FailsFirst, SkipsLast
<1>3. HistoryInv'
  BY HistoryStays DEF IInv, StepSucceeds, StepFails, photoshop, ghosts, HistoryInv, HistoriesOK
<1>4. CASE StepSucceeds
  <2>1. Goes(Append(entries, "ok"), failedStep)
    BY <1>1, <1>2 DEF Goes
  <2>2. GoesOn(Append(entries, "ok"), failedStep)
        /\ UNCHANGED <<steps, onError, captured, delta, rolledBack, reason>>
    BY <1>4 DEF StepSucceeds
  <2>3. CallInv'
    BY <1>1, <2>1, <2>2, GoesOnStep DEF IInv
  <2>4. QED
    BY <1>3, <2>3 DEF IInv
<1>5. CASE StepFails
  <2>1. Step = Len(entries) + 1 /\ First(Step) \in 1..(Len(entries) + 1)
    BY <1>1, <1>2 DEF Step, First
  <2> PICK done : done = Append(entries, "failed")
    OBVIOUS
  <2>2. /\ done \in Seq({"ok", "failed", "skipped"})
        /\ Len(done) = Len(entries) + 1
        /\ \A i \in 1..Len(entries) : done[i] = entries[i]
        /\ done[Len(entries) + 1] = "failed"
    BY <1>1
  <2>3. done[First(Step)] = "failed"
    BY <1>1, <1>2, <2>1, <2>2 DEF First
  <2>4. \A i \in 1..(Len(entries) + 1) : i < First(Step) => done[i] = "ok"
    BY <1>1, <1>2, <2>1, <2>2 DEF First
  <2>5. UNCHANGED <<steps, onError, captured, delta, rolledBack, reason>>
    BY <1>5 DEF StepFails
  <2>6. CASE onError = "continue"
    <3>1. Goes(done, First(Step))
      <4>1. Len(done) \in 1..Len(steps) /\ First(Step) \in 0..Len(done) /\ First(Step) # 0
        BY <1>1, <2>1, <2>2
      <4>2. \A i \in 1..Len(done) : done[i] # "skipped"
        BY <1>1, <1>2, <2>2
      <4>3. \A i \in 1..Len(done) : i < First(Step) => done[i] = "ok"
        BY <1>1, <2>2, <2>4
      <4>4. QED
        BY <2>2, <2>3, <2>6, <4>1, <4>2, <4>3 DEF Goes
    <3>2. GoesOn(done, First(Step))
      BY <1>5, <2>6 DEF StepFails
    <3>3. CallInv'
      BY <1>1, <2>5, <2>6, <3>1, <3>2, GoesOnStep DEF IInv
    <3>4. QED
      BY <1>3, <3>3 DEF IInv
  <2>7. CASE onError # "continue"
    <3>1. /\ entries' = done /\ failedStep' = First(Step)
          /\ Leave(Step) /\ capExceeded' = capExceeded
      BY <1>5, <2>7 DEF StepFails
    <3>2. First(Step) = Len(entries) + 1
      BY <1>1, <2>1, <2>7 DEF First
    <3>3. /\ pc' \in {"reading", "done"}
          /\ pc' = "reading" => onError = "rollback" /\ captured # NoSnapshot
      BY <1>1, <3>1 DEF Leave, IInv, CallInv, CallFits
    <3>4. /\ entries' \in Seq({"ok", "failed", "skipped"}) /\ Len(entries') <= Len(steps)
          /\ failedStep' \in 0..MaxSteps /\ failedStep' # 0
      BY <1>1, <2>2, <3>1, <3>2
    <3>5. CallOK'
      BY <2>5, <3>1, <3>3, <3>4 DEF IInv, CallInv, CallOK, Places, NoSnapshot
    <3>6. CallFits'
      BY <1>1, <2>5, <3>3, <3>4 DEF IInv, CallInv, CallFits, GoingBack, NoSnapshot
    <3>7. EntriesHold'
      BY <1>1, <1>2, <2>2, <2>4, <2>5, <2>7, <3>1, <3>2, <3>3
         DEF EntriesHold, FailsFirst, SkipsLast, EndsRight
    <3>8. QED
      BY <1>1, <1>3, <2>5, <3>3, <3>5, <3>6, <3>7 DEF IInv, CallInv, UndoAims
  <2>8. QED
    BY <2>6, <2>7
<1>6. QED
  BY <1>4, <1>5

-----------------------------------------------------------------------------
(* The other steps *)

(***************************************************************************)
(* The call begins.                                                        *)
(***************************************************************************)
LEMMA BeginStep ==
    ASSUME IInv, NEW n \in 1..MaxSteps, NEW s \in [1..n -> Kinds], NEW mode \in Modes, Call(s, mode)
    PROVE  IInv'
<1>1. n \in Nat \ {0} /\ MaxSteps \in Nat /\ n <= MaxSteps
  BY SequenceAssumption
<1>2. s \in Seq(Kinds) /\ Len(s) = n
  BY <1>1
<1>3. HistoryInv'
  BY HistoryStays DEF IInv, Call, photoshop, ghosts, HistoryInv, HistoriesOK
<1>4. /\ entries \in Seq({"ok", "failed", "skipped"}) /\ Len(entries) = 0 /\ ~capExceeded
      /\ failedStep = 0 /\ captured = NoSnapshot /\ ~rolledBack /\ pc = "idle"
  BY SequenceAssumption
     DEF IInv, CallInv, CallOK, CallFits, EntriesHold, EndsRight, FailsFirst, Call
<1>5. pc' \in {"refused", "capturing", "stepping"} /\ (pc' = "capturing" => mode = "rollback")
      /\ (pc' = "stepping" => mode # "rollback")
  BY DEF Call
<1>6. CallOK' /\ CallFits'
  <2>1. /\ UNCHANGED <<captured, delta, entries, failedStep, capExceeded, rolledBack, reason>>
        /\ steps' = s /\ onError' = mode
    BY DEF Call
  <2>2. CallOK'
    <3>1. steps' \in Seq(Kinds) /\ Len(entries') <= Len(steps') /\ onError' \in Modes
      BY <1>1, <1>2, <1>4, <2>1
    <3>2. captured' = NoSnapshot /\ pc' \in Places /\ pc' \notin {"reading", "undoing", "verifying"}
      BY <1>4, <1>5, <2>1 DEF Places
    <3>3. CallOK
      BY DEF IInv, CallInv
    <3>4. QED
      BY <2>1, <3>1, <3>2, <3>3 DEF CallOK, Kinds, Modes, Reasons, Places, NoSnapshot
  <2>3. CallFits'
    BY <1>4, <1>5, <2>1 DEF CallFits, GoingBack, NoSnapshot
  <2>4. QED
    BY <2>2, <2>3
<1>7. EntriesHold'
  BY <1>1, <1>2, <1>4, <1>5 DEF Call, EntriesHold, FailsFirst, SkipsLast, EndsRight, GoingBack, ghosts
<1>8. QED
  BY <1>1, <1>2, <1>3, <1>5, <1>6, <1>7 DEF IInv, CallInv, UndoAims, Call

(***************************************************************************)
(* What the capture reads: it is the newest of the states up to it.        *)
(***************************************************************************)
LEMMA CaptureStep == ASSUME IInv, Capture PROVE IInv'
<1>1. /\ front \in Docs /\ history[front] \in Seq(State) /\ cursor[front] \in 1..Len(history[front])
      /\ Len(history[front]) <= MaxStates /\ MaxStates \in Nat /\ MaxEdits \in Nat
      /\ Len(history[front]) \in Nat /\ edits \in Nat
  BY SequenceAssumption DEF IInv, HistoryInv, HistoriesOK
<1>2. PICK h, k : h = history[front] /\ k = cursor[front]
  OBVIOUS
<1>3. /\ k \in 1..Len(h) /\ Len(h) \in Nat
      /\ \A i \in 1..Len(h) : h[i] \in State /\ h[i].edit \in Nat
  <2>1. h \in Seq(State) /\ k \in 1..Len(h)
    BY <1>1, <1>2
  <2>2. \A i \in 1..Len(h) : h[i] \in State
    BY <2>1
  <2>3. \A x \in State : x.edit \in Nat
    BY <1>1 DEF State
  <2>4. QED
    BY <2>1, <2>2, <2>3
<1>4. /\ captured' = [index |-> k, name |-> h[k].name, title |-> Title[front]]
      /\ origin' = [doc |-> front, edit |-> h[k].edit]
      /\ ~again' => \A i \in 1..Len(h) : i > k => h[i].name # h[k].name
  BY <1>1, <1>2 DEF Capture, Snapshot, Current
<1>5. /\ captured'.index = k /\ captured'.name = h[k].name /\ captured'.title = Title[front]
      /\ origin'.doc = front /\ origin'.edit = h[k].edit
      /\ captured' # NoSnapshot
  <2>1. captured'.index = k /\ captured'.name = h[k].name /\ captured'.title = Title[front]
    BY <1>4
  <2>2. origin'.doc = front /\ origin'.edit = h[k].edit
    BY <1>4
  <2>3. k # 0 /\ NoSnapshot.index = 0
    BY <1>3 DEF NoSnapshot
  <2>4. captured' # NoSnapshot
    BY <2>1, <2>3
  <2>5. QED
    BY <2>1, <2>2, <2>4
<1>6. Ordered(h) /\ \A i \in 1..Len(h) : h[i].edit <= edits
  BY <1>1, <1>2 DEF IInv, HistoryInv, Numbered
<1>7. UNCHANGED <<history, cursor, front, edits, pending>>
  BY DEF Capture, photoshop
<1>8. HistoriesOK'
  BY <1>7 DEF IInv, HistoryInv, HistoriesOK, State
<1>9. \A d \in Docs : Numbered(d)'
  BY <1>7 DEF IInv, HistoryInv, Numbered, Ordered
<1>10. ASSUME NEW d \in Docs, origin'.doc = d PROVE NotOlder(d)' /\ NameTells(d)'
  <2>1. history'[d] = h
    BY <1>2, <1>5, <1>7, <1>10
  <2>2. \A i \in 1..Len(h) : i >= k => h[i].edit >= h[k].edit
    BY <1>3, <1>6 DEF Ordered
  <2>3. \A i \in 1..Len(h) : h[i].edit > h[k].edit => i > k
    BY <1>3, <1>6 DEF Ordered
  <2>4. NotOlder(d)'
    BY <1>5, <2>1, <2>2 DEF NotOlder
  <2>5. NameTells(d)'
    BY <1>4, <1>5, <2>1, <2>3 DEF NameTells
  <2>6. QED
    BY <2>4, <2>5
<1>11. CaptureHolds'
  BY <1>1, <1>3, <1>5, <1>6, <1>7, <1>10 DEF CaptureHolds
<1>12. /\ captured' \in [index : 1..MaxStates, name : Names, title : {Title[d] : d \in Docs}]
  <2>1. k \in 1..MaxStates /\ h[k].name \in Names
    BY <1>1, <1>2, <1>3 DEF State
  <2>2. QED
    BY <1>1, <1>4, <2>1
<1>13. CallOK' /\ CallFits' /\ UndoAims'
  BY <1>5, <1>12 DEF Capture, IInv, CallInv, CallOK, CallFits, UndoAims, GoingBack, Places, Modes, Kinds, Reasons, NoSnapshot
<1>14. EntriesHold'
  BY DEF Capture, IInv, CallInv, EntriesHold, FailsFirst, SkipsLast, EndsRight, GoingBack
<1>15. QED
  BY <1>8, <1>9, <1>11, <1>13, <1>14 DEF IInv, HistoryInv, CallInv, Capture

(***************************************************************************)
(* A step that is not of the call leaves the call as it was.               *)
(***************************************************************************)
LEMMA CallStays ==
    ASSUME CallInv, UNCHANGED call, pending' = pending \/ ~pending', UndoAims'
    PROVE  CallInv'
<1>1. CallOK'
  BY DEF CallInv, CallOK, call, Kinds, Modes, Places, Reasons, NoSnapshot
<1>2. CallFits'
  <2>1. UNCHANGED <<pc, onError, captured, failedStep, rolledBack>> /\ NoSnapshot' = NoSnapshot
    BY DEF call, NoSnapshot
  <2>2. CallFits
    BY DEF CallInv
  <2>3. CASE pending' = pending
    BY <2>1, <2>2, <2>3, Zenon DEF CallFits, GoingBack
  <2>4. CASE ~pending'
    BY <2>1, <2>2, <2>4, Zenon DEF CallFits, GoingBack
  <2>5. QED
    BY <2>3, <2>4
<1>3. EntriesHold'
  BY DEF CallInv, EntriesHold, FailsFirst, SkipsLast, EndsRight, call, GoingBack
<1>4. QED
  BY <1>1, <1>2, <1>3 DEF CallInv, call

(***************************************************************************)
(* A step of the rollback leaves the entries as they were.                 *)
(***************************************************************************)
LEMMA RollbackStep ==
    ASSUME CallInv, pc \in GoingBack, pc' \in GoingBack \cup {"done"}, delta' \in 0..MaxStates,
           UNCHANGED <<steps, onError, captured, entries, failedStep, capExceeded>>,
           rolledBack' \in BOOLEAN, reason' \in Reasons, rolledBack' => pc' = "done",
           pc' \in {"undoing", "verifying"} => ~pending', UndoAims'
    PROVE  CallInv'
<1>1. CallOK'
  BY DEF CallInv, CallOK, CallFits, GoingBack, Kinds, Modes, Places, Reasons, NoSnapshot
<1>2. CallFits'
  BY DEF CallInv, CallFits, GoingBack, NoSnapshot
<1>3. EntriesHold'
  BY DEF CallInv, EntriesHold, FailsFirst, SkipsLast, EndsRight, GoingBack
<1>4. QED
  BY <1>1, <1>2, <1>3 DEF CallInv

(***************************************************************************)
(* Edits: of the step that runs, of one given up on, of others.            *)
(***************************************************************************)
LEMMA EditStep ==
    ASSUME IInv, NEW n \in Names, ToolEdits(n) \/ LateEdit(n) \/ OtherEdits(n)
    PROVE  IInv'
<1>1. /\ front \in Docs /\ pending \in BOOLEAN /\ Push(front, n)
      /\ UNCHANGED <<pending, call, origin>>
  BY DEF IInv, HistoryInv, HistoriesOK, ToolEdits, LateEdit, OtherEdits
<1>2. HistoryInv'
  BY <1>1, PushStep DEF IInv, call
<1>3. pc' = "undoing" => intruded'
  BY <1>1 DEF ToolEdits, LateEdit, OtherEdits, Intrude, IInv, CallInv, CallFits, call
<1>4. UndoAims'
  BY <1>3 DEF UndoAims
<1>5. CallInv'
  BY <1>1, <1>4, CallStays DEF IInv
<1>6. QED
  BY <1>2, <1>5 DEF IInv

(***************************************************************************)
(* The cursor or the active document moves while a step runs, others       *)
(* switch documents, Photoshop is through with a script given up on.       *)
(***************************************************************************)
LEMMA MoveStep ==
    ASSUME IInv,
           \/ \E k \in 1..MaxStates : ToolMovesCursor(k)
           \/ \E d \in Docs : ToolSwitches(d) \/ OtherSwitches(d)
           \/ Answers
    PROVE  IInv'
<1>1. UNCHANGED <<history, edits, origin, again, call>>
  BY DEF ToolMovesCursor, ToolSwitches, OtherSwitches, Answers, Intrude, ghosts
<1>2. front \in Docs /\ pending \in BOOLEAN
  BY DEF IInv, HistoryInv, HistoriesOK
<1>3. front' \in Docs /\ pending' \in BOOLEAN /\ (pending' = pending \/ ~pending')
  BY <1>2 DEF ToolMovesCursor, ToolSwitches, OtherSwitches, Answers
<1>4. \/ cursor' = cursor
      \/ \E k \in 1..Len(history[front]) : cursor' = [cursor EXCEPT ![front] = k]
  BY DEF ToolMovesCursor, ToolSwitches, OtherSwitches, Answers
<1>5. HistoryInv'
  BY <1>1, <1>3, <1>4, HistoryStays DEF IInv, call
<1>6. pc' = "undoing" => intruded'
  BY <1>1 DEF ToolMovesCursor, ToolSwitches, OtherSwitches, Answers, Intrude, IInv, CallInv, CallFits, call
<1>7. CallInv'
  BY <1>1, <1>3, <1>6, CallStays DEF IInv, UndoAims
<1>8. QED
  BY <1>5, <1>7 DEF IInv

(***************************************************************************)
(* The capture fails.                                                      *)
(***************************************************************************)
LEMMA CaptureFailsStep == ASSUME IInv, CaptureFails PROVE IInv'
<1>1. HistoryInv'
  BY HistoryStays DEF IInv, CaptureFails, photoshop, ghosts, HistoryInv, HistoriesOK
<1>2. CallOK'
  BY DEF CaptureFails, IInv, CallInv, CallOK, Kinds, Modes, Places, Reasons, NoSnapshot
<1>3. CallFits' /\ UndoAims'
  BY DEF CaptureFails, IInv, CallInv, CallFits, UndoAims, GoingBack, NoSnapshot
<1>4. EntriesHold'
  BY DEF CaptureFails, IInv, CallInv, EntriesHold, FailsFirst, SkipsLast, EndsRight, GoingBack
<1>5. QED
  BY <1>1, <1>2, <1>3, <1>4 DEF IInv, CallInv, CaptureFails

(***************************************************************************)
(* The distance is computed from what the history shows, and Photoshop has *)
(* nothing else to execute.                                                *)
(***************************************************************************)
LEMMA ReadBeforeStep == ASSUME IInv, ReadBefore PROVE IInv'
<1>1. UNCHANGED <<history, cursor, front, edits, pending, origin, intruded, again, others>>
      /\ pc = "reading" /\ ~pending
  BY DEF ReadBefore, photoshop, ghosts, Executes
<1>2. UNCHANGED <<steps, onError, captured, entries, failedStep, capExceeded>>
  BY DEF ReadBefore, Ends
<1>3. HistoryInv'
  BY <1>1, <1>2, HistoryStays DEF IInv, HistoryInv, HistoriesOK
<1>4. /\ CallOK /\ delta \in 0..MaxStates /\ rolledBack = FALSE /\ reason \in Reasons
      /\ captured # NoSnapshot /\ captured.index \in Nat
  BY <1>1 DEF IInv, CallInv, CallOK, CallFits, GoingBack, HistoryInv, CaptureHolds
<1>5. /\ front \in Docs /\ cursor[front] \in Nat /\ cursor[front] <= MaxStates /\ MaxStates \in Nat
  BY SequenceAssumption DEF IInv, HistoryInv, HistoriesOK
<1>6. CASE \E why \in Reasons : Ends(FALSE, why)
  <2>1. pc' = "done" /\ rolledBack' = FALSE /\ reason' \in Reasons /\ delta' = delta
    BY <1>6 DEF Ends
  <2>2. CallInv'
    BY <1>1, <1>2, <1>4, <2>1, RollbackStep DEF IInv, GoingBack, UndoAims
  <2>3. QED
    BY <1>3, <2>2 DEF IInv
<1>7. CASE /\ Snapshot.title = captured.title /\ Snapshot.index >= captured.index
           /\ delta' = Snapshot.index - captured.index
           /\ pc' = IF delta' > 0 THEN "undoing" ELSE "verifying"
           /\ UNCHANGED <<rolledBack, reason>>
  <2>1. Title[front] = captured.title /\ cursor[front] >= captured.index
        /\ delta' = cursor[front] - captured.index
    BY <1>7 DEF Snapshot
  <2>2. delta' \in 0..MaxStates /\ cursor[front] = captured.index + delta'
    BY <1>4, <1>5, <2>1
  <2>3. TitlesDiffer => front = origin.doc
    BY <1>4, <1>5, <2>1 DEF TitlesDiffer, IInv, HistoryInv, CaptureHolds
  <2>4. pc' \in {"undoing", "verifying"}
    BY <1>7
  <2>5. UndoAims'
    BY <1>1, <1>2, <2>2, <2>3 DEF UndoAims, TitlesDiffer
  <2>6. CallInv'
    BY <1>1, <1>2, <1>4, <1>7, <2>2, <2>4, <2>5, RollbackStep DEF IInv, GoingBack
  <2>7. QED
    BY <1>3, <2>6 DEF IInv
<1>8. QED
  BY <1>6, <1>7 DEF ReadBefore, Reasons

(***************************************************************************)
(* The undo moves the cursor within the history.                           *)
(***************************************************************************)
LEMMA UndoneFacts ==
    ASSUME IInv
    PROVE  UndoneTo(cursor[front]) \in 1..Len(history[front])
<1>1. cursor[front] \in 1..Len(history[front]) /\ Len(history[front]) \in Nat /\ delta \in Nat
  BY SequenceAssumption DEF IInv, HistoryInv, HistoriesOK, CallInv, CallOK
<1>2. QED
  BY <1>1 DEF UndoneTo

(***************************************************************************)
(* The undo, the verification, or the end of either by a failure.          *)
(***************************************************************************)
LEMMA BackStep == ASSUME IInv, Undo \/ Verify \/ RollbackFails PROVE IInv'
<1>1. UNCHANGED <<history, front, edits, pending, origin, intruded, again, others>>
      /\ UNCHANGED <<steps, onError, captured, delta, entries, failedStep, capExceeded>>
      /\ pc \in GoingBack
  BY DEF Undo, Verify, RollbackFails, Ends, photoshop, ghosts, GoingBack
<1>2. \/ cursor' = cursor
      \/ cursor' = [cursor EXCEPT ![front] = UndoneTo(cursor[front])]
  BY DEF Undo, Verify, RollbackFails, photoshop, IInv, HistoryInv, HistoriesOK
<1>3. HistoryInv'
  BY <1>1, <1>2, UndoneFacts, HistoryStays DEF IInv, HistoryInv, HistoriesOK
<1>4. /\ delta \in 0..MaxStates /\ rolledBack = FALSE /\ reason \in Reasons
      /\ pc \in {"undoing", "verifying"} => ~pending
  BY <1>1 DEF IInv, CallInv, CallOK, CallFits, GoingBack
<1>5. \/ pc' = "done" /\ rolledBack' \in BOOLEAN /\ reason' \in Reasons
      \/ pc' = "verifying" /\ pc = "undoing" /\ UNCHANGED <<rolledBack, reason>>
  BY DEF Undo, Verify, RollbackFails, Ends, Reasons
<1>6. CallInv'
  BY <1>1, <1>4, <1>5, RollbackStep DEF IInv, GoingBack, UndoAims
<1>7. QED
  BY <1>3, <1>6 DEF IInv

-----------------------------------------------------------------------------
(* The invariant *)

(***************************************************************************)
(* At the start nothing has been captured, and every history is in order.  *)
(***************************************************************************)
LEMMA InitHistory == ASSUME Init PROVE HistoryInv
<1>1. PICK n \in 1..MaxStates : \E names \in [1..n -> Names] : \E k \in 1..n :
         /\ history = [d \in Docs |-> IF d = front THEN [i \in 1..n |-> [edit |-> i, name |-> names[i]]]
                                                   ELSE <<[edit |-> 1, name |-> names[1]]>>]
         /\ cursor = [d \in Docs |-> IF d = front THEN k ELSE 1]
         /\ edits = n
  BY DEF Init
<1>2. PICK names \in [1..n -> Names], k \in 1..n :
         /\ history = [d \in Docs |-> IF d = front THEN [i \in 1..n |-> [edit |-> i, name |-> names[i]]]
                                                   ELSE <<[edit |-> 1, name |-> names[1]]>>]
         /\ cursor = [d \in Docs |-> IF d = front THEN k ELSE 1]
         /\ edits = n
  BY <1>1
<1>3. n \in Nat /\ 1 <= n /\ n <= MaxStates /\ n <= MaxEdits
      /\ MaxStates \in Nat /\ 1 <= MaxStates /\ MaxEdits \in Nat
  BY SequenceAssumption
<1>4. PICK h : h = [i \in 1..n |-> [edit |-> i, name |-> names[i]]]
  OBVIOUS
<1>5. PICK g : g = <<[edit |-> 1, name |-> names[1]]>>
  OBVIOUS
<1>6. \A i \in 1..n : [edit |-> i, name |-> names[i]] \in State
  BY <1>3 DEF State
<1>7. /\ h \in Seq(State) /\ Len(h) = n /\ \A i \in 1..n : h[i].edit = i
  BY <1>3, <1>4, <1>6
<1>8. g \in Seq(State) /\ Len(g) = 1 /\ g[1].edit = 1
  BY <1>3, <1>5, <1>6
<1>9. front \in Docs
  BY DEF Init
<1>10. \A d \in Docs : history[d] = (IF d = front THEN h ELSE g) /\ cursor[d] = (IF d = front THEN k ELSE 1)
  BY <1>2, <1>4, <1>5
<1>11. HistoriesOK
  <2>1. ASSUME NEW d \in Docs
        PROVE  /\ history[d] \in Seq(State) /\ cursor[d] \in 1..Len(history[d])
               /\ Len(history[d]) <= MaxStates
    <3>1. CASE d = front
      <4>1. history[d] = h /\ cursor[d] = k
        BY <1>10, <3>1
      <4>2. QED
        BY <1>3, <1>7, <4>1
    <3>2. CASE d # front
      <4>1. history[d] = g /\ cursor[d] = 1
        BY <1>10, <3>2
      <4>2. 1 \in 1..Len(g) /\ Len(g) <= MaxStates
        BY <1>3, <1>8
      <4>3. QED
        BY <1>8, <4>1, <4>2
    <3>3. QED
      BY <3>1, <3>2
  <2>2. DOMAIN history = Docs /\ DOMAIN cursor = Docs
    BY <1>2
  <2>3. edits \in 1..MaxEdits /\ pending \in BOOLEAN
    <3>1. edits = n
      BY <1>2
    <3>2. pending = FALSE
      BY DEF Init
    <3>3. n \in 1..MaxEdits
      BY <1>3
    <3>4. QED
      BY <3>1, <3>2, <3>3
  <2>4. QED
    BY <1>9, <2>1, <2>2, <2>3 DEF HistoriesOK
<1>12. ASSUME NEW d \in Docs PROVE Numbered(d)
  BY <1>2, <1>3, <1>7, <1>8, <1>10 DEF Numbered, Ordered
<1>13. CaptureHolds
  <2>1. captured = NoSnapshot /\ captured.index = 0 /\ origin.doc = front /\ origin.edit = 0
    BY DEF Init, NoSnapshot
  <2>2. ASSUME NEW d \in Docs PROVE NotOlder(d)
    BY <1>3, <1>7, <1>8, <1>10, <2>1 DEF NotOlder
  <2>3. QED
    BY <1>2, <1>3, <1>9, <2>1, <2>2 DEF CaptureHolds, NameTells
<1>14. QED
  BY <1>11, <1>12, <1>13 DEF HistoryInv

(***************************************************************************)
(* The call has not begun.                                                 *)
(***************************************************************************)
LEMMA InitCall == ASSUME Init PROVE CallInv
<1>1. /\ steps = <<>> /\ onError = "stop" /\ pc = "idle" /\ captured = NoSnapshot /\ delta = 0
      /\ entries = <<>> /\ failedStep = 0 /\ capExceeded = FALSE /\ rolledBack = FALSE /\ reason = "none"
  BY DEF Init
<1>2. steps \in Seq(Kinds) /\ entries \in Seq({"ok", "failed", "skipped"})
      /\ Len(steps) = 0 /\ Len(entries) = 0
  BY <1>1
<1>3. CallOK
  <2>1. delta \in 0..MaxStates /\ failedStep \in 0..MaxSteps /\ Len(entries) <= Len(steps)
    BY SequenceAssumption, <1>1, <1>2
  <2>2. onError \in Modes /\ pc \in Places /\ reason \in Reasons
        /\ pc \notin {"reading", "undoing", "verifying"}
    BY <1>1 DEF Modes, Places, Reasons
  <2>3. QED
    BY <1>1, <1>2, <2>1, <2>2 DEF CallOK
<1>4. CallFits /\ UndoAims
  BY <1>1 DEF CallFits, UndoAims, GoingBack
<1>5. EntriesHold
  BY <1>1, <1>2 DEF EntriesHold, FailsFirst, SkipsLast, EndsRight, GoingBack
<1>6. QED
  BY SequenceAssumption, <1>2, <1>3, <1>4, <1>5 DEF CallInv

(***************************************************************************)
(* The invariant holds at the start.                                       *)
(***************************************************************************)
LEMMA InitInv == Init => IInv
  BY InitHistory, InitCall DEF IInv

(***************************************************************************)
(* Each step keeps the invariant.                                          *)
(***************************************************************************)
LEMMA NextKeepsInv == IInv /\ [Next]_vars => IInv'
<1> SUFFICES ASSUME IInv, [Next]_vars PROVE IInv'
  OBVIOUS
<1>1. CASE \E n \in 1..MaxSteps : \E s \in [1..n -> Kinds], mode \in Modes : Call(s, mode)
  BY <1>1, BeginStep
<1>2. CASE Capture \/ CaptureFails
  BY <1>2, CaptureStep, CaptureFailsStep
<1>3. CASE \E n \in Names : ToolEdits(n) \/ LateEdit(n) \/ OtherEdits(n)
  BY <1>3, EditStep
<1>4. CASE \/ \E k \in 1..MaxStates : ToolMovesCursor(k)
           \/ \E d \in Docs : ToolSwitches(d) \/ OtherSwitches(d)
           \/ Answers
  BY <1>4, MoveStep
<1>5. CASE StepSucceeds \/ StepFails
  BY <1>5, StepEnds
<1>6. CASE ReadBefore
  BY <1>6, ReadBeforeStep
<1>7. CASE Undo \/ Verify \/ RollbackFails
  BY <1>7, BackStep
<1>8. CASE UNCHANGED vars
  <2>1. HistoryInv'
    BY <1>8, HistoryStays DEF IInv, HistoryInv, HistoriesOK, vars
  <2>2. CallInv'
    BY <1>8, CallStays DEF IInv, CallInv, UndoAims, call, vars
  <2>3. QED
    BY <2>1, <2>2 DEF IInv
<1>9. QED
  BY <1>1, <1>2, <1>3, <1>4, <1>5, <1>6, <1>7, <1>8 DEF Next

(***************************************************************************)
(* The invariant holds in every reachable state.                           *)
(***************************************************************************)
LEMMA Inductive == Spec => []IInv
<1>1. IInv /\ [Next]_vars => IInv'
  BY NextKeepsInv
<1>2. QED
  BY InitInv, <1>1, PTL DEF Spec

-----------------------------------------------------------------------------
(* The theorems *)

(***************************************************************************)
(* The entries that ran are those before the skipped one.                  *)
(***************************************************************************)
LEMMA RanFacts ==
    ASSUME CallInv, pc = "done"
    PROVE  /\ ranSteps \in Nat
           /\ {i \in DOMAIN entries : entries[i] # "skipped"} = 1..ranSteps
<1>1. /\ entries \in Seq({"ok", "failed", "skipped"}) /\ Len(entries) \in Nat
      /\ DOMAIN entries = 1..Len(entries) /\ capExceeded \in BOOLEAN
  BY DEF CallInv, CallOK
<1>2. /\ \A i \in 1..Len(entries) : entries[i] = "skipped" <=> capExceeded /\ i = Len(entries)
      /\ capExceeded => Len(entries) > 0
  BY DEF CallInv, EntriesHold, SkipsLast
<1>3. CASE capExceeded
  <2>1. ranSteps = Len(entries) - 1 /\ ranSteps \in Nat
    <3>1. Len(entries) \in Nat /\ Len(entries) > 0
      BY <1>1, <1>2, <1>3
    <3>2. ranSteps = Len(entries) - 1
      BY <1>3 DEF ranSteps
    <3>3. QED
      BY <3>1, <3>2
  <2>2. 1..ranSteps = {i \in 1..Len(entries) : i # Len(entries)}
    BY <1>1, <2>1
  <2>3. {i \in DOMAIN entries : entries[i] # "skipped"} = {i \in 1..Len(entries) : i # Len(entries)}
    BY <1>1, <1>2, <1>3
  <2>4. QED
    BY <2>1, <2>2, <2>3
<1>4. CASE ~capExceeded
  BY <1>1, <1>2, <1>4 DEF ranSteps
<1>5. QED
  BY <1>3, <1>4

(***************************************************************************)
(* Histories and the call are well formed in every reachable state, and a  *)
(* call that is done reports truly which steps ran and which failed first, *)
(* for any number of documents, steps and edits.                           *)
(***************************************************************************)
THEOREM ReportsHold == Spec => []SequenceInv
<1>1. ASSUME IInv, pc = "done" PROVE ReportIsTrue
  <2>1. /\ entries \in Seq({"ok", "failed", "skipped"}) /\ Len(entries) \in Nat /\ Len(steps) \in Nat
        /\ failedStep \in 0..MaxSteps /\ MaxSteps \in Nat /\ capExceeded \in BOOLEAN
    BY <1>1, SequenceAssumption DEF IInv, CallInv, CallOK
  <2>2. FailsFirst /\ SkipsLast /\ EndsRight
    BY <1>1 DEF IInv, CallInv, EntriesHold
  <2>3. ranSteps \in Nat /\ {i \in DOMAIN entries : entries[i] # "skipped"} = 1..ranSteps
    BY <1>1, RanFacts DEF IInv
  <2>4. Cardinality(1..ranSteps) = ranSteps
    <3>1. Cardinality(1..ranSteps) = IF 1 > ranSteps THEN 0 ELSE ranSteps - 1 + 1
      BY <2>3, FS_Interval
    <3>2. QED
      BY <2>3, <3>1
  <2>5. failedStep # 0 => failedStep \in 1..Len(entries)
    BY <2>1, <2>2 DEF FailsFirst
  <2>6. \A i \in 1..Len(entries) : i < failedStep \/ failedStep = 0 => entries[i] = "ok"
    BY <2>2 DEF FailsFirst
  <2>7. Message \in {"completed", "completed_with_failure"} => ranSteps = Len(steps)
    BY <1>1, <2>1, <2>2 DEF Message, ranSteps, EndsRight, SkipsLast
  <2>8. ASSUME Message = "stopped" PROVE failedStep = ranSteps /\ entries[failedStep] = "failed"
    <3>1. ~capExceeded /\ failedStep # 0 /\ onError # "continue"
      BY <2>1, <2>2, <2>8 DEF Message, SkipsLast
    <3>2. failedStep = ranSteps
      BY <1>1, <2>2, <3>1 DEF ranSteps, EndsRight
    <3>3. entries[failedStep] \in {"ok", "failed", "skipped"} /\ entries[failedStep] # "ok"
          /\ entries[failedStep] # "skipped"
      BY <2>1, <2>2, <2>5, <3>1 DEF FailsFirst, SkipsLast
    <3>4. QED
      BY <3>2, <3>3
  <2>9. ASSUME Message = "over_budget"
        PROVE  entries[failedStep] = "skipped" \/ (onError = "continue" /\ entries[failedStep] = "failed")
    <3>1. capExceeded /\ failedStep # 0
      BY <2>9 DEF Message
    <3>2. entries[failedStep] \in {"ok", "failed", "skipped"} /\ entries[failedStep] # "ok"
      BY <2>1, <2>2, <2>5, <3>1 DEF FailsFirst
    <3>3. onError # "continue" => entries[failedStep] = "skipped"
      BY <2>2, <2>5, <3>1 DEF SkipsLast
    <3>4. QED
      BY <3>2, <3>3
  <2>10. QED
    BY <2>3, <2>4, <2>6, <2>7, <2>8, <2>9 DEF ReportIsTrue
<1>2. IInv => SequenceInv
  <2>1. ASSUME IInv, pc # "done" PROVE ReportIsTrue
    BY <2>1 DEF ReportIsTrue
  <2>2. QED
    BY <1>1, <2>1 DEF SequenceInv, TypeOK, IInv, HistoryInv, CallInv
<1>3. QED
  BY Inductive, <1>2, PTL

(***************************************************************************)
(* What a verification has seen: the document of the start, and in it a    *)
(* state with the captured name at the captured place.  Unless that name   *)
(* came again this is the captured state.                                  *)
(***************************************************************************)
LEMMA VerifiedFacts ==
    ASSUME TitlesDiffer, IInv, pc = "verifying", Snapshot.title = captured.title, Verified, ~again
    PROVE  Restored
<1>1. /\ front \in Docs /\ history[front] \in Seq(State) /\ cursor[front] \in 1..Len(history[front])
      /\ MaxEdits \in Nat
  BY SequenceAssumption DEF IInv, HistoryInv, HistoriesOK
<1>2. captured # NoSnapshot /\ captured.title = Title[origin.doc] /\ origin.doc \in Docs /\ origin.edit \in Nat
  BY DEF IInv, CallInv, CallFits, GoingBack, HistoryInv, CaptureHolds
<1>3. front = origin.doc
  BY <1>1, <1>2 DEF TitlesDiffer, Snapshot
<1>4. NotOlder(front) /\ NameTells(front)
  BY <1>1, <1>3 DEF IInv, HistoryInv, CaptureHolds
<1>5. cursor[front] = captured.index /\ Current(front).name = captured.name
  BY DEF Verified, Snapshot
<1>6. Current(front) \in State /\ Current(front).edit \in Nat
  <2>1. Current(front) \in State
    BY <1>1 DEF Current
  <2>2. QED
    BY <1>1, <2>1 DEF State
<1>7. Current(front).edit >= origin.edit
  BY <1>1, <1>4, <1>5 DEF NotOlder, Current
<1>8. ~(Current(front).edit > origin.edit)
  BY <1>1, <1>2, <1>4, <1>5 DEF NameTells, Current
<1>9. QED
  BY <1>2, <1>3, <1>6, <1>7, <1>8 DEF Restored

(***************************************************************************)
(* A call that reports the document rolled back has restored it, for any   *)
(* steps, histories and scripts given up on, as long as no two open        *)
(* documents have the same title.                                          *)
(***************************************************************************)
THEOREM RollbacksHappen == ASSUME TitlesDiffer PROVE Spec => RollbackIsTrue
<1>1. ASSUME IInv, [Next]_vars, pc # "done", pc' = "done", rolledBack'
      PROVE  Restored' \/ intruded \/ again
  <2>1. ~rolledBack
    BY <1>1 DEF IInv, CallInv, CallFits
  <2>2. Verify
    BY <1>1, <2>1
       DEF Next, Call, Capture, CaptureFails, ToolEdits, LateEdit, OtherEdits, ToolMovesCursor, ToolSwitches,
           OtherSwitches, StepSucceeds, StepFails, ReadBefore, Undo, RollbackFails, Answers, Ends, Intrude,
           call, vars
  <2>3. pc = "verifying" /\ Snapshot.title = captured.title /\ Verified
        /\ UNCHANGED <<history, cursor, front, origin>>
    BY <1>1, <2>2 DEF Verify, Ends, photoshop, ghosts
  <2>4. Restored \/ again
    BY <1>1, <2>3, VerifiedFacts
  <2>5. Restored => Restored'
    BY <2>3 DEF Restored, Current
  <2>6. QED
    BY <2>4, <2>5
<1>2. IInv /\ [Next]_vars =>
        [pc # "done" /\ pc' = "done" /\ rolledBack' => Restored' \/ intruded \/ again]_vars
  BY <1>1
<1>3. QED
  BY Inductive, <1>2, PTL DEF Spec, RollbackIsTrue

(***************************************************************************)
(* The undo of a rollback that is not disturbed leaves every document but  *)
(* the captured one alone, and does not reach behind the captured state.   *)
(***************************************************************************)
THEOREM UndosStayInside == ASSUME TitlesDiffer PROVE Spec => UndoesOnlyItsOwn
<1>1. ASSUME IInv, [Next]_vars, pc = "undoing", cursor' # cursor, ~intruded
      PROVE  front = origin.doc /\ Current(front)'.edit >= origin.edit
  <2>1. Undo \/ RollbackFails \/ \E n \in Names : OtherEdits(n)
    BY <1>1
       DEF Next, Call, Capture, CaptureFails, ToolEdits, LateEdit, OtherEdits, ToolMovesCursor, ToolSwitches,
           OtherSwitches, StepSucceeds, StepFails, ReadBefore, Verify, Answers, photoshop, vars, Intrude,
           IInv, CallInv, CallFits
  <2>2. /\ history[front] \in Seq(State) /\ cursor[front] \in 1..Len(history[front]) /\ front \in Docs
        /\ Len(history[front]) <= MaxStates /\ DOMAIN history = Docs /\ DOMAIN cursor = Docs
        /\ delta \in Nat /\ captured.index \in Nat /\ MaxStates \in Nat /\ MaxEdits \in Nat
        /\ edits \in 1..MaxEdits /\ origin.edit \in Nat /\ origin.edit <= edits
        /\ Len(history[front]) \in Nat
    BY <1>1, SequenceAssumption DEF IInv, HistoryInv, HistoriesOK, CaptureHolds, CallInv, CallOK
  <2>3. front = origin.doc /\ cursor[front] = captured.index + delta
    BY <1>1 DEF IInv, CallInv, UndoAims
  <2>4. CASE Undo \/ RollbackFails
    <3>1. cursor' = [cursor EXCEPT ![front] = UndoneTo(@)] /\ UNCHANGED <<history, front>>
      BY <1>1, <2>4 DEF Undo, RollbackFails
    <3>2. NotOlder(front)
      BY <1>1, <2>2, <2>3 DEF IInv, HistoryInv, CaptureHolds
    <3>3. cursor'[front] = UndoneTo(cursor[front])
      BY <2>2, <3>1
    <3>4. UndoneTo(cursor[front]) >= captured.index
      BY <2>2, <2>3 DEF UndoneTo
    <3>5. cursor'[front] \in 1..Len(history[front])
      BY <1>1, <3>3, UndoneFacts
    <3>6. history[front][cursor'[front]].edit >= origin.edit
      BY <3>2, <3>3, <3>4, <3>5 DEF NotOlder
    <3>7. QED
      BY <2>3, <3>1, <3>6 DEF Current
  <2>5. CASE \E n \in Names : OtherEdits(n)
    <3>1. PICK n \in Names : Push(front, n)
      BY <2>5 DEF OtherEdits
    <3>2. PICK x : x = [edit |-> edits + 1, name |-> n]
      OBVIOUS
    <3>3. PICK g : g = Extended(history[front], cursor[front], x)
      OBVIOUS
    <3>4. /\ edits < MaxEdits /\ front' = front
          /\ history' = [history EXCEPT ![front] = g] /\ cursor' = [cursor EXCEPT ![front] = Len(g)]
      BY <3>1, <3>2, <3>3 DEF Push
    <3>5. x \in State /\ x.edit = edits + 1
      BY <2>2, <3>2, <3>4 DEF State
    <3>6. Follows(g, history[front], cursor[front], x)
      BY <2>2, <3>3, <3>5, ExtendedFacts
    <3>7. Current(front)' = g[Len(g)]
      BY <2>2, <3>4 DEF Current
    <3>8. g[Len(g)] = x
      BY <3>6 DEF Follows
    <3>9. QED
      BY <2>2, <2>3, <3>5, <3>7, <3>8
  <2>6. QED
    BY <2>1, <2>4, <2>5
<1>2. IInv /\ [Next]_vars =>
        [pc = "undoing" /\ cursor' # cursor /\ ~intruded =>
            front = origin.doc /\ Current(front)'.edit >= origin.edit]_vars
  BY <1>1
<1>3. QED
  BY Inductive, <1>2, PTL DEF Spec, UndoesOnlyItsOwn
=============================================================================
