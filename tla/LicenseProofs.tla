--------------------------- MODULE LicenseProofs ---------------------------
(***************************************************************************)
(* Proofs about License, for any number of tasks, seats and troubles.      *)
(***************************************************************************)
EXTENDS License, FunctionTheorems, FiniteSetTheorems, TLAPS

(***************************************************************************)
(* The inductive invariant.  What a task knows fits where it stands: a     *)
(* task that asks about an activation has read one, a verdict is there     *)
(* until it has been judged, and a new activation until it is recorded.    *)
(***************************************************************************)
Fits(t) ==
    /\ pc[t] \in {"validate", "validateKey", "judge", "free"} => seen[t] \in Ids
    /\ reply[t].gone => pc[t] = "judge"
    /\ taken[t] = 0 <=> pc[t] # "record"

(***************************************************************************)
(* An activation on its way to a task is known to no other task, and is    *)
(* not in the record.                                                      *)
(***************************************************************************)
IsNews(t) ==
    taken[t] # 0 =>
        /\ taken[t] # rec.act
        /\ \A u \in Tasks : taken[t] # seen[u] /\ (u # t => taken[t] # taken[u])

(***************************************************************************)
(* A task that has been told that its activation is gone was told the      *)
(* truth.  One that goes on to replace or to remove the record leaves no   *)
(* seat behind, unless the record is no longer the one it has read, or     *)
(* the loss of the seat has a reason.                                      *)
(***************************************************************************)
Gone(t) == seen[t] \notin live

LeavesNone(t) ==
    /\ pc[t] = "validateKey" \/ reply[t].gone => Gone(t)
    /\ pc[t] \in {"activate", "record"} => Gone(t) \/ rec.act # seen[t]
    /\ pc[t] = "clear" => Gone(t) \/ seen[t] \in excused \/ rec.act # seen[t]

TaskInv == \A t \in Tasks : Fits(t) /\ IsNews(t) /\ LeavesNone(t)

IInv == TypeOK /\ RemovedIsTrue /\ OrphansHaveACause /\ TaskInv

-----------------------------------------------------------------------------
(* The helpers. *)

(***************************************************************************)
(* The service has a new name for an activation while there is room.       *)
(***************************************************************************)
LEMMA NewIdFacts ==
    ASSUME TypeOK, Room
    PROVE  NewId \in Ids /\ NewId \notin Used
<1>1. PICK read : read = {seen[t] : t \in Tasks}
  OBVIOUS
<1>2. PICK coming : coming = {taken[t] : t \in Tasks}
  OBVIOUS
<1>3. IsFiniteSet(Tasks) /\ Cardinality(Tasks) \in Nat /\ Cardinality(Ids) \in Nat
  BY FS_CardinalityType, LicenseAssumption
<1>4. seen \in Surjection(Tasks, read) /\ taken \in Surjection(Tasks, coming)
  BY <1>1, <1>2 DEF Surjection, TypeOK
<1>5. /\ IsFiniteSet(read) /\ Cardinality(read) <= Cardinality(Tasks)
      /\ IsFiniteSet(coming) /\ Cardinality(coming) <= Cardinality(Tasks)
  BY <1>3, <1>4, FS_Surjection
<1>6. IsFiniteSet(live) /\ Cardinality(live) \in Nat /\ Cardinality(live) < MaxSeats
  BY FS_Subset, FS_CardinalityType, LicenseAssumption DEF TypeOK, Room
<1>7. PICK held : held = live \cup {rec.act}
  OBVIOUS
<1>8. IsFiniteSet(held) /\ Cardinality(held) \in Nat /\ Cardinality(held) <= MaxSeats
  <2>1. IsFiniteSet(live \cup {rec.act})
        /\ Cardinality(live \cup {rec.act}) =
              IF rec.act \in live THEN Cardinality(live) ELSE Cardinality(live) + 1
    BY <1>6, FS_AddElement, Zenon
  <2>2. QED
    BY <2>1, <1>6, <1>7, LicenseAssumption
<1>9. ASSUME NEW A, NEW B, IsFiniteSet(A), IsFiniteSet(B)
      PROVE  /\ IsFiniteSet(A \cup B)
             /\ Cardinality(A \cup B) \in Nat
             /\ Cardinality(A \cup B) <= Cardinality(A) + Cardinality(B)
  <2>1. /\ IsFiniteSet(A \cup B)
        /\ Cardinality(A \cup B) = Cardinality(A) + Cardinality(B) - Cardinality(A \cap B)
    BY <1>9, FS_Union, Zenon
  <2>2. IsFiniteSet(A \cap B)
    BY <1>9, FS_Intersection
  <2>3. /\ Cardinality(A \cup B) \in Nat /\ Cardinality(A \cap B) \in Nat
        /\ Cardinality(A) \in Nat /\ Cardinality(B) \in Nat
    BY <1>9, <2>1, <2>2, FS_CardinalityType, Zenon
  <2>4. QED
    BY <2>1, <2>3
<1>10. PICK known : known = held \cup read
  OBVIOUS
<1>11. IsFiniteSet(known) /\ Cardinality(known) \in Nat
       /\ Cardinality(known) <= Cardinality(held) + Cardinality(read)
  BY <1>5, <1>8, <1>9, <1>10
<1>12. /\ IsFiniteSet(known \cup coming) /\ Cardinality(known \cup coming) \in Nat
       /\ Cardinality(known \cup coming) <= Cardinality(known) + Cardinality(coming)
  BY <1>5, <1>9, <1>11
<1>13. Cardinality(read) \in Nat /\ Cardinality(coming) \in Nat
  BY <1>5, FS_CardinalityType
<1>14. Cardinality(known \cup coming) < Cardinality(Ids)
  BY <1>3, <1>5, <1>8, <1>11, <1>12, <1>13, LicenseAssumption
<1>15. Used = known \cup coming
  BY <1>1, <1>2, <1>7, <1>10 DEF Used
<1>16. ~(Ids \subseteq Used)
  BY <1>3, <1>12, <1>14, <1>15, FS_Subset
<1>17. QED
  BY <1>16 DEF NewId

(***************************************************************************)
(* What a task forgets when it ends.                                       *)
(***************************************************************************)
LEMMA EndFacts ==
    ASSUME TypeOK, NEW t \in Tasks, End(t)
    PROVE  /\ pc' \in [Tasks -> Pcs] /\ job' \in [Tasks -> Jobs]
           /\ seen' \in [Tasks -> Ids \cup {0}] /\ taken' \in [Tasks -> Ids \cup {0}]
           /\ reply' \in [Tasks -> Replies]
           /\ pc'[t] = "idle" /\ seen'[t] = 0 /\ taken'[t] = 0 /\ ~reply'[t].gone
           /\ \A u \in Tasks \ {t} :
                  /\ pc'[u] = pc[u] /\ seen'[u] = seen[u] /\ taken'[u] = taken[u]
                  /\ reply'[u] = reply[u]
  BY DEF TypeOK, End, Goes, Pcs, Jobs, Replies, NoReply, Statuses

(***************************************************************************)
(* What is unknown is no activation.                                       *)
(***************************************************************************)
LEMMA ZeroFacts ==
    ASSUME TypeOK
    PROVE  /\ 0 \notin Ids /\ 0 \notin live /\ 0 \notin excused
           /\ rec.act \in Ids \cup {0} /\ rec.removed \in BOOLEAN
           /\ rec # NoRec => rec \in Recs /\ rec.act \in Ids
           /\ rec.removed => rec # NoRec
<1>1. /\ 0 \notin Ids /\ 0 \notin live /\ 0 \notin excused
  BY LicenseAssumption DEF TypeOK
<1>2. CASE rec = NoRec
  BY <1>1, <1>2 DEF NoRec
<1>3. CASE rec \in Recs
  BY <1>1, <1>3 DEF Recs, NoRec
<1>4. QED
  BY <1>1, <1>2, <1>3 DEF TypeOK

-----------------------------------------------------------------------------
(* The steps that change neither the seats nor the activation that is      *)
(* recorded.                                                               *)

(***************************************************************************)
(* Other tasks are as they were, and this one has kept or forgotten what   *)
(* it had read.                                                            *)
(***************************************************************************)
LEMMA OthersStay ==
    ASSUME IInv, NEW t \in Tasks, TypeOK', UNCHANGED live,
           UNCHANGED rec \/ (rec'.act = rec.act /\ RemovedIsTrue'),
           excused \subseteq excused',
           \A u \in Tasks \ {t} :
               /\ pc'[u] = pc[u] /\ seen'[u] = seen[u] /\ taken'[u] = taken[u]
               /\ reply'[u] = reply[u],
           taken'[t] = taken[t] \/ (taken'[t] = 0 /\ taken[t] \notin live \ excused'),
           seen'[t] \in {seen[t], 0, rec.act},
           Fits(t)', LeavesNone(t)'
    PROVE  IInv'
<1>1. RemovedIsTrue' /\ rec'.act = rec.act
  BY DEF IInv, RemovedIsTrue
<1>2. OrphansHaveACause'
  BY <1>1 DEF IInv, OrphansHaveACause, Orphans
<1>3. ASSUME NEW u \in Tasks PROVE Fits(u)' /\ LeavesNone(u)'
  <2>1. CASE u = t
    BY <2>1
  <2>2. CASE u # t
    BY <1>1, <2>2 DEF IInv, TaskInv, Fits, LeavesNone, Gone
  <2>3. QED
    BY <2>1, <2>2
<1>4. ASSUME NEW u \in Tasks PROVE IsNews(u)'
  <2>1. CASE taken'[u] = 0
    BY <2>1 DEF IsNews
  <2>2. CASE taken'[u] # 0
    <3>1. taken'[u] = taken[u] /\ IsNews(u)
      BY <2>2 DEF IInv, TaskInv
    <3>2. ASSUME NEW w \in Tasks
          PROVE  taken'[u] # seen'[w] /\ (w # u => taken'[u] # taken'[w])
      BY <2>2, <3>1, <3>2 DEF IsNews
    <3>3. QED
      BY <1>1, <2>2, <3>1, <3>2 DEF IsNews
  <2>3. QED
    BY <2>1, <2>2
<1>5. QED
  BY <1>1, <1>2, <1>3, <1>4 DEF IInv, TaskInv

(***************************************************************************)
(* A task starts.                                                          *)
(***************************************************************************)
LEMMA StartStep ==
    ASSUME IInv, NEW t \in Tasks, NEW what \in Jobs, NEW place \in Pcs, Start(t, what, place),
           troubles' \in 0 .. MaxTroubles,
           place \in {"validate", "free"} => rec # NoRec,
           place = "activate" => rec = NoRec,
           place = "clear" => rec.removed,
           place \notin {"idle", "validateKey", "judge", "record"}
    PROVE  IInv'
<1>1. TypeOK'
  BY ZeroFacts DEF IInv, TypeOK, Start, Goes, service, home
<1>2. /\ UNCHANGED <<live, rec, excused, taken, reply>>
      /\ pc[t] = "idle" /\ pc'[t] = place /\ seen'[t] = rec.act
      /\ \A u \in Tasks \ {t} : pc'[u] = pc[u] /\ seen'[u] = seen[u]
  BY DEF IInv, TypeOK, Start, Goes, service, home
<1>3. taken[t] = 0 /\ ~reply[t].gone
  BY <1>2 DEF IInv, TaskInv, Fits
<1>4. Fits(t)'
  BY <1>2, <1>3, ZeroFacts DEF Fits, IInv
<1>5. LeavesNone(t)'
  BY <1>2, <1>3, ZeroFacts DEF LeavesNone, Gone, IInv, RemovedIsTrue, NoRec
<1>6. QED
  BY <1>1, <1>2, <1>3, <1>4, <1>5, OthersStay

(***************************************************************************)
(* A server starts a task on boot, or at a ping.                           *)
(***************************************************************************)
LEMMA BootStep == ASSUME IInv, NEW t \in Tasks, Boot(t) PROVE IInv'
<1>1. troubles' \in 0 .. MaxTroubles
  BY DEF IInv, TypeOK, Boot, EnvActivate, Reactivate, RefreshIfStale
<1>2. CASE EnvActivate(t)
  BY <1>1, <1>2, StartStep DEF EnvActivate, Jobs, Pcs
<1>3. CASE Reactivate(t)
  BY <1>1, <1>3, StartStep DEF Reactivate, Jobs, Pcs
<1>4. CASE RefreshIfStale(t)
  BY <1>1, <1>4, StartStep DEF RefreshIfStale, Jobs, Pcs
<1>5. QED
  BY <1>2, <1>3, <1>4 DEF Boot

(***************************************************************************)
(* The command line starts a task.                                         *)
(***************************************************************************)
LEMMA CommandStep ==
    ASSUME IInv, NEW t \in Tasks, CliActivate(t) \/ CliLicense(t) \/ Deactivate(t)
    PROVE  IInv'
<1>1. troubles' \in 0 .. MaxTroubles
  BY LicenseAssumption DEF IInv, TypeOK, CliActivate, CliLicense, Deactivate, Trouble
<1>2. CASE CliActivate(t)
  <2>1. CASE rec = NoRec
    BY <1>1, <1>2, <2>1, StartStep DEF CliActivate, Jobs, Pcs
  <2>2. CASE rec # NoRec
    BY <1>1, <1>2, <2>2, StartStep DEF CliActivate, Jobs, Pcs
  <2>3. QED
    BY <2>1, <2>2
<1>3. CASE CliLicense(t)
  BY <1>1, <1>3, StartStep DEF CliLicense, Jobs, Pcs
<1>4. CASE Deactivate(t)
  <2>1. CASE rec.removed
    BY <1>1, <1>4, <2>1, StartStep DEF Deactivate, Jobs, Pcs
  <2>2. CASE ~rec.removed
    BY <1>1, <1>4, <2>2, StartStep DEF Deactivate, Jobs, Pcs
  <2>3. QED
    BY <2>1, <2>2
<1>5. QED
  BY <1>2, <1>3, <1>4

(***************************************************************************)
(* A task whose request has failed ends; the seat on its way to it has now *)
(* been lost for a reason.                                                 *)
(***************************************************************************)
LEMMA EndStep ==
    ASSUME IInv, NEW t \in Tasks, End(t), UNCHANGED <<status, live, rec>>,
           marker' \in BOOLEAN, troubles' \in 0 .. MaxTroubles,
           excused' = (excused \cup {taken[t]}) \cap live \/ (taken[t] = 0 /\ excused' = excused)
    PROVE  IInv'
<1>1. TypeOK'
  BY EndFacts DEF IInv, TypeOK
<1>2. excused \subseteq excused' /\ taken[t] \notin live \ excused'
  BY ZeroFacts DEF IInv, TypeOK
<1>3. Fits(t)' /\ LeavesNone(t)'
  BY EndFacts DEF IInv, Fits, LeavesNone
<1>4. /\ seen'[t] = 0 /\ taken'[t] = 0
      /\ \A u \in Tasks \ {t} :
             /\ pc'[u] = pc[u] /\ seen'[u] = seen[u] /\ taken'[u] = taken[u]
             /\ reply'[u] = reply[u]
  BY EndFacts DEF IInv
<1>5. QED
  BY <1>1, <1>2, <1>3, <1>4, OthersStay

(***************************************************************************)
(* A request or its answer is lost: a seat that was asked to be given up may*)
(* stay, for this reason.                                                  *)
(***************************************************************************)
LEMMA RequestFailsStep == ASSUME IInv, NEW t \in Tasks, RequestFails(t) PROVE IInv'
<1>1. troubles' \in 0 .. MaxTroubles /\ UNCHANGED <<status, live>>
  BY LicenseAssumption DEF IInv, TypeOK, RequestFails, Trouble, service
<1>2. CASE Fails(t) /\ excused' = (excused \cup {taken[t]}) \cap live
  BY <1>1, <1>2, EndStep DEF Fails, Notes, IInv, TypeOK
<1>3. CASE /\ pc[t] = "free"
           /\ Goes(t, "clear")
           /\ excused' = (excused \cup {seen[t]}) \cap live
           /\ UNCHANGED <<home, mind>>
  <2>1. TypeOK'
    BY <1>1, <1>3 DEF IInv, TypeOK, Goes, Pcs, home, mind
  <2>2. /\ UNCHANGED <<rec, seen, reply, taken>> /\ excused \subseteq excused'
        /\ pc'[t] = "clear" /\ \A u \in Tasks \ {t} : pc'[u] = pc[u]
    BY <1>3 DEF IInv, TypeOK, Goes, Pcs, home, mind
  <2>3. Fits(t)'
    BY <1>3, <2>2 DEF IInv, TaskInv, Fits
  <2>4. LeavesNone(t)'
    BY <1>1, <1>3, <2>2 DEF IInv, TaskInv, Fits, LeavesNone, Gone
  <2>5. QED
    BY <1>1, <2>1, <2>2, <2>3, <2>4, OthersStay
<1>4. QED
  BY <1>2, <1>3 DEF RequestFails

(***************************************************************************)
(* A process ends: its task loses the seat on its way to it.               *)
(***************************************************************************)
LEMMA CrashStep == ASSUME IInv, NEW t \in Tasks, Crash(t) PROVE IInv'
<1>1. troubles' \in 0 .. MaxTroubles /\ UNCHANGED <<status, live, rec, marker>>
  BY LicenseAssumption DEF IInv, TypeOK, Crash, Trouble, service, home
<1>2. QED
  BY <1>1, EndStep DEF Crash, IInv, TypeOK

(***************************************************************************)
(* The service judges what a task has read.                                *)
(***************************************************************************)
LEMMA ValidateStep == ASSUME IInv, NEW t \in Tasks, Validate(t) PROVE IInv'
<1>1. /\ UNCHANGED <<status, live, rec, marker, job, seen, taken, troubles, excused>>
      /\ pc[t] \in {"validate", "validateKey"} /\ pc'[t] \in {"validateKey", "judge"}
      /\ \A u \in Tasks \ {t} : pc'[u] = pc[u] /\ reply'[u] = reply[u]
      /\ reply' \in [Tasks -> Replies] /\ pc' \in [Tasks -> Pcs]
  <2>1. UNCHANGED <<status, live, rec, marker, job, seen, taken, troubles, excused>>
        /\ pc[t] \in {"validate", "validateKey"}
    BY DEF Validate, service, home
  <2>2. PICK place \in {"validateKey", "judge"} : pc' = [pc EXCEPT ![t] = place]
    BY DEF Validate, Goes
  <2>3. PICK verdict \in Replies : reply' = [reply EXCEPT ![t] = verdict]
    <3>1. \A gone \in BOOLEAN : [status |-> status, gone |-> gone] \in Replies
      BY DEF IInv, TypeOK, Replies
    <3>2. reply = [reply EXCEPT ![t] = reply[t]] /\ reply[t] \in Replies
      BY DEF IInv, TypeOK
    <3>3. QED
      BY <3>1, <3>2 DEF Validate
  <2>4. QED
    BY <2>1, <2>2, <2>3 DEF IInv, TypeOK, Pcs
<1>2. TypeOK'
  BY <1>1 DEF IInv, TypeOK
<1>3. reply'[t].gone => pc'[t] = "judge"
  BY DEF Validate, Goes, IInv, TypeOK, Replies, TaskInv, Fits
<1>4. Fits(t)'
  BY <1>1, <1>3 DEF IInv, TaskInv, Fits
<1>5. pc'[t] = "validateKey" \/ reply'[t].gone => seen[t] \notin live
  BY DEF Validate, Goes, IInv, TypeOK, Replies, TaskInv, LeavesNone, Gone
<1>6. LeavesNone(t)'
  BY <1>1, <1>5 DEF LeavesNone, Gone
<1>7. QED
  BY <1>1, <1>2, <1>4, <1>6, OthersStay

(***************************************************************************)
(* A verdict is written to the record it is about.                         *)
(***************************************************************************)
LEMMA JudgeStep == ASSUME IInv, NEW t \in Tasks, Judge(t) PROVE IInv'
<1>1. PICK removed \in BOOLEAN :
          /\ AfterRefresh(t, removed)
          /\ removed => Gone(t) \/ rec.act # seen[t]
  BY ZeroFacts DEF Judge, IInv, TypeOK, TaskInv, LeavesNone, Replies
<1>2. /\ UNCHANGED <<status, live, troubles, excused>>
      /\ pc[t] = "judge" /\ taken[t] = 0 /\ seen[t] \in Ids
  BY DEF Judge, service, IInv, TaskInv, Fits
<1>3. /\ rec' \in Recs \cup {NoRec} /\ marker' \in BOOLEAN
      /\ UNCHANGED rec \/ (rec'.act = rec.act /\ RemovedIsTrue')
  <2>1. CASE rec.act = seen[t]
    <3>1. rec' = Verdict(t) /\ ~marker' /\ marker' \in BOOLEAN
      BY <2>1 DEF Judge
    <3>2. reply[t].status \in Statuses /\ reply[t].gone \in BOOLEAN
      BY DEF IInv, TypeOK, Replies
    <3>3. rec' \in Recs /\ rec'.act = seen[t] /\ rec'.removed = reply[t].gone
      BY <1>2, <3>1, <3>2 DEF Verdict, Recs, Ages
    <3>4. RemovedIsTrue'
      BY <1>2, <3>3 DEF RemovedIsTrue, IInv, TaskInv, LeavesNone, Gone
    <3>5. QED
      BY <2>1, <3>1, <3>3, <3>4
  <2>2. CASE rec.act # seen[t]
    BY <2>2 DEF Judge, home, IInv, TypeOK
  <2>3. QED
    BY <2>1, <2>2
<1>4. CASE End(t)
  <2>1. TypeOK'
    BY <1>2, <1>3, <1>4, EndFacts DEF IInv, TypeOK
  <2>2. Fits(t)' /\ LeavesNone(t)'
    BY <1>4, EndFacts DEF IInv, Fits, LeavesNone
  <2>3. /\ seen'[t] = 0 /\ taken'[t] = 0
        /\ \A u \in Tasks \ {t} :
               /\ pc'[u] = pc[u] /\ seen'[u] = seen[u] /\ taken'[u] = taken[u]
               /\ reply'[u] = reply[u]
    BY <1>4, EndFacts DEF IInv
  <2>4. QED
    BY <1>2, <1>3, <2>1, <2>2, <2>3, OthersStay
<1>5. CASE removed /\ Goes(t, "activate") /\ reply' = [reply EXCEPT ![t] = NoReply]
           /\ UNCHANGED <<job, seen, taken>>
  <2>1. NoReply \in Replies /\ ~NoReply.gone
    BY DEF NoReply, Replies, Statuses
  <2>2. /\ pc' = [pc EXCEPT ![t] = "activate"] /\ pc' \in [Tasks -> Pcs]
        /\ reply' \in [Tasks -> Replies] /\ pc'[t] = "activate" /\ ~reply'[t].gone
        /\ \A u \in Tasks \ {t} : pc'[u] = pc[u] /\ reply'[u] = reply[u]
    BY <1>5, <2>1 DEF Goes, IInv, TypeOK, Pcs
  <2>3. TypeOK'
    BY <1>2, <1>3, <1>5, <2>2 DEF IInv, TypeOK
  <2>4. Fits(t)' /\ LeavesNone(t)'
    BY <1>1, <1>2, <1>3, <1>5, <2>2 DEF Fits, LeavesNone, Gone
  <2>5. QED
    BY <1>2, <1>3, <1>5, <2>2, <2>3, <2>4, OthersStay
<1>6. QED
  BY <1>1, <1>4, <1>5 DEF AfterRefresh

-----------------------------------------------------------------------------
(* The steps that change the record. *)

(***************************************************************************)
(* A task replaces or removes the record, and ends.  What the record named *)
(* holds no seat, or its loss has a reason; what it names now is nothing,  *)
(* or the activation that was on its way to the task.                      *)
(***************************************************************************)
LEMMA ReplaceStep ==
    ASSUME IInv, NEW t \in Tasks, End(t),
           UNCHANGED <<status, live, troubles>>,
           rec' \in Recs \cup {NoRec}, ~rec'.removed, marker' \in BOOLEAN,
           excused' = (excused \cup CutOff(t)) \cap live,
           rec.act \notin live \ excused',
           rec'.act = taken[t],
           pc[t] \in {"record", "clear"}
    PROVE  IInv'
<1>1. TypeOK' /\ excused \subseteq excused'
  BY EndFacts DEF IInv, TypeOK
<1>2. RemovedIsTrue'
  BY DEF RemovedIsTrue
<1>3. OrphansHaveACause'
  <2>1. ASSUME NEW a \in live, a # taken[t], \A u \in Tasks : taken'[u] # a
        PROVE  a \in excused'
    <3>1. \A u \in Tasks : taken[u] # a
      BY <2>1, EndFacts DEF IInv
    <3>2. CASE a = rec.act
      BY <3>2
    <3>3. CASE a # rec.act
      BY <1>1, <3>1, <3>3 DEF IInv, OrphansHaveACause, Orphans
    <3>4. QED
      BY <3>2, <3>3
  <2>2. QED
    BY <2>1 DEF OrphansHaveACause, Orphans
<1>4. ASSUME NEW u \in Tasks PROVE Fits(u)' /\ LeavesNone(u)' /\ IsNews(u)'
  <2>1. CASE u = t
    BY <2>1, EndFacts DEF IInv, Fits, LeavesNone, IsNews
  <2>2. CASE u # t
    <3>1. /\ pc'[u] = pc[u] /\ seen'[u] = seen[u] /\ taken'[u] = taken[u]
          /\ reply'[u] = reply[u]
      BY <2>2, EndFacts DEF IInv
    <3>2. Fits(u)'
      BY <3>1 DEF IInv, TaskInv, Fits
    <3>3. seen[u] \notin live \/ rec'.act # seen[u]
      BY ZeroFacts DEF IInv, TaskInv, IsNews
    <3>4. LeavesNone(u)'
      BY <1>1, <3>1, <3>3 DEF IInv, TaskInv, LeavesNone, Gone
    <3>5. CASE taken[u] = 0
      <4>1. taken'[u] = 0
        BY <3>1, <3>5
      <4>2. IsNews(u)'
        BY <4>1 DEF IsNews
      <4>3. QED
        BY <3>2, <3>4, <4>2
    <3>6. CASE taken[u] # 0
      <4>1. taken[u] # taken[t] /\ IsNews(u)
        BY <2>2, <3>6 DEF IInv, TaskInv, IsNews
      <4>2. ASSUME NEW w \in Tasks
            PROVE  taken[u] # seen'[w] /\ (w # u => taken[u] # taken'[w])
        BY <3>6, <4>1, EndFacts DEF IInv, IsNews
      <4>3. QED
        BY <3>1, <3>2, <3>4, <4>1, <4>2 DEF IsNews
    <3>7. QED
      BY <3>2, <3>4, <3>5, <3>6
  <2>3. QED
    BY <2>1, <2>2
<1>5. QED
  BY <1>1, <1>2, <1>3, <1>4 DEF IInv, TaskInv

(***************************************************************************)
(* A new seat replaces the record.                                         *)
(***************************************************************************)
LEMMA RecordStep == ASSUME IInv, NEW t \in Tasks, Record(t) PROVE IInv'
<1>1. pc[t] = "record" /\ taken[t] \in Ids
  BY DEF Record, IInv, TypeOK, TaskInv, Fits
<1>2. rec' \in Recs /\ ~rec'.removed /\ rec'.act = taken[t]
  BY <1>1 DEF Record, Recs, Statuses, Ages
<1>3. UNCHANGED <<status, live, troubles>> /\ marker' = FALSE /\ End(t)
      /\ excused' = (excused \cup CutOff(t)) \cap live
  BY DEF Record, service
<1>4. rec.act \notin live \ excused'
  BY <1>1, <1>3 DEF CutOff, IInv, TaskInv, LeavesNone, Gone
<1>5. QED
  BY <1>1, <1>2, <1>3, <1>4, ReplaceStep

(***************************************************************************)
(* A deactivation removes the record.                                      *)
(***************************************************************************)
LEMMA ClearStep == ASSUME IInv, NEW t \in Tasks, Clear(t) PROVE IInv'
<1>1. pc[t] = "clear" /\ taken[t] = 0
  BY DEF Clear, IInv, TaskInv, Fits
<1>2. rec' = NoRec /\ ~rec'.removed /\ rec'.act = taken[t]
  BY <1>1 DEF Clear, NoRec
<1>3. UNCHANGED <<status, live, troubles>> /\ marker' = FALSE /\ End(t)
      /\ excused' = (excused \cup CutOff(t)) \cap live
  BY DEF Clear, service
<1>4. rec.act \notin live \ excused'
  BY <1>1, <1>3 DEF CutOff, IInv, TaskInv, LeavesNone, Gone
<1>5. QED
  BY <1>1, <1>2, <1>3, <1>4, ReplaceStep

(***************************************************************************)
(* Time changes neither the activation nor what is said of it.             *)
(***************************************************************************)
LEMMA AgeStep == ASSUME IInv, Age PROVE IInv'
<1>1. PICK age \in Ages : rec' = [rec EXCEPT !.age = age] /\ rec \in Recs
  BY ZeroFacts DEF Age, Ages, IInv
<1>2. rec' \in Recs /\ rec'.act = rec.act /\ rec'.removed = rec.removed
  BY <1>1 DEF Recs
<1>3. UNCHANGED <<status, live, marker, pc, job, seen, reply, taken, troubles, excused>>
  BY DEF Age, service, mind
<1>4. TypeOK'
  BY <1>2, <1>3 DEF IInv, TypeOK
<1>5. RemovedIsTrue' /\ OrphansHaveACause'
  BY <1>2, <1>3 DEF IInv, RemovedIsTrue, OrphansHaveACause, Orphans
<1>6. TaskInv'
  BY <1>2, <1>3 DEF IInv, TaskInv, Fits, LeavesNone, Gone, IsNews
<1>7. QED
  BY <1>4, <1>5, <1>6 DEF IInv

-----------------------------------------------------------------------------
(* The steps that change the seats. *)

(***************************************************************************)
(* A seat is given up.                                                     *)
(***************************************************************************)
LEMMA SeatsLeave ==
    ASSUME IInv, TypeOK', live' \subseteq live, excused' = excused \cap live',
           UNCHANGED <<rec, seen, reply, taken>>,
           \A u \in Tasks :
               \/ pc'[u] = pc[u]
               \/ pc[u] = "free" /\ pc'[u] = "clear" /\ seen[u] \notin live'
    PROVE  IInv'
<1>1. RemovedIsTrue'
  BY DEF IInv, RemovedIsTrue
<1>2. OrphansHaveACause'
  BY DEF IInv, OrphansHaveACause, Orphans
<1>3. ASSUME NEW u \in Tasks PROVE Fits(u)'
  BY DEF IInv, TaskInv, Fits
<1>4. ASSUME NEW u \in Tasks PROVE IsNews(u)'
  BY DEF IInv, TaskInv, IsNews
<1>5. ASSUME NEW u \in Tasks PROVE LeavesNone(u)'
  <2>1. CASE pc'[u] = pc[u]
    BY <2>1 DEF IInv, TaskInv, LeavesNone, Gone
  <2>2. CASE pc[u] = "free" /\ pc'[u] = "clear" /\ seen[u] \notin live'
    BY <2>2 DEF IInv, TaskInv, Fits, LeavesNone, Gone
  <2>3. QED
    BY <2>1, <2>2
<1>6. QED
  BY <1>1, <1>2, <1>3, <1>4, <1>5 DEF IInv, TaskInv

(***************************************************************************)
(* A deactivation gives up the seat it has read of.                        *)
(***************************************************************************)
LEMMA FreeSeatStep == ASSUME IInv, NEW t \in Tasks, FreeSeat(t) PROVE IInv'
<1>1. /\ UNCHANGED <<status, rec, marker, job, seen, reply, taken, troubles>>
      /\ pc[t] = "free" /\ pc' = [pc EXCEPT ![t] = "clear"]
      /\ live' = live \ {seen[t]} /\ excused' = excused \cap live'
  BY DEF FreeSeat, Goes, home, mind
<1>2. TypeOK'
  BY <1>1 DEF IInv, TypeOK, Pcs
<1>3. \A u \in Tasks :
          \/ pc'[u] = pc[u]
          \/ pc[u] = "free" /\ pc'[u] = "clear" /\ seen[u] \notin live'
  BY <1>1 DEF IInv, TypeOK
<1>4. QED
  BY <1>1, <1>2, <1>3, SeatsLeave

(***************************************************************************)
(* A seat is removed in the portal.                                        *)
(***************************************************************************)
LEMMA PortalRemoveStep == ASSUME IInv, PortalRemove PROVE IInv'
<1>1. /\ UNCHANGED <<status, rec, marker, pc, job, seen, reply, taken>>
      /\ live' \subseteq live /\ excused' = excused \cap live'
      /\ troubles' \in 0 .. MaxTroubles
  BY LicenseAssumption DEF PortalRemove, Trouble, home, mind, IInv, TypeOK
<1>2. TypeOK'
  BY <1>1 DEF IInv, TypeOK
<1>3. QED
  BY <1>1, <1>2, SeatsLeave

(***************************************************************************)
(* A new seat is taken: nobody has ever heard of it.                       *)
(***************************************************************************)
LEMMA TakeSeatStep == ASSUME IInv, NEW t \in Tasks, TakeSeat(t) PROVE IInv'
<1>1. pc[t] = "activate" /\ taken[t] = 0 /\ UNCHANGED <<status, troubles, excused>>
  BY DEF TakeSeat, IInv, TaskInv, Fits
<1>2. CASE ~(Room /\ status = "granted")
  <2>1. Fails(t) /\ UNCHANGED live
    BY <1>2 DEF TakeSeat
  <2>2. UNCHANGED rec /\ marker' \in BOOLEAN /\ End(t)
    BY <2>1 DEF Fails, Notes, IInv, TypeOK
  <2>3. troubles' \in 0 .. MaxTroubles
    BY <1>1 DEF IInv, TypeOK
  <2>4. QED
    BY <1>1, <2>1, <2>2, <2>3, EndStep
<1>3. CASE Room /\ status = "granted"
  <2>1. PICK new : new = NewId
    OBVIOUS
  <2>2. /\ new \in Ids /\ new \notin live /\ new # rec.act
        /\ \A u \in Tasks : new # seen[u] /\ new # taken[u]
    BY <1>3, <2>1, NewIdFacts DEF IInv, Used
  <2>3. new # 0
    BY <2>2, ZeroFacts DEF IInv
  <2>4. /\ live' = live \cup {new} /\ taken' = [taken EXCEPT ![t] = new]
        /\ pc' = [pc EXCEPT ![t] = "record"]
        /\ UNCHANGED <<rec, marker, job, seen, reply>>
    BY <1>3, <2>1 DEF TakeSeat, Goes, home
  <2>5. /\ taken'[t] = new /\ pc'[t] = "record"
        /\ \A u \in Tasks \ {t} : taken'[u] = taken[u] /\ pc'[u] = pc[u]
    BY <2>4 DEF IInv, TypeOK
  <2>6. TypeOK'
    BY <1>1, <2>2, <2>4 DEF IInv, TypeOK, Pcs
  <2>7. RemovedIsTrue'
    BY <2>2, <2>4 DEF IInv, RemovedIsTrue
  <2>8. OrphansHaveACause'
    <3>1. ASSUME NEW a \in live', rec.act # a, \A u \in Tasks : taken'[u] # a
          PROVE  a \in excused
      <4>1. a \in live /\ \A u \in Tasks : taken[u] # a
        BY <1>1, <2>3, <2>4, <2>5, <3>1, ZeroFacts DEF IInv
      <4>2. QED
        BY <3>1, <4>1 DEF IInv, OrphansHaveACause, Orphans
    <3>2. QED
      BY <1>1, <2>4, <3>1 DEF OrphansHaveACause, Orphans
  <2>9. ASSUME NEW u \in Tasks PROVE Fits(u)' /\ LeavesNone(u)' /\ IsNews(u)'
    <3>1. seen[u] \in live' <=> seen[u] \in live
      BY <2>2, <2>4
    <3>2. CASE u = t
      <4>1. Fits(u)'
        BY <1>1, <2>3, <2>4, <2>5, <3>2 DEF IInv, TaskInv, Fits
      <4>2. LeavesNone(u)'
        BY <1>1, <2>4, <2>5, <3>1, <3>2 DEF IInv, TaskInv, Fits, LeavesNone, Gone
      <4>3. IsNews(u)'
        BY <2>2, <2>4, <2>5, <3>2 DEF IsNews
      <4>4. QED
        BY <4>1, <4>2, <4>3
    <3>3. CASE u # t
      <4>1. Fits(u)'
        BY <2>4, <2>5, <3>3 DEF IInv, TaskInv, Fits
      <4>2. LeavesNone(u)'
        BY <1>1, <2>4, <2>5, <3>1, <3>3 DEF IInv, TaskInv, LeavesNone, Gone
      <4>3. IsNews(u)
        BY DEF IInv, TaskInv
      <4>4. IsNews(u)'
        BY <2>2, <2>4, <2>5, <3>3, <4>3 DEF IsNews
      <4>5. QED
        BY <4>1, <4>2, <4>4
    <3>4. QED
      BY <3>2, <3>3
  <2>10. QED
    BY <2>6, <2>7, <2>8, <2>9 DEF IInv, TaskInv
<1>4. QED
  BY <1>2, <1>3

-----------------------------------------------------------------------------
(* The theorems. *)

(***************************************************************************)
(* The invariant holds at first.                                           *)
(***************************************************************************)
LEMMA InitInv == Init => IInv
<1>1. SUFFICES ASSUME Init PROVE IInv
  OBVIOUS
<1>2. TypeOK
  <2>1. NoReply \in Replies /\ status \in Statuses
    BY <1>1 DEF Init, NoReply, Replies, Statuses
  <2>2. reply \in [Tasks -> Replies]
    BY <1>1, <2>1 DEF Init
  <2>3. /\ pc \in [Tasks -> Pcs] /\ job \in [Tasks -> Jobs]
        /\ seen \in [Tasks -> Ids \cup {0}] /\ taken \in [Tasks -> Ids \cup {0}]
    BY <1>1 DEF Init, Jobs, Pcs
  <2>4. live = {} /\ excused = {} /\ rec = NoRec /\ troubles \in 0 .. MaxTroubles
    BY <1>1, LicenseAssumption DEF Init
  <2>5. marker \in BOOLEAN
    BY <1>1, Zenon DEF Init
  <2>6. QED
    BY <2>1, <2>2, <2>3, <2>4, <2>5 DEF TypeOK
<1>3. RemovedIsTrue /\ OrphansHaveACause
  BY <1>1 DEF Init, RemovedIsTrue, OrphansHaveACause, Orphans, NoRec
<1>4. TaskInv
  BY <1>1 DEF Init, TaskInv, Fits, IsNews, LeavesNone, NoReply
<1>5. QED
  BY <1>2, <1>3, <1>4 DEF IInv

(***************************************************************************)
(* A revocation, a marker that lapses, and a step of nothing.              *)
(***************************************************************************)
LEMMA QuietStep == ASSUME IInv, UNCHANGED vars \/ Revoke \/ MarkerPasses PROVE IInv'
<1>1. /\ UNCHANGED <<live, rec, pc, job, seen, reply, taken, troubles, excused>>
      /\ status' \in Statuses /\ marker' \in BOOLEAN
  BY DEF vars, service, home, mind, Revoke, MarkerPasses, IInv, TypeOK, Statuses
<1>2. TypeOK'
  BY <1>1 DEF IInv, TypeOK
<1>3. RemovedIsTrue' /\ OrphansHaveACause'
  BY <1>1 DEF IInv, RemovedIsTrue, OrphansHaveACause, Orphans
<1>4. TaskInv'
  BY <1>1 DEF IInv, TaskInv, Fits, IsNews, LeavesNone, Gone
<1>5. QED
  BY <1>2, <1>3, <1>4 DEF IInv

(***************************************************************************)
(* Every step keeps the invariant.                                         *)
(***************************************************************************)
LEMMA NextKeepsInv == IInv /\ [Next]_vars => IInv'
<1>1. SUFFICES ASSUME IInv, [Next]_vars PROVE IInv'
  OBVIOUS
<1>2. CASE UNCHANGED vars \/ Revoke \/ MarkerPasses
  BY <1>1, <1>2, QuietStep
<1>3. ASSUME NEW t \in Servers, Boot(t) PROVE IInv'
  BY <1>1, <1>3, BootStep DEF Tasks
<1>4. ASSUME NEW t \in Commands, CliActivate(t) \/ CliLicense(t) \/ Deactivate(t)
      PROVE  IInv'
  BY <1>1, <1>4, CommandStep DEF Tasks
<1>5. ASSUME NEW t \in Tasks, Proceed(t) \/ RequestFails(t) \/ Crash(t) PROVE IInv'
  BY <1>1, <1>5, ValidateStep, TakeSeatStep, FreeSeatStep, JudgeStep, RecordStep, ClearStep,
     RequestFailsStep, CrashStep DEF Proceed
<1>6. CASE PortalRemove
  BY <1>1, <1>6, PortalRemoveStep
<1>7. CASE Age
  BY <1>1, <1>7, AgeStep
<1>8. QED
  BY <1>1, <1>2, <1>3, <1>4, <1>5, <1>6, <1>7 DEF Next

(***************************************************************************)
(* The invariant always holds.                                             *)
(***************************************************************************)
LEMMA Inductive == Spec => []IInv
  BY InitInv, NextKeepsInv, PTL DEF Spec

(***************************************************************************)
(* No seat is lost without a reason, and a record that calls its           *)
(* activation removed is right.                                            *)
(***************************************************************************)
THEOREM SeatsAreAccountedFor == Spec => []LicenseInv
<1>1. IInv => LicenseInv
  BY DEF IInv, LicenseInv
<1>2. QED
  BY <1>1, Inductive, PTL

(***************************************************************************)
(* A record changes its activation only when it is cleared, or for the     *)
(* seat that the writing task has just been given.                         *)
(***************************************************************************)
THEOREM VerdictsReviveNothing == Spec => NeverRevived
<1>1. ASSUME IInv, [Next]_vars, rec'.act # rec.act
      PROVE  rec' = NoRec \/ \E t \in Tasks : rec'.act = taken[t]
  <2>1. ~UNCHANGED rec
    BY <1>1
  <2>2. ~Age
    <3>1. SUFFICES ASSUME Age PROVE FALSE
      OBVIOUS
    <3>2. PICK age : rec' = [rec EXCEPT !.age = age] /\ rec \in Recs
      BY <1>1, <3>1, ZeroFacts DEF Age, IInv
    <3>3. QED
      BY <1>1, <3>2 DEF Recs
  <2>3. \E t \in Tasks : Judge(t) \/ Record(t) \/ Clear(t)
    BY <1>1, <2>1, <2>2
       DEF Next, vars, home, Boot, EnvActivate, Reactivate, RefreshIfStale, Start, CliActivate,
           CliLicense, Deactivate, Proceed, Validate, TakeSeat, FreeSeat, RequestFails, Fails,
           Crash, PortalRemove, Revoke, MarkerPasses, Tasks
  <2>4. PICK t \in Tasks : Judge(t) \/ Record(t) \/ Clear(t)
    BY <2>3
  <2>5. ~Judge(t)
    BY <1>1 DEF Judge, Verdict, home
  <2>6. QED
    BY <2>4, <2>5 DEF Record, Clear
<1>2. IInv /\ [Next]_vars =>
          [rec'.act # rec.act => rec' = NoRec \/ \E t \in Tasks : rec'.act = taken[t]]_vars
  BY <1>1
<1>3. QED
  BY <1>2, Inductive, PTL DEF NeverRevived, Spec
=============================================================================
