-------------------------- MODULE TelemetryProofs --------------------------
(***************************************************************************)
(* Proofs about the two telemetry models, for every value of their         *)
(* constants.                                                              *)
(*                                                                         *)
(* SessionRecovery: a claimed snapshot never belongs to a running process, *)
(* no session is reported twice without a reason, and none is forgotten as *)
(* long as pids are not recycled.                                          *)
(*                                                                         *)
(* TelemetryOutbox: an event that was written is on disk, sent or given up *)
(* for a reason the code states, and an event reaches the endpoint twice   *)
(* only when the process that sent it could not learn of the answer.       *)
(***************************************************************************)
EXTENDS SessionRecovery, TelemetryOutbox, Integers, FiniteSetTheorems, SequenceTheorems,
        TLAPS

(***************************************************************************)
(* The inductive invariant.  First the types, without the counters.        *)
(***************************************************************************)
Types ==
    /\ session \in [Pids -> 0 .. MaxSessions]
    /\ usage \in [Pids -> BOOLEAN]
    /\ called \in [Pids -> BOOLEAN]
    /\ pc \in [Pids -> Places]
    /\ listed \in [Pids -> SUBSET Names]
    /\ claimed \in [Pids -> SUBSET Names]
    /\ file \in [Names -> 0 .. MaxSessions]
    /\ boots \in 0 .. MaxSessions
    /\ persisted \subseteq Sessions
    /\ rebuilt \in [Sessions -> Nat]

(***************************************************************************)
(* Sessions are numbered in the order of the boots, so they are told       *)
(* apart, and no snapshot is of a session still to come.                   *)
(***************************************************************************)
Numbered ==
    /\ \A p \in Pids : session[p] <= boots
    /\ \A p \in Pids : Running(p) => session[p] # 0
    /\ \A p, q \in Pids : session[p] = session[q] /\ session[p] # 0 => p = q
    /\ \A n \in Names : file[n] <= boots

Started == {"serving", "summing", "clearing", "closed"}

(***************************************************************************)
(* The snapshot of a running session is under its own name, and the        *)
(* startup of its process is over.                                         *)
(***************************************************************************)
RunningAtHome ==
    \A n \in Names, q \in Pids :
        file[n] # 0 /\ Running(q) /\ file[n] = session[q]
          => n = Snapshot(q) /\ pc[q] \in Started

RecoveryInv == Types /\ Numbered /\ RunningAtHome

(***************************************************************************)
(* With pids given out once, a name holds no other process's snapshot; a   *)
(* process that clears its name has written the summary or has nothing     *)
(* there; what a startup is about to delete has been reported.             *)
(***************************************************************************)
OwnName == \A p \in Pids : file[Snapshot(p)] # 0 => file[Snapshot(p)] = session[p]

CalledFirst ==
    \A p \in Pids : Running(p) /\ file[Snapshot(p)] # 0 => usage[p] /\ called[p]

ClearsSummarised ==
    \A p \in Pids : pc[p] = "clearing" => session[p] \in clean \/ file[Snapshot(p)] = 0

ClaimsAreOwn == \A p \in Pids : \A n \in claimed[p] : n[1] = p

Reported(s) == s \in withdrawn \/ rebuilt[s] > 0

DeletesReported ==
    \A p \in Pids : pc[p] = "releasing" =>
        \A n \in claimed[p] : file[n] # 0 => Reported(file[n])

MemoryInv == /\ OwnName /\ CalledFirst /\ ClearsSummarised /\ ClaimsAreOwn
             /\ DeletesReported /\ NoSessionForgotten


-----------------------------------------------------------------------------

(***************************************************************************)
(* Names are pairs, and the names a process claims are names.              *)
(***************************************************************************)
LEMMA NameFacts ==
    ASSUME NEW p \in Pids
    PROVE  /\ Snapshot(p) \in Names
           /\ \A n \in Names : /\ ClaimName(p, n) \in Names
                               /\ ClaimName(p, n)[1] = p
                               /\ Holder(n) \in Pids
                               /\ n = Snapshot(p) => Holder(n) = p /\ n[1] # p
           /\ \A q \in Pids : Snapshot(p) = Snapshot(q) => p = q
BY SessionAssumption DEF Snapshot, Names, ClaimName, Holder

(***************************************************************************)
(* The types hold when the behaviour begins.                               *)
(***************************************************************************)
LEMMA TypesInit == Init => Types
BY SessionAssumption DEF Init, Types, Places, Sessions

(***************************************************************************)
(* The types are kept by every step.                                       *)
(***************************************************************************)
LEMMA TypesStep ==
    ASSUME RecoveryInv, [Next]_vars
    PROVE  Types'
<1> USE DEF RecoveryInv, Types
<1>1. ASSUME UNCHANGED vars PROVE Types'
  BY <1>1 DEF vars, system, history
<1>2. ASSUME NEW p \in Pids, Boot(p) PROVE Types'
  BY <1>2, SessionAssumption DEF Boot, Places
<1>3. ASSUME NEW p \in Pids, List(p) PROVE Types'
  BY <1>3 DEF List, Places, history
<1>4. ASSUME NEW p \in Pids, Take(p) PROVE Types'
  BY <1>4, NameFacts DEF Take, Places, history
<1>5. ASSUME NEW p \in Pids, AllTaken(p) PROVE Types'
  BY <1>5 DEF AllTaken, Places, history
<1>6. ASSUME NEW p \in Pids, Report(p) PROVE Types'
  <2>1. \A s \in Sessions : Cardinality(Claimed(p, s)) \in Nat
    <3>1. IsFiniteSet(Names)
      <4>1. IsFiniteSet(Pids \cup {Unclaimed})
        BY SessionAssumption, FS_AddElement
      <4>2. QED
        BY <4>1, SessionAssumption, FS_Product DEF Names
    <3>2. \A s \in Sessions : Claimed(p, s) \subseteq Names
      BY DEF Claimed
    <3>3. QED
      BY <3>1, <3>2, FS_Subset, FS_CardinalityType
  <2>2. rebuilt' \in [Sessions -> Nat]
    BY <1>6, <2>1 DEF Report
  <2>3. QED
    BY <1>6, <2>2 DEF Report, Places
<1>7. ASSUME NEW p \in Pids, Release(p) PROVE Types'
  BY <1>7, SessionAssumption DEF Release, Places, history
<1>8. ASSUME NEW p \in Pids, RecordCall(p) PROVE Types'
  <2>1. session[p] \in Sessions
    BY <1>8 DEF RecordCall, Numbered, Running, Sessions
  <2>2. QED
    BY <1>8, <2>1, NameFacts DEF RecordCall, Places
<1>9. ASSUME NEW p \in Pids, Shutdown(p) PROVE Types'
  BY <1>9 DEF Shutdown, Places, history
<1>10. ASSUME NEW p \in Pids, Summarise(p) PROVE Types'
  BY <1>10 DEF Summarise, Places
<1>11. ASSUME NEW p \in Pids, Clear(p) PROVE Types'
  BY <1>11, SessionAssumption, NameFacts DEF Clear, Places, history
<1>12. ASSUME NEW p \in Pids, Exit(p) PROVE Types'
  BY <1>12 DEF Exit, Ended, Places, history
<1>13. ASSUME NEW p \in Pids, Die(p) PROVE Types'
  BY <1>13 DEF Die, Ended, Places
<1>14. QED
  BY <1>1, <1>2, <1>3, <1>4, <1>5, <1>6, <1>7, <1>8, <1>9, <1>10, <1>11, <1>12,
     <1>13 DEF Next

(***************************************************************************)
(* The numbering: only Boot numbers a session, and a snapshot is moved or  *)
(* made of a session that has its number.                                  *)
(***************************************************************************)
LEMMA NumberedStep ==
    ASSUME RecoveryInv, [Next]_vars
    PROVE  Numbered'
<1> USE DEF RecoveryInv, Types, Numbered, Running
<1>1. ASSUME NEW p \in Pids, Boot(p) PROVE Numbered'
  <2>1. session'[p] = boots' /\ boots' = boots + 1
    BY <1>1 DEF Boot
  <2>2. \A q \in Pids \ {p} : session'[q] = session[q] /\ pc'[q] = pc[q]
    BY <1>1 DEF Boot
  <2>3. UNCHANGED file
    BY <1>1 DEF Boot
  <2>4. QED
    BY <2>1, <2>2, <2>3
<1>2. ASSUME NEW p \in Pids, Take(p) PROVE Numbered'
  BY <1>2, NameFacts DEF Take, history
<1>3. ASSUME NEW p \in Pids, RecordCall(p) PROVE Numbered'
  BY <1>3, NameFacts DEF RecordCall
<1>4. ASSUME NEW p \in Pids, Release(p) PROVE Numbered'
  BY <1>4 DEF Release, history
<1>5. ASSUME NEW p \in Pids, Clear(p) PROVE Numbered'
  BY <1>5, NameFacts DEF Clear, history
<1>6. ASSUME NEW p \in Pids,
             List(p) \/ AllTaken(p) \/ Report(p) \/ Shutdown(p) \/ Summarise(p)
      PROVE  Numbered'
  BY <1>6 DEF List, AllTaken, Report, Shutdown, Summarise, history
<1>7. ASSUME NEW p \in Pids, Exit(p) \/ Die(p) PROVE Numbered'
  BY <1>7 DEF Exit, Die, Ended, history
<1>8. ASSUME UNCHANGED vars PROVE Numbered'
  BY <1>8 DEF vars, system, history
<1>9. QED
  BY <1>1, <1>2, <1>3, <1>4, <1>5, <1>6, <1>7, <1>8 DEF Next

(***************************************************************************)
(* What a startup may take is not the snapshot of a running session: that  *)
(* one is under the name of a process which runs and has started, and a    *)
(* startup has not.                                                        *)
(***************************************************************************)
LEMMA TakesTheDead ==
    ASSUME RecoveryInv, NEW p \in Pids, pc[p] = "taking",
           NEW n \in Names, Takeable(p, n), file[n] # 0,
           NEW q \in Pids, Running(q)
    PROVE  file[n] # session[q]
<1> SUFFICES ASSUME file[n] = session[q] PROVE FALSE
  OBVIOUS
<1>1. n = Snapshot(q) /\ pc[q] \in Started
  BY DEF RecoveryInv, RunningAtHome
<1>2. Holder(n) = q
  BY <1>1, NameFacts
<1>3. q = p
  BY <1>2 DEF Takeable
<1>4. QED
  BY <1>1, <1>3 DEF Started

(***************************************************************************)
(* Every step leaves the snapshot of a running session under its own name. *)
(***************************************************************************)
LEMMA RunningAtHomeStep ==
    ASSUME RecoveryInv, [Next]_vars
    PROVE  RunningAtHome'
<1> USE DEF RecoveryInv, Types, RunningAtHome, Running
<1>1. ASSUME NEW p \in Pids, Boot(p) PROVE RunningAtHome'
  <2> SUFFICES ASSUME NEW n \in Names, NEW q \in Pids,
                      file'[n] # 0, pc'[q] # "off", file'[n] = session'[q]
               PROVE  n = Snapshot(q) /\ pc'[q] \in Started
    BY DEF Snapshot
  <2>1. file'[n] = file[n] /\ file[n] <= boots
    BY <1>1 DEF Boot, Numbered
  <2>2. q # p
    BY <1>1, <2>1 DEF Boot
  <2>3. QED
    BY <1>1, <2>1, <2>2 DEF Boot
<1>2. ASSUME NEW p \in Pids, Take(p) PROVE RunningAtHome'
  <2> SUFFICES ASSUME NEW m \in Names, NEW q \in Pids,
                      file'[m] # 0, pc'[q] # "off", file'[m] = session'[q]
               PROVE  m = Snapshot(q) /\ pc'[q] \in Started
    BY DEF Snapshot
  <2>1. session'[q] = session[q] /\ pc'[q] = pc[q]
    BY <1>2 DEF Take
  <2>2. PICK n \in listed[p] :
          file' = IF /\ Takeable(p, n) /\ (n[1] = p \/ (n[1] # p /\ file[ClaimName(p, n)] = 0 /\ file[n] # 0))
                     /\ n[1] # p /\ file[ClaimName(p, n)] = 0 /\ file[n] # 0
                  THEN [file EXCEPT ![ClaimName(p, n)] = file[n], ![n] = 0]
                  ELSE file
    BY <1>2 DEF Take
  <2>3. CASE file'[m] = file[m]
    BY <2>1, <2>3
  <2>4. CASE file'[m] # file[m]
    <3>1. n \in Names /\ Takeable(p, n) /\ file[n] # 0 /\ file'[m] = file[n]
      BY <2>2, <2>4, NameFacts
    <3>2. pc[p] = "taking"
      BY <1>2 DEF Take
    <3>3. QED
      BY <2>1, <3>1, <3>2, TakesTheDead
  <2>5. QED
    BY <2>3, <2>4
<1>3. ASSUME NEW p \in Pids, RecordCall(p) PROVE RunningAtHome'
  <2> SUFFICES ASSUME NEW m \in Names, NEW q \in Pids,
                      file'[m] # 0, pc'[q] # "off", file'[m] = session'[q]
               PROVE  m = Snapshot(q) /\ pc'[q] \in Started
    BY DEF Snapshot
  <2>1. session'[q] = session[q] /\ pc'[q] = pc[q] /\ pc[p] \in Started
    BY <1>3 DEF RecordCall, Started
  <2>2. CASE file'[m] = file[m]
    BY <2>1, <2>2
  <2>3. CASE file'[m] # file[m]
    <3>1. m = Snapshot(p) /\ file'[m] = session[p]
      BY <1>3, <2>3, NameFacts DEF RecordCall
    <3>2. q = p
      BY <2>1, <3>1 DEF Numbered
    <3>3. QED
      BY <2>1, <3>1, <3>2
  <2>4. QED
    BY <2>2, <2>3
<1>4. ASSUME NEW p \in Pids, Release(p) PROVE RunningAtHome'
  BY <1>4 DEF Release, Snapshot, Started
<1>5. ASSUME NEW p \in Pids, Clear(p) PROVE RunningAtHome'
  BY <1>5, NameFacts DEF Clear, Snapshot, Started
<1>6. ASSUME NEW p \in Pids,
             List(p) \/ AllTaken(p) \/ Report(p) \/ Shutdown(p) \/ Summarise(p)
      PROVE  RunningAtHome'
  BY <1>6 DEF List, AllTaken, Report, Shutdown, Summarise, Snapshot, Started
<1>7. ASSUME NEW p \in Pids, Exit(p) \/ Die(p) PROVE RunningAtHome'
  BY <1>7 DEF Exit, Die, Ended, Snapshot, Started
<1>8. ASSUME UNCHANGED vars PROVE RunningAtHome'
  BY <1>8 DEF vars, system, Snapshot
<1>9. QED
  BY <1>1, <1>2, <1>3, <1>4, <1>5, <1>6, <1>7, <1>8 DEF Next

(***************************************************************************)
(* The types, the numbering and the place of running sessions' snapshots,  *)
(* in every reachable state (client.ts, outbox.ts).                        *)
(***************************************************************************)
THEOREM RecoverySafety == Spec => []RecoveryInv
<1>1. Init => RecoveryInv
  BY TypesInit, SessionAssumption DEF Init, RecoveryInv, Numbered, RunningAtHome, Running
<1>2. RecoveryInv /\ [Next]_vars => RecoveryInv'
  BY TypesStep, NumberedStep, RunningAtHomeStep DEF RecoveryInv
<1>3. QED
  BY <1>1, <1>2, PTL DEF Spec

(***************************************************************************)
(* claimOrphanedSessionStates never takes the snapshot of a session whose  *)
(* process is running, pids recycled or not.                               *)
(***************************************************************************)
THEOREM LiveSessionsAreLeftAlone == Spec => []RecoveredAreDead
<1>1. RecoveryInv => RecoveredAreDead
  <2> SUFFICES ASSUME RecoveryInv, NEW n \in Names, NEW q \in Pids,
                      n[1] # Unclaimed, file[n] # 0, Running(q)
               PROVE  file[n] # session[q]
    BY DEF RecoveredAreDead
  <2>1. n # Snapshot(q)
    BY DEF Snapshot
  <2>2. QED
    BY <2>1 DEF RecoveryInv, RunningAtHome
<1>2. QED
  BY <1>1, RecoverySafety, PTL

-----------------------------------------------------------------------------

(***************************************************************************)
(* A snapshot that moves is under another name afterwards; nothing is      *)
(* overwritten.  This is all that Take does to the files.                  *)
(***************************************************************************)
LEMMA TakeMoves ==
    ASSUME RecoveryInv, MemoryInv, NEW p \in Pids, Take(p)
    PROVE  /\ UNCHANGED <<session, usage, called, pc, clean, rebuilt, withdrawn, persisted>>
           /\ \/ UNCHANGED file
              \/ \E n \in Names : /\ Takeable(p, n) /\ n[1] # p /\ file[n] # 0
                                  /\ file[ClaimName(p, n)] = 0
                                  /\ file' = [file EXCEPT ![ClaimName(p, n)] = file[n], ![n] = 0]
           /\ ClaimsAreOwn'
<1>1. PICK n \in listed[p] :
        /\ file' = IF /\ Takeable(p, n) /\ (n[1] = p \/ (n[1] # p /\ file[ClaimName(p, n)] = 0 /\ file[n] # 0))
                      /\ n[1] # p /\ file[ClaimName(p, n)] = 0 /\ file[n] # 0
                   THEN [file EXCEPT ![ClaimName(p, n)] = file[n], ![n] = 0]
                   ELSE file
        /\ claimed' = claimed \/ claimed' = [claimed EXCEPT ![p] = @ \cup {ClaimName(p, n)}]
  BY DEF Take
<1>2. n \in Names
  BY <1>1 DEF RecoveryInv, Types
<1>3. ClaimsAreOwn'
  BY <1>1, <1>2, NameFacts DEF MemoryInv, ClaimsAreOwn, RecoveryInv, Types
<1>4. QED
  BY <1>1, <1>2, <1>3 DEF Take, history

(***************************************************************************)
(* Take keeps MemoryInv.                                                   *)
(***************************************************************************)
LEMMA TakeKeepsMemory ==
    ASSUME RecoveryInv, MemoryInv, NEW p \in Pids, Take(p)
    PROVE  MemoryInv'
<1> USE DEF RecoveryInv, Types
<1>1. CASE UNCHANGED file
  <2>1. UNCHANGED <<session, usage, called, pc, clean, rebuilt, withdrawn, persisted>>
    BY TakeMoves
  <2>2. \A q \in Pids : pc[q] = "releasing" => claimed'[q] = claimed[q]
    BY DEF Take
  <2>3. DeletesReported'
    BY <1>1, <2>1, <2>2 DEF MemoryInv, DeletesReported, Reported
  <2>4. QED
    BY <1>1, <2>1, <2>3, TakeMoves DEF MemoryInv, OwnName, CalledFirst, ClearsSummarised,
       NoSessionForgotten, Snapshot, Running
<1>2. CASE file' # file
  <2>1. UNCHANGED <<session, usage, called, pc, clean, rebuilt, withdrawn, persisted>>
    BY TakeMoves
  <2>2. PICK n \in Names : /\ Takeable(p, n) /\ n[1] # p /\ file[n] # 0
                           /\ file[ClaimName(p, n)] = 0
                           /\ file' = [file EXCEPT ![ClaimName(p, n)] = file[n], ![n] = 0]
    BY <1>2, TakeMoves
  <2>3. /\ ClaimName(p, n) \in Names /\ ClaimName(p, n) # n
        /\ file'[ClaimName(p, n)] = file[n] /\ file'[n] = 0
        /\ \A m \in Names \ {n, ClaimName(p, n)} : file'[m] = file[m]
    BY <2>2, NameFacts
  <2>4. \A q \in Pids : Snapshot(q) \in Names /\ Snapshot(q) # ClaimName(p, n)
    BY SessionAssumption DEF Snapshot, ClaimName, Names
  <2>5. OwnName' /\ CalledFirst' /\ ClearsSummarised'
    <3>1. \A q \in Pids : file'[Snapshot(q)] = file[Snapshot(q)] \/ file'[Snapshot(q)] = 0
      BY <2>3, <2>4
    <3>2. OwnName'
      BY <2>1, <3>1 DEF MemoryInv, OwnName, Snapshot
    <3>3. CalledFirst'
      BY <2>1, <3>1 DEF MemoryInv, CalledFirst, Snapshot, Running
    <3>4. ClearsSummarised'
      BY <2>1, <3>1 DEF MemoryInv, ClearsSummarised, Snapshot
    <3>5. QED
      BY <3>2, <3>3, <3>4
  <2>6. DeletesReported'
    <3> SUFFICES ASSUME NEW q \in Pids, pc'[q] = "releasing", NEW m \in claimed'[q],
                        file'[m] # 0
                 PROVE  file'[m] \in withdrawn' \/ rebuilt'[file'[m]] > 0
      BY DEF DeletesReported, Reported
    <3>1. q # p /\ claimed'[q] = claimed[q] /\ pc[q] = "releasing"
      BY <2>1 DEF Take
    <3>2. m[1] = q /\ m \in Names
      BY <3>1 DEF MemoryInv, ClaimsAreOwn
    <3>3. m # ClaimName(p, n) /\ m # n
      BY <2>2, <2>3, <3>1, <3>2, NameFacts
    <3>4. file'[m] = file[m]
      BY <2>3, <3>2, <3>3
    <3>5. Reported(file[m])
      BY <3>1, <3>4 DEF MemoryInv, DeletesReported
    <3>6. QED
      BY <2>1, <3>4, <3>5 DEF Reported
  <2>7. NoSessionForgotten'
    <3> SUFFICES ASSUME NEW s \in persisted', s \notin clean' \cup withdrawn', ~(rebuilt'[s] > 0)
                 PROVE  \E m \in Names : file'[m] = s
      BY DEF NoSessionForgotten
    <3>1. PICK m \in Names : file[m] = s
      BY <2>1 DEF MemoryInv, NoSessionForgotten
    <3>2. s # 0
      BY <2>1 DEF Sessions
    <3>3. CASE m = n
      BY <2>3, <3>1, <3>3
    <3>4. CASE m # n
      BY <2>2, <2>3, <3>1, <3>2, <3>4
    <3>5. QED
      BY <3>3, <3>4
  <2>8. QED
    BY <2>5, <2>6, <2>7, TakeMoves DEF MemoryInv
<1>3. QED
  BY <1>1, <1>2

(***************************************************************************)
(* The write of a snapshot replaces a snapshot of the same session only.   *)
(***************************************************************************)
LEMMA RecordCallKeepsMemory ==
    ASSUME RecoveryInv, MemoryInv, NEW p \in Pids, RecordCall(p)
    PROVE  MemoryInv'
<1> USE DEF RecoveryInv, Types
<1>1. UNCHANGED <<session, usage, pc, claimed, clean, rebuilt, withdrawn>>
  BY DEF RecordCall
<1>2. session[p] # 0 /\ pc[p] \in {"serving", "closed"} /\ usage[p] /\ called'[p]
  BY DEF RecordCall, Numbered, Running
<1>3. /\ \A m \in Names \ {Snapshot(p)} : file'[m] = file[m]
      /\ file'[Snapshot(p)] \in {file[Snapshot(p)], session[p]}
      /\ Snapshot(p) \in Names
  BY NameFacts DEF RecordCall
<1>4. OwnName'
  BY <1>1, <1>3, NameFacts DEF MemoryInv, OwnName, Snapshot
<1>5. CalledFirst'
  <2> SUFFICES ASSUME NEW q \in Pids, pc'[q] # "off", file'[Snapshot(q)] # 0
               PROVE  usage'[q] /\ called'[q]
    BY DEF CalledFirst, Running, Snapshot
  <2>1. CASE q = p
    BY <1>1, <1>2, <2>1
  <2>2. CASE q # p
    <3>1. file'[Snapshot(q)] = file[Snapshot(q)]
      BY <1>3, <2>2, NameFacts
    <3>2. usage[q] /\ called[q]
      BY <1>1, <3>1 DEF MemoryInv, CalledFirst, Running
    <3>3. called'[q] = called[q]
      BY <2>2 DEF RecordCall
    <3>4. QED
      BY <1>1, <3>2, <3>3
  <2>3. QED
    BY <2>1, <2>2
<1>6. ClearsSummarised'
  BY <1>1, <1>2, <1>3, NameFacts DEF MemoryInv, ClearsSummarised, Snapshot
<1>7. ClaimsAreOwn'
  BY <1>1 DEF MemoryInv, ClaimsAreOwn
<1>8. DeletesReported'
  <2> SUFFICES ASSUME NEW q \in Pids, pc'[q] = "releasing", NEW m \in claimed'[q],
                      file'[m] # 0
               PROVE  file'[m] \in withdrawn' \/ rebuilt'[file'[m]] > 0
    BY DEF DeletesReported, Reported
  <2>1. m \in Names /\ m[1] = q
    BY <1>1 DEF MemoryInv, ClaimsAreOwn
  <2>2. m # Snapshot(p)
    BY <2>1, SessionAssumption DEF Snapshot
  <2>3. file'[m] = file[m]
    BY <1>3, <2>1, <2>2
  <2>4. QED
    BY <1>1, <2>3 DEF MemoryInv, DeletesReported, Reported
<1>9. NoSessionForgotten'
  <2> SUFFICES ASSUME NEW s \in persisted', s \notin clean' \cup withdrawn', ~(rebuilt'[s] > 0)
               PROVE  \E m \in Names : file'[m] = s
    BY DEF NoSessionForgotten
  <2>1. CASE s \in persisted
    <3>1. PICK m \in Names : file[m] = s
      BY <1>1, <2>1 DEF MemoryInv, NoSessionForgotten
    <3>2. s # 0
      BY <2>1 DEF Sessions
    <3>3. file[Snapshot(p)] = s => session[p] = s
      BY <3>2 DEF MemoryInv, OwnName
    <3>4. QED
      BY <1>3, <3>1, <3>3
  <2>2. CASE s \notin persisted
    <3>1. s = session[p] /\ file' = [file EXCEPT ![Snapshot(p)] = session[p]]
      BY <2>2 DEF RecordCall
    <3>2. QED
      BY <1>3, <3>1
  <2>3. QED
    BY <2>1, <2>2
<1>10. QED
  BY <1>4, <1>5, <1>6, <1>7, <1>8, <1>9 DEF MemoryInv

(***************************************************************************)
(* Boot keeps MemoryInv, when no pid is given out again.                   *)
(***************************************************************************)
LEMMA BootKeepsMemory ==
    ASSUME RecoveryInv, MemoryInv, ~Recycled, NEW p \in Pids, Boot(p)
    PROVE  MemoryInv'
<1> USE DEF RecoveryInv, Types
<1>1. UNCHANGED <<file, claimed, clean, rebuilt, withdrawn, persisted>>
  BY DEF Boot
<1>2. \A q \in Pids \ {p} : /\ session'[q] = session[q] /\ pc'[q] = pc[q]
                            /\ usage'[q] = usage[q] /\ called'[q] = called[q]
  BY DEF Boot
<1>3. pc'[p] = "listing" /\ session[p] = 0
  BY DEF Boot
<1>4. file[Snapshot(p)] = 0
  BY <1>3 DEF MemoryInv, OwnName
<1>5. OwnName'
  BY <1>1, <1>2, <1>4 DEF MemoryInv, OwnName, Snapshot
<1>6. CalledFirst'
  BY <1>1, <1>2, <1>4 DEF MemoryInv, CalledFirst, Snapshot, Running
<1>7. ClearsSummarised'
  BY <1>1, <1>2, <1>3 DEF MemoryInv, ClearsSummarised, Snapshot
<1>8. ClaimsAreOwn' /\ NoSessionForgotten'
  BY <1>1 DEF MemoryInv, ClaimsAreOwn, NoSessionForgotten
<1>9. DeletesReported'
  BY <1>1, <1>2, <1>3 DEF MemoryInv, DeletesReported, Reported
<1>10. QED
  BY <1>5, <1>6, <1>7, <1>8, <1>9 DEF MemoryInv

(***************************************************************************)
(* A summary is written of what is about to be deleted.                    *)
(***************************************************************************)
LEMMA ReportKeepsMemory ==
    ASSUME RecoveryInv, MemoryInv, NEW p \in Pids, Report(p)
    PROVE  MemoryInv'
<1> USE DEF RecoveryInv, Types
<1>1. UNCHANGED <<session, usage, called, file, claimed, clean, persisted>>
  BY DEF Report
<1>2. /\ \A q \in Pids \ {p} : pc'[q] = pc[q]
      /\ pc[p] = "reporting" /\ pc'[p] = "releasing"
  BY DEF Report
<1>3. IsFiniteSet(Names)
  <2>1. IsFiniteSet(Pids \cup {Unclaimed})
    BY SessionAssumption, FS_AddElement
  <2>2. QED
    BY <2>1, SessionAssumption, FS_Product DEF Names
<1>4. \A s \in Sessions : Cardinality(Claimed(p, s)) \in Nat /\
                          (Claimed(p, s) # {} => Cardinality(Claimed(p, s)) > 0)
  <2> SUFFICES ASSUME NEW s \in Sessions
               PROVE  /\ Cardinality(Claimed(p, s)) \in Nat
                      /\ Claimed(p, s) # {} => Cardinality(Claimed(p, s)) > 0
    OBVIOUS
  <2>1. IsFiniteSet(Claimed(p, s))
    <3>1. Claimed(p, s) \subseteq Names
      BY DEF Claimed
    <3>2. QED
      BY <1>3, <3>1, FS_Subset
  <2>2. Cardinality(Claimed(p, s)) \in Nat
    BY <2>1, FS_CardinalityType
  <2>3. Cardinality(Claimed(p, s)) = 0 <=> Claimed(p, s) = {}
    BY <2>1, FS_EmptySet
  <2>4. QED
    BY <2>2, <2>3
<1>5. /\ withdrawn \subseteq withdrawn'
      /\ \A s \in Sessions : rebuilt[s] > 0 => rebuilt'[s] > 0
      /\ \A s \in Sessions : Claimed(p, s) # {} => s \in withdrawn' \/ rebuilt'[s] > 0
  <2>1. CASE usage[p]
    <3>1. /\ withdrawn' = withdrawn
          /\ rebuilt' = [s \in Sessions |-> rebuilt[s] + Cardinality(Claimed(p, s))]
      BY <2>1 DEF Report
    <3>2. QED
      BY <1>4, <3>1
  <2>2. CASE ~usage[p]
    BY <2>2 DEF Report
  <2>3. QED
    BY <2>1, <2>2
<1>6. OwnName' /\ ClaimsAreOwn'
  BY <1>1 DEF MemoryInv, OwnName, ClaimsAreOwn, Snapshot
<1>7. CalledFirst' /\ ClearsSummarised'
  BY <1>1, <1>2 DEF MemoryInv, CalledFirst, ClearsSummarised, Snapshot, Running
<1>8. NoSessionForgotten'
  BY <1>1, <1>5 DEF MemoryInv, NoSessionForgotten
<1>9. DeletesReported'
  <2> SUFFICES ASSUME NEW q \in Pids, pc'[q] = "releasing", NEW m \in claimed'[q],
                      file'[m] # 0
               PROVE  file'[m] \in withdrawn' \/ rebuilt'[file'[m]] > 0
    BY DEF DeletesReported, Reported
  <2>1. m \in Names /\ file'[m] = file[m] /\ file[m] \in Sessions /\ m \in claimed[q]
    BY <1>1 DEF Sessions
  <2>2. CASE q = p
    <3>1. m \in Claimed(p, file[m])
      BY <2>1, <2>2 DEF Claimed
    <3>2. QED
      BY <1>5, <2>1, <3>1
  <2>3. CASE q # p
    <3>1. Reported(file[m])
      BY <1>2, <2>1, <2>3 DEF MemoryInv, DeletesReported
    <3>2. QED
      BY <1>5, <2>1, <3>1 DEF Reported
  <2>4. QED
    BY <2>2, <2>3
<1>10. QED
  BY <1>6, <1>7, <1>8, <1>9 DEF MemoryInv

(***************************************************************************)
(* A file is deleted only when its session needs it no longer.             *)
(***************************************************************************)
LEMMA ReleaseKeepsMemory ==
    ASSUME RecoveryInv, MemoryInv, NEW p \in Pids, Release(p)
    PROVE  MemoryInv'
<1> USE DEF RecoveryInv, Types
<1>1. UNCHANGED <<session, usage, called, clean, rebuilt, withdrawn, persisted>>
  BY DEF Release, history
<1>2. /\ \A q \in Pids \ {p} : pc'[q] = pc[q] /\ claimed'[q] = claimed[q]
      /\ pc[p] = "releasing" /\ pc'[p] = "serving" /\ claimed'[p] = {}
  BY DEF Release
<1>3. \A m \in Names : file'[m] = (IF m \in claimed[p] THEN 0 ELSE file[m])
  BY DEF Release
<1>4. \A q \in Pids : Snapshot(q) \in Names /\ Snapshot(q) \notin claimed[p]
  BY SessionAssumption, NameFacts DEF MemoryInv, ClaimsAreOwn, Snapshot
<1>5. \A q \in Pids : file'[Snapshot(q)] = file[Snapshot(q)]
  BY <1>3, <1>4
<1>6. OwnName'
  BY <1>1, <1>5 DEF MemoryInv, OwnName, Snapshot
<1>7. CalledFirst' /\ ClearsSummarised'
  BY <1>1, <1>2, <1>5 DEF MemoryInv, CalledFirst, ClearsSummarised, Snapshot, Running
<1>8. ClaimsAreOwn'
  BY <1>2 DEF MemoryInv, ClaimsAreOwn
<1>9. DeletesReported'
  <2> SUFFICES ASSUME NEW q \in Pids, pc'[q] = "releasing", NEW m \in claimed'[q],
                      file'[m] # 0
               PROVE  file'[m] \in withdrawn' \/ rebuilt'[file'[m]] > 0
    BY DEF DeletesReported, Reported
  <2>1. q # p /\ pc[q] = "releasing" /\ m \in claimed[q] /\ m \in Names
    BY <1>2
  <2>2. file'[m] = file[m]
    BY <1>3, <2>1
  <2>3. QED
    BY <1>1, <2>1, <2>2 DEF MemoryInv, DeletesReported, Reported
<1>10. NoSessionForgotten'
  <2> SUFFICES ASSUME NEW s \in persisted', s \notin clean' \cup withdrawn', ~(rebuilt'[s] > 0)
               PROVE  \E m \in Names : file'[m] = s
    BY DEF NoSessionForgotten
  <2>1. PICK m \in Names : file[m] = s
    BY <1>1 DEF MemoryInv, NoSessionForgotten
  <2>2. s # 0
    BY <1>1 DEF Sessions
  <2>3. m \notin claimed[p]
    BY <1>1, <1>2, <2>1, <2>2 DEF MemoryInv, DeletesReported, Reported
  <2>4. QED
    BY <1>3, <2>1, <2>3
<1>11. QED
  BY <1>6, <1>7, <1>8, <1>9, <1>10 DEF MemoryInv

(***************************************************************************)
(* Clear keeps MemoryInv: what it deletes was summarised.                  *)
(***************************************************************************)
LEMMA ClearKeepsMemory ==
    ASSUME RecoveryInv, MemoryInv, NEW p \in Pids, Clear(p)
    PROVE  MemoryInv'
<1> USE DEF RecoveryInv, Types
<1>1. UNCHANGED <<session, usage, called, claimed, clean, rebuilt, withdrawn, persisted>>
  BY DEF Clear, history
<1>2. /\ \A q \in Pids \ {p} : pc'[q] = pc[q]
      /\ pc[p] = "clearing" /\ pc'[p] = "closed"
  BY DEF Clear
<1>3. /\ Snapshot(p) \in Names /\ file'[Snapshot(p)] = 0
      /\ \A m \in Names \ {Snapshot(p)} : file'[m] = file[m]
  BY NameFacts DEF Clear
<1>4. \A q \in Pids : file'[Snapshot(q)] \in {file[Snapshot(q)], 0}
  BY <1>3, NameFacts
<1>5. OwnName'
  BY <1>1, <1>4 DEF MemoryInv, OwnName, Snapshot
<1>6. CalledFirst' /\ ClearsSummarised'
  BY <1>1, <1>2, <1>4 DEF MemoryInv, CalledFirst, ClearsSummarised, Snapshot, Running
<1>7. ClaimsAreOwn'
  BY <1>1 DEF MemoryInv, ClaimsAreOwn
<1>8. DeletesReported'
  <2> SUFFICES ASSUME NEW q \in Pids, pc'[q] = "releasing", NEW m \in claimed'[q],
                      file'[m] # 0
               PROVE  file'[m] \in withdrawn' \/ rebuilt'[file'[m]] > 0
    BY DEF DeletesReported, Reported
  <2>1. pc[q] = "releasing" /\ m \in claimed[q] /\ m \in Names /\ file'[m] = file[m]
    BY <1>1, <1>2, <1>3
  <2>2. QED
    BY <1>1, <2>1 DEF MemoryInv, DeletesReported, Reported
<1>9. NoSessionForgotten'
  <2> SUFFICES ASSUME NEW s \in persisted', s \notin clean' \cup withdrawn', ~(rebuilt'[s] > 0)
               PROVE  \E m \in Names : file'[m] = s
    BY DEF NoSessionForgotten
  <2>1. PICK m \in Names : file[m] = s
    BY <1>1 DEF MemoryInv, NoSessionForgotten
  <2>2. s # 0
    BY <1>1 DEF Sessions
  <2>3. m # Snapshot(p)
    BY <1>1, <1>2, <2>1, <2>2 DEF MemoryInv, OwnName, ClearsSummarised
  <2>4. QED
    BY <1>3, <2>1, <2>3
<1>10. QED
  BY <1>5, <1>6, <1>7, <1>8, <1>9 DEF MemoryInv

(***************************************************************************)
(* The other steps change no file and no name, and what was written only   *)
(* grows.  A process that goes to clear its name without a summary has     *)
(* recorded no call, so nothing is under the name.                         *)
(***************************************************************************)
LEMMA QuietStepsKeepMemory ==
    ASSUME RecoveryInv, MemoryInv, NEW p \in Pids,
           \/ List(p) \/ AllTaken(p) \/ Shutdown(p) \/ Summarise(p)
           \/ Exit(p) \/ Die(p)
    PROVE  MemoryInv'
<1> USE DEF RecoveryInv, Types
<1>1. /\ UNCHANGED <<session, usage, called, file, rebuilt, withdrawn, persisted>>
      /\ clean \subseteq clean'
      /\ \A q \in Pids \ {p} : pc'[q] = pc[q] /\ claimed'[q] = claimed[q]
      /\ claimed'[p] \subseteq claimed[p]
      /\ pc'[p] # "releasing"
  BY DEF List, AllTaken, Shutdown, Summarise, Exit, Die, Ended, history
<1>2. Running(p)
  BY DEF List, AllTaken, Shutdown, Summarise, Exit, Die, Running
<1>3. pc'[p] = "clearing" => session[p] \in clean' \/ file[Snapshot(p)] = 0
  <2>1. CASE Summarise(p)
    BY <2>1 DEF Summarise
  <2>2. CASE Shutdown(p)
    <3>1. pc'[p] = "clearing" => ~(usage[p] /\ called[p])
      BY <2>2 DEF Shutdown
    <3>2. file[Snapshot(p)] # 0 => usage[p] /\ called[p]
      BY <1>2 DEF MemoryInv, CalledFirst
    <3>3. QED
      BY <3>1, <3>2
  <2>3. CASE List(p) \/ AllTaken(p) \/ Exit(p) \/ Die(p)
    <3>1. pc'[p] # "clearing"
      BY <2>3 DEF List, AllTaken, Exit, Die, Ended
    <3>2. QED
      BY <3>1
  <2>4. QED
    BY <2>1, <2>2, <2>3
<1>4. OwnName'
  BY <1>1 DEF MemoryInv, OwnName, Snapshot
<1>5. CalledFirst'
  BY <1>1, <1>2 DEF MemoryInv, CalledFirst, Running, Snapshot
<1>6. ClearsSummarised'
  BY <1>1, <1>3 DEF MemoryInv, ClearsSummarised, Snapshot
<1>7. ClaimsAreOwn'
  BY <1>1 DEF MemoryInv, ClaimsAreOwn
<1>8. DeletesReported'
  BY <1>1 DEF MemoryInv, DeletesReported, Reported
<1>9. NoSessionForgotten'
  BY <1>1 DEF MemoryInv, NoSessionForgotten
<1>10. QED
  BY <1>4, <1>5, <1>6, <1>7, <1>8, <1>9 DEF MemoryInv

(***************************************************************************)
(* MemoryInv holds when the behaviour begins.                              *)
(***************************************************************************)
LEMMA MemoryInit == Init => MemoryInv
BY NameFacts DEF Init, MemoryInv, OwnName, CalledFirst, ClearsSummarised, ClaimsAreOwn,
   DeletesReported, NoSessionForgotten, Running

(***************************************************************************)
(* Every step keeps MemoryInv, when no pid is given out again.             *)
(***************************************************************************)
LEMMA CallsStep ==
    ASSUME ~Recycled, RecoveryInv, MemoryInv, [Next]_vars
    PROVE  MemoryInv'
<1>1. CASE UNCHANGED vars
  BY <1>1 DEF vars, system, history, MemoryInv, OwnName, CalledFirst, ClearsSummarised,
     ClaimsAreOwn, DeletesReported, Reported, NoSessionForgotten, Running, Snapshot
<1>2. CASE Next
  <2>1. PICK p \in Pids :
          \/ Boot(p) \/ Take(p) \/ Report(p) \/ Release(p) \/ RecordCall(p) \/ Clear(p)
          \/ List(p) \/ AllTaken(p) \/ Shutdown(p) \/ Summarise(p) \/ Exit(p) \/ Die(p)
    BY <1>2 DEF Next
  <2>2. QED
    BY <2>1, BootKeepsMemory, TakeKeepsMemory, ReportKeepsMemory, ReleaseKeepsMemory,
       RecordCallKeepsMemory, ClearKeepsMemory, QuietStepsKeepMemory
<1>3. QED
  BY <1>1, <1>2

(***************************************************************************)
(* As long as the system gives no pid out again, every session whose       *)
(* snapshot was written is summarised, by itself or by a later startup, or *)
(* dropped because consent was withdrawn, or its snapshot is still there:  *)
(* for any number of processes, boots and kills.                           *)
(***************************************************************************)
THEOREM NoSessionIsForgotten ==
    ASSUME ~Recycled
    PROVE  Spec => []NoSessionForgotten
<1>1. Init => MemoryInv
  BY MemoryInit
<1>2. RecoveryInv /\ MemoryInv /\ [Next]_vars => MemoryInv'
  BY CallsStep
<1>3. MemoryInv => NoSessionForgotten
  BY DEF MemoryInv
<1>4. QED
  BY <1>1, <1>2, <1>3, RecoverySafety, PTL DEF Spec

-----------------------------------------------------------------------------
(* No session is reported twice *)

(***************************************************************************)
(* A session has one snapshot, whoever claims it.  What a startup has      *)
(* reported is a session of a process that is gone; its snapshot is in the *)
(* hands of that startup, which is about to delete it.  What a process has *)
(* summarised itself is under its own name, which it is about to clear.    *)
(***************************************************************************)
OneCopy == \A n, m \in Names : file[n] = file[m] /\ file[n] # 0 => n = m

RebuiltAreGone ==
    \A s \in Sessions : rebuilt[s] > 0 =>
        s <= boots /\ \A q \in Pids : Running(q) => session[q] # s

CleanAreCleared ==
    \A s \in clean \ exposed : \A n \in Names : file[n] = s =>
        \E q \in Pids : pc[q] = "clearing" /\ session[q] = s /\ n = Snapshot(q)

RebuiltAreReleased ==
    \A s \in Sessions \ exposed : \A n \in Names : rebuilt[s] > 0 /\ file[n] = s =>
        \E q \in Pids : pc[q] = "releasing" /\ n \in claimed[q]

ReportInv == /\ TypeOK /\ OneCopy /\ RebuiltAreGone /\ CleanAreCleared /\ RebuiltAreReleased
           /\ ReportedOnce

(***************************************************************************)
(* The rest of the types.                                                  *)
(***************************************************************************)
LEMMA TypeOKStep ==
    ASSUME RecoveryInv, TypeOK, [Next]_vars
    PROVE  TypeOK'
<1> USE DEF TypeOK
<1> DEFINE Rest == /\ \A p \in Pids : \A n \in claimed[p] :
                        n[1] = p /\ pc[p] \in {"taking", "reporting", "releasing"}
                   /\ kills \in 0 .. MaxKills
                   /\ clean \subseteq Sessions
                   /\ withdrawn \subseteq Sessions
                   /\ exposed \subseteq Sessions
<1>1. Types'
  BY TypesStep
<1>2. \A p \in Pids : Running(p) => session[p] \in Sessions
  BY DEF RecoveryInv, Numbered, Sessions
<1>3. ASSUME NEW p \in Pids, Take(p) PROVE Rest'
  <2>1. /\ pc[p] = "taking"
        /\ UNCHANGED <<pc, kills, clean, withdrawn, exposed>>
    BY <1>3 DEF Take, history
  <2>2. PICK n \in listed[p] :
          claimed' = claimed \/ claimed' = [claimed EXCEPT ![p] = @ \cup {ClaimName(p, n)}]
    BY <1>3 DEF Take
  <2>3. ClaimName(p, n)[1] = p
    BY DEF ClaimName
  <2>4. QED
    BY <2>1, <2>2, <2>3
<1>4. ASSUME NEW p \in Pids, Boot(p) PROVE Rest'
  <2>1. UNCHANGED <<claimed, kills, clean, withdrawn, exposed>>
    BY <1>4 DEF Boot
  <2>2. pc[p] = "off" /\ pc' = [pc EXCEPT ![p] = "listing"]
    BY <1>4 DEF Boot
  <2>3. QED
    BY <2>1, <2>2
<1>5. ASSUME NEW p \in Pids, List(p) \/ Shutdown(p) \/ Clear(p) PROVE Rest'
  <2>1. UNCHANGED <<claimed, kills, clean, withdrawn, exposed>>
    BY <1>5 DEF List, Shutdown, Clear, history
  <2>2. /\ pc[p] \in {"listing", "serving", "clearing"}
        /\ \A q \in Pids \ {p} : pc'[q] = pc[q]
    BY <1>5 DEF List, Shutdown, Clear
  <2>3. QED
    BY <2>1, <2>2
<1>6. ASSUME NEW p \in Pids, AllTaken(p) PROVE Rest'
  BY <1>6 DEF AllTaken, history
<1>7. ASSUME NEW p \in Pids, Report(p) PROVE Rest'
  BY <1>7 DEF Report
<1>8. ASSUME NEW p \in Pids, Release(p) PROVE Rest'
  BY <1>8 DEF Release, history
<1>9. ASSUME NEW p \in Pids, RecordCall(p) PROVE Rest'
  BY <1>9 DEF RecordCall
<1>10. ASSUME NEW p \in Pids, Summarise(p) PROVE Rest'
  <2>1. session[p] \in Sessions
    BY <1>2, <1>10 DEF Summarise, Running
  <2>2. QED
    BY <1>10, <2>1 DEF Summarise
<1>11. ASSUME NEW p \in Pids, Exit(p) PROVE Rest'
  BY <1>11 DEF Exit, Ended, history
<1>12. ASSUME NEW p \in Pids, Die(p) PROVE Rest'
  <2>1. HalfDone(p) \subseteq Sessions
    BY <1>2, <1>12 DEF Die, HalfDone, Running
  <2>2. kills' \in 0 .. MaxKills
    BY <1>12, SessionAssumption DEF Die
  <2>3. QED
    BY <1>12, <2>1, <2>2 DEF Die, Ended
<1>13. ASSUME UNCHANGED vars PROVE Rest'
  BY <1>13 DEF vars, system, history
<1>14. Rest'
  BY <1>3, <1>4, <1>5, <1>6, <1>7, <1>8, <1>9, <1>10, <1>11, <1>12, <1>13 DEF Next
<1>15. QED
  BY <1>1, <1>14 DEF Types

(***************************************************************************)
(* What a startup may take has not been reported, but for a reason.        *)
(***************************************************************************)
LEMMA TakesTheUnreported ==
    ASSUME RecoveryInv, ReportInv, NEW p \in Pids, pc[p] = "taking",
           NEW n \in Names, Takeable(p, n), file[n] # 0, file[n] \notin exposed
    PROVE  file[n] \notin clean /\ ~(rebuilt[file[n]] > 0)
<1> USE DEF ReportInv
<1>1. file[n] \in Sessions
  BY DEF TypeOK, Sessions
<1>2. ASSUME file[n] \in clean PROVE FALSE
  <2>1. PICK q \in Pids : pc[q] = "clearing" /\ n = Snapshot(q)
    BY <1>2 DEF CleanAreCleared
  <2>2. Holder(n) = q
    BY <2>1, NameFacts
  <2>3. QED
    BY <2>1, <2>2 DEF Takeable, Running
<1>3. ASSUME rebuilt[file[n]] > 0 PROVE FALSE
  <2>1. PICK q \in Pids : pc[q] = "releasing" /\ n \in claimed[q]
    BY <1>1, <1>3 DEF RebuiltAreReleased
  <2>2. Holder(n) = q
    BY <2>1, SessionAssumption DEF TypeOK, Holder
  <2>3. QED
    BY <2>1, <2>2 DEF Takeable, Running
<1>4. QED
  BY <1>2, <1>3

(***************************************************************************)
(* A snapshot that is claimed is the same one under another name.          *)
(***************************************************************************)
LEMMA TakeOnce ==
    ASSUME RecoveryInv, ReportInv, NEW p \in Pids, Take(p), TypeOK'
    PROVE  ReportInv'
<1> USE DEF ReportInv, TypeOK
<1>1. /\ pc[p] = "taking"
      /\ UNCHANGED <<session, pc, boots, clean, rebuilt, exposed>>
      /\ \A q \in Pids : claimed[q] \subseteq claimed'[q]
  BY DEF Take, history
<1>2. RebuiltAreGone' /\ ReportedOnce'
  BY <1>1 DEF RebuiltAreGone, ReportedOnce, Running
<1>3. CASE UNCHANGED file
  BY <1>1, <1>2, <1>3 DEF OneCopy, CleanAreCleared, RebuiltAreReleased, Snapshot
<1>4. CASE ~UNCHANGED file
  <2>1. PICK n \in Names : /\ Takeable(p, n) /\ n[1] # p /\ file[n] # 0
                           /\ file[ClaimName(p, n)] = 0
                           /\ file' = [file EXCEPT ![ClaimName(p, n)] = file[n], ![n] = 0]
    BY <1>4 DEF Take
  <2>2. /\ ClaimName(p, n) \in Names /\ ClaimName(p, n) # n
        /\ file'[n] = 0 /\ file'[ClaimName(p, n)] = file[n]
        /\ \A m \in Names : m # n /\ m # ClaimName(p, n) => file'[m] = file[m]
    BY <2>1, NameFacts
  <2>3. OneCopy'
    BY <2>1, <2>2 DEF OneCopy
  <2>4. file[n] \notin exposed => file[n] \notin clean /\ ~(rebuilt[file[n]] > 0)
    BY <1>1, <2>1, TakesTheUnreported
  <2>5. CleanAreCleared'
    <3> SUFFICES ASSUME NEW s \in clean' \ exposed', NEW m \in Names, file'[m] = s
                 PROVE  \E q \in Pids : pc'[q] = "clearing" /\ session'[q] = s /\ m = Snapshot(q)
      BY DEF CleanAreCleared, Snapshot
    <3>1. s # 0 /\ s # file[n]
      BY <1>1, <2>4 DEF Sessions
    <3>2. file[m] = s
      BY <2>2, <3>1
    <3>3. QED
      BY <1>1, <3>2 DEF CleanAreCleared
  <2>6. RebuiltAreReleased'
    <3> SUFFICES ASSUME NEW s \in Sessions, s \notin exposed', NEW m \in Names, rebuilt'[s] > 0,
                        file'[m] = s
                 PROVE  \E q \in Pids : pc'[q] = "releasing" /\ m \in claimed'[q]
      BY DEF RebuiltAreReleased, Sessions
    <3>1. s # 0 /\ s # file[n]
      BY <1>1, <2>4 DEF Sessions
    <3>2. file[m] = s
      BY <2>2, <3>1
    <3>3. PICK q \in Pids : pc[q] = "releasing" /\ m \in claimed[q]
      BY <1>1, <3>2 DEF RebuiltAreReleased
    <3>4. QED
      BY <1>1, <3>3
  <2>7. QED
    BY <1>2, <2>3, <2>5, <2>6
<1>5. QED
  BY <1>3, <1>4

(***************************************************************************)
(* The summaries a startup writes are the first of their sessions: it has  *)
(* one snapshot of each, and those that were reported are not in its hands.*)
(***************************************************************************)
LEMMA ReportOnce ==
    ASSUME RecoveryInv, ReportInv, NEW p \in Pids, Report(p), TypeOK'
    PROVE  ReportInv'
<1> USE DEF ReportInv, TypeOK
<1>1. /\ pc[p] = "reporting" /\ pc' = [pc EXCEPT ![p] = "releasing"]
      /\ UNCHANGED <<session, claimed, file, boots, clean, exposed>>
  BY DEF Report
<1>2. ASSUME NEW s \in Sessions
      PROVE  /\ Cardinality(Claimed(p, s)) \in {0, 1}
             /\ Cardinality(Claimed(p, s)) = 1 => \E n \in claimed[p] : file[n] = s
  <2>1. CASE Claimed(p, s) = {}
    BY <2>1, FS_EmptySet
  <2>2. CASE Claimed(p, s) # {}
    <3>1. PICK n \in claimed[p] : file[n] = s
      BY <2>2 DEF Claimed
    <3>2. Claimed(p, s) = {n}
      BY <3>1 DEF Claimed, OneCopy, Sessions
    <3>3. QED
      BY <3>1, <3>2, FS_Singleton
  <2>3. QED
    BY <2>1, <2>2
<1>3. ASSUME NEW s \in Sessions, NEW n \in claimed[p], file[n] = s
      PROVE  /\ s <= boots /\ \A q \in Pids : Running(q) => session[q] # s
             /\ s \notin exposed => s \notin clean /\ ~(rebuilt[s] > 0)
  <2>1. n \in Names /\ n[1] = p /\ s # 0
    BY <1>3 DEF Sessions
  <2>2. \A q \in Pids : n # Snapshot(q)
    BY <2>1, SessionAssumption DEF Snapshot
  <2>3. \A q \in Pids : Running(q) => session[q] # s
    BY <1>3, <2>1, <2>2 DEF RecoveryInv, RunningAtHome
  <2>4. s <= boots
    BY <1>3, <2>1 DEF RecoveryInv, Numbered
  <2>5. s \notin exposed => s \notin clean
    BY <1>3, <2>1, <2>2 DEF CleanAreCleared
  <2>6. s \notin exposed => ~(rebuilt[s] > 0)
    <3> SUFFICES ASSUME s \notin exposed, rebuilt[s] > 0 PROVE FALSE
      OBVIOUS
    <3>1. PICK q \in Pids : pc[q] = "releasing" /\ n \in claimed[q]
      BY <1>3, <2>1 DEF RebuiltAreReleased
    <3>2. q = p
      BY <2>1, <3>1
    <3>3. QED
      BY <1>1, <3>1, <3>2
  <2>7. QED
    BY <2>3, <2>4, <2>5, <2>6
<1>4. ASSUME NEW s \in Sessions
      PROVE  \/ rebuilt'[s] = rebuilt[s]
             \/ /\ rebuilt'[s] = rebuilt[s] + 1
                /\ \E n \in claimed[p] : file[n] = s
  <2>1. rebuilt'[s] \in {rebuilt[s], rebuilt[s] + Cardinality(Claimed(p, s))}
    BY DEF Report
  <2>2. rebuilt[s] \in Nat
    OBVIOUS
  <2>3. QED
    BY <1>2, <2>1, <2>2
<1>5. OneCopy'
  BY <1>1 DEF OneCopy
<1>6. \A q \in Pids : Running(q)' <=> Running(q)
  BY <1>1 DEF Running
<1>7. RebuiltAreGone'
  <2> SUFFICES ASSUME NEW s \in Sessions, rebuilt'[s] > 0
               PROVE  s <= boots /\ \A q \in Pids : Running(q) => session[q] # s
    BY <1>1, <1>6 DEF RebuiltAreGone, Sessions
  <2>1. CASE rebuilt'[s] = rebuilt[s]
    BY <2>1 DEF RebuiltAreGone
  <2>2. CASE \E n \in claimed[p] : file[n] = s
    BY <1>3, <2>2
  <2>3. QED
    BY <1>4, <2>1, <2>2
<1>8. CleanAreCleared'
  BY <1>1 DEF CleanAreCleared, Snapshot
<1>9. RebuiltAreReleased'
  <2> SUFFICES ASSUME NEW s \in Sessions, s \notin exposed, NEW m \in Names, rebuilt'[s] > 0,
                      file[m] = s
               PROVE  \E q \in Pids : pc'[q] = "releasing" /\ m \in claimed[q]
    BY <1>1 DEF RebuiltAreReleased, Sessions
  <2>1. CASE rebuilt'[s] = rebuilt[s]
    <3>1. PICK q \in Pids : pc[q] = "releasing" /\ m \in claimed[q]
      BY <2>1 DEF RebuiltAreReleased
    <3>2. QED
      BY <1>1, <3>1
  <2>2. CASE \E n \in claimed[p] : file[n] = s
    <3>1. PICK n \in claimed[p] : file[n] = s
      BY <2>2
    <3>2. n = m
      BY <3>1 DEF OneCopy, Sessions
    <3>3. QED
      BY <1>1, <3>1, <3>2
  <2>3. QED
    BY <1>4, <2>1, <2>2
<1>10. ReportedOnce'
  <2> SUFFICES ASSUME NEW s \in Sessions, s \notin exposed
               PROVE  rebuilt'[s] + (IF s \in clean THEN 1 ELSE 0) <= 1
    BY <1>1 DEF ReportedOnce, Sessions
  <2>1. CASE rebuilt'[s] = rebuilt[s]
    BY <2>1 DEF ReportedOnce
  <2>2. CASE rebuilt'[s] = rebuilt[s] + 1 /\ \E n \in claimed[p] : file[n] = s
    <3>1. s \notin clean /\ ~(rebuilt[s] > 0) /\ rebuilt[s] \in Nat
      BY <1>3, <2>2
    <3>2. QED
      BY <2>2, <3>1
  <2>3. QED
    BY <1>4, <2>1, <2>2
<1>11. QED
  BY <1>5, <1>7, <1>8, <1>9, <1>10

(***************************************************************************)
(* The deletion of the claimed files takes nothing but copies away.        *)
(***************************************************************************)
LEMMA ReleaseOnce ==
    ASSUME RecoveryInv, ReportInv, NEW p \in Pids, Release(p), TypeOK'
    PROVE  ReportInv'
<1> USE DEF ReportInv, TypeOK
<1>1. /\ pc[p] = "releasing"
      /\ \A q \in Pids \ {p} : pc'[q] = pc[q] /\ claimed'[q] = claimed[q]
      /\ pc'[p] = "serving"
      /\ UNCHANGED <<session, boots, clean, rebuilt, exposed>>
  BY DEF Release, history
<1>2. \A n \in Names : file'[n] = (IF n \in claimed[p] THEN 0 ELSE file[n])
  BY DEF Release
<1>3. OneCopy' /\ RebuiltAreGone' /\ ReportedOnce'
  BY <1>1, <1>2 DEF OneCopy, RebuiltAreGone, ReportedOnce, Running
<1>4. CleanAreCleared'
  BY <1>1, <1>2 DEF CleanAreCleared, Snapshot, Sessions
<1>5. RebuiltAreReleased'
  <2> SUFFICES ASSUME NEW s \in Sessions, s \notin exposed, NEW m \in Names, rebuilt[s] > 0,
                      file'[m] = s
               PROVE  \E q \in Pids : pc'[q] = "releasing" /\ m \in claimed'[q]
    BY <1>1 DEF RebuiltAreReleased, Sessions
  <2>1. file[m] = s /\ m \notin claimed[p]
    BY <1>2 DEF Sessions
  <2>2. PICK q \in Pids : pc[q] = "releasing" /\ m \in claimed[q]
    BY <2>1 DEF RebuiltAreReleased
  <2>3. q # p
    BY <1>1, <2>1, <2>2
  <2>4. QED
    BY <1>1, <2>2, <2>3
<1>6. QED
  BY <1>3, <1>4, <1>5

(***************************************************************************)
(* A snapshot is written of a running session, which no startup has        *)
(* reported; if its clean summary was written, that is a reason.           *)
(***************************************************************************)
LEMMA RecordCallOnce ==
    ASSUME RecoveryInv, ReportInv, NEW p \in Pids, RecordCall(p), TypeOK'
    PROVE  ReportInv'
<1> USE DEF ReportInv, TypeOK
<1>1. /\ Running(p) /\ session[p] # 0
      /\ UNCHANGED <<session, pc, claimed, boots, clean, rebuilt>>
      /\ exposed \subseteq exposed'
  BY DEF RecordCall, Running, RecoveryInv, Numbered
<1>2. RebuiltAreGone' /\ ReportedOnce'
  BY <1>1 DEF RebuiltAreGone, ReportedOnce, Running
<1>3. CASE UNCHANGED <<file, exposed>>
  BY <1>1, <1>2, <1>3 DEF OneCopy, CleanAreCleared, RebuiltAreReleased, Snapshot
<1>4. CASE /\ file' = [file EXCEPT ![Snapshot(p)] = session[p]]
           /\ exposed' = exposed \cup (clean \cap {session[p]})
  <2>1. /\ Snapshot(p) \in Names /\ file'[Snapshot(p)] = session[p]
        /\ \A n \in Names : n # Snapshot(p) => file'[n] = file[n]
    BY <1>4, NameFacts
  <2>2. \A n \in Names : n # Snapshot(p) => file[n] # session[p]
    BY <1>1 DEF RecoveryInv, RunningAtHome
  <2>3. OneCopy'
    BY <2>1, <2>2 DEF OneCopy
  <2>4. CleanAreCleared'
    <3> SUFFICES ASSUME NEW s \in clean, s \notin exposed', NEW m \in Names, file'[m] = s
                 PROVE  \E q \in Pids : pc[q] = "clearing" /\ session[q] = s /\ m = Snapshot(q)
      BY <1>1 DEF CleanAreCleared, Snapshot
    <3>1. s # session[p]
      BY <1>4
    <3>2. file[m] = s /\ s \notin exposed
      BY <1>1, <2>1, <3>1
    <3>3. QED
      BY <3>2 DEF CleanAreCleared
  <2>5. RebuiltAreReleased'
    <3> SUFFICES ASSUME NEW s \in Sessions, s \notin exposed', NEW m \in Names, rebuilt[s] > 0,
                        file'[m] = s
                 PROVE  \E q \in Pids : pc[q] = "releasing" /\ m \in claimed[q]
      BY <1>1 DEF RebuiltAreReleased, Sessions
    <3>1. s # session[p]
      BY <1>1 DEF RebuiltAreGone
    <3>2. file[m] = s /\ s \notin exposed
      BY <1>1, <2>1, <3>1
    <3>3. QED
      BY <3>2 DEF RebuiltAreReleased
  <2>6. QED
    BY <1>2, <2>3, <2>4, <2>5
<1>5. QED
  BY <1>3, <1>4 DEF RecordCall

(***************************************************************************)
(* The summary a process writes itself is the first: a running session has *)
(* not been recovered.                                                     *)
(***************************************************************************)
LEMMA SummariseOnce ==
    ASSUME RecoveryInv, ReportInv, NEW p \in Pids, Summarise(p), TypeOK'
    PROVE  ReportInv'
<1> USE DEF ReportInv, TypeOK
<1>1. /\ pc[p] = "summing" /\ pc' = [pc EXCEPT ![p] = "clearing"]
      /\ clean' = clean \cup {session[p]}
      /\ UNCHANGED <<session, claimed, file, boots, rebuilt, exposed>>
  BY DEF Summarise
<1>2. Running(p) /\ session[p] # 0 /\ session[p] \in Sessions
  BY <1>1 DEF Running, RecoveryInv, Numbered, Sessions
<1>3. OneCopy'
  BY <1>1 DEF OneCopy
<1>4. RebuiltAreGone'
  BY <1>1 DEF RebuiltAreGone, Running
<1>5. CleanAreCleared'
  <2> SUFFICES ASSUME NEW s \in clean', s \notin exposed, NEW m \in Names, file[m] = s
               PROVE  \E q \in Pids : pc'[q] = "clearing" /\ session[q] = s /\ m = Snapshot(q)
    BY <1>1 DEF CleanAreCleared, Snapshot
  <2>1. CASE s = session[p]
    <3>1. m = Snapshot(p)
      BY <1>2, <2>1 DEF RecoveryInv, RunningAtHome
    <3>2. QED
      BY <1>1, <2>1, <3>1
  <2>2. CASE s # session[p]
    <3>1. PICK q \in Pids : pc[q] = "clearing" /\ session[q] = s /\ m = Snapshot(q)
      BY <1>1, <2>2 DEF CleanAreCleared
    <3>2. QED
      BY <1>1, <3>1
  <2>3. QED
    BY <2>1, <2>2
<1>6. RebuiltAreReleased'
  BY <1>1 DEF RebuiltAreReleased
<1>7. ReportedOnce'
  <2> SUFFICES ASSUME NEW s \in Sessions, s \notin exposed
               PROVE  rebuilt[s] + (IF s \in clean' THEN 1 ELSE 0) <= 1
    BY <1>1 DEF ReportedOnce, Sessions
  <2>1. CASE s = session[p]
    <3>1. ~(rebuilt[s] > 0) /\ rebuilt[s] \in Nat
      BY <1>2, <2>1 DEF RebuiltAreGone
    <3>2. QED
      BY <3>1
  <2>2. CASE s # session[p]
    BY <1>1, <2>2 DEF ReportedOnce
  <2>3. QED
    BY <2>1, <2>2
<1>8. QED
  BY <1>3, <1>4, <1>5, <1>6, <1>7

(***************************************************************************)
(* The snapshot of the summarised session goes.                            *)
(***************************************************************************)
LEMMA ClearOnce ==
    ASSUME RecoveryInv, ReportInv, NEW p \in Pids, Clear(p), TypeOK'
    PROVE  ReportInv'
<1> USE DEF ReportInv, TypeOK
<1>1. /\ pc[p] = "clearing" /\ pc' = [pc EXCEPT ![p] = "closed"]
      /\ UNCHANGED <<session, claimed, boots, clean, rebuilt, exposed>>
  BY DEF Clear, history
<1>2. /\ Snapshot(p) \in Names /\ file'[Snapshot(p)] = 0
      /\ \A n \in Names : n # Snapshot(p) => file'[n] = file[n]
  BY NameFacts DEF Clear
<1>3. OneCopy' /\ RebuiltAreGone' /\ ReportedOnce'
  BY <1>1, <1>2 DEF OneCopy, RebuiltAreGone, ReportedOnce, Running
<1>4. CleanAreCleared'
  <2> SUFFICES ASSUME NEW s \in clean, s \notin exposed, NEW m \in Names, file'[m] = s
               PROVE  \E q \in Pids : pc'[q] = "clearing" /\ session[q] = s /\ m = Snapshot(q)
    BY <1>1 DEF CleanAreCleared, Snapshot
  <2>1. m # Snapshot(p) /\ file[m] = s
    BY <1>2 DEF Sessions
  <2>2. PICK q \in Pids : pc[q] = "clearing" /\ session[q] = s /\ m = Snapshot(q)
    BY <2>1 DEF CleanAreCleared
  <2>3. QED
    BY <1>1, <2>1, <2>2
<1>5. RebuiltAreReleased'
  <2> SUFFICES ASSUME NEW s \in Sessions, s \notin exposed, NEW m \in Names, rebuilt[s] > 0,
                      file'[m] = s
               PROVE  \E q \in Pids : pc'[q] = "releasing" /\ m \in claimed'[q]
    BY <1>1 DEF RebuiltAreReleased, Sessions
  <2>1. file[m] = s
    BY <1>2 DEF Sessions
  <2>2. PICK q \in Pids : pc[q] = "releasing" /\ m \in claimed[q]
    BY <2>1 DEF RebuiltAreReleased
  <2>3. q # p
    BY <1>1, <2>2
  <2>4. QED
    BY <1>1, <2>2, <2>3
<1>6. QED
  BY <1>3, <1>4, <1>5

(***************************************************************************)
(* A new session is the first of its number.                               *)
(***************************************************************************)
LEMMA BootOnce ==
    ASSUME RecoveryInv, ReportInv, NEW p \in Pids, Boot(p), TypeOK'
    PROVE  ReportInv'
<1> USE DEF ReportInv, TypeOK
<1>1. /\ pc[p] = "off" /\ boots' = boots + 1
      /\ pc'[p] = "listing" /\ session'[p] = boots + 1
      /\ \A q \in Pids \ {p} : pc'[q] = pc[q] /\ session'[q] = session[q]
      /\ UNCHANGED <<claimed, file, clean, rebuilt, exposed>>
  BY DEF Boot
<1>2. OneCopy' /\ ReportedOnce'
  BY <1>1 DEF OneCopy, ReportedOnce
<1>3. RebuiltAreGone'
  <2> SUFFICES ASSUME NEW s \in Sessions, rebuilt[s] > 0
               PROVE  s <= boots' /\ \A q \in Pids : pc'[q] # "off" => session'[q] # s
    BY <1>1 DEF RebuiltAreGone, Running, Sessions
  <2>1. s <= boots /\ s \in Nat /\ boots \in Nat
    BY DEF RebuiltAreGone, Sessions
  <2>2. \A q \in Pids : pc[q] # "off" => session[q] # s
    BY DEF RebuiltAreGone, Running
  <2>3. QED
    BY <1>1, <2>1, <2>2
<1>4. CleanAreCleared'
  <2> SUFFICES ASSUME NEW s \in clean, s \notin exposed, NEW m \in Names, file[m] = s
               PROVE  \E q \in Pids : pc'[q] = "clearing" /\ session'[q] = s /\ m = Snapshot(q)
    BY <1>1 DEF CleanAreCleared, Snapshot
  <2>1. PICK q \in Pids : pc[q] = "clearing" /\ session[q] = s /\ m = Snapshot(q)
    BY DEF CleanAreCleared
  <2>2. QED
    BY <1>1, <2>1
<1>5. RebuiltAreReleased'
  <2> SUFFICES ASSUME NEW s \in Sessions, s \notin exposed, NEW m \in Names, rebuilt[s] > 0,
                      file[m] = s
               PROVE  \E q \in Pids : pc'[q] = "releasing" /\ m \in claimed[q]
    BY <1>1 DEF RebuiltAreReleased, Sessions
  <2>1. PICK q \in Pids : pc[q] = "releasing" /\ m \in claimed[q]
    BY DEF RebuiltAreReleased
  <2>2. QED
    BY <1>1, <2>1
<1>6. QED
  BY <1>2, <1>3, <1>4, <1>5

(***************************************************************************)
(* A process that ends between a summary and the removal of its snapshot   *)
(* gives a reason; when it ends elsewhere nothing was half done.           *)
(***************************************************************************)
LEMMA EndOnce ==
    ASSUME RecoveryInv, ReportInv, NEW p \in Pids, Exit(p) \/ Die(p), TypeOK'
    PROVE  ReportInv'
<1> USE DEF ReportInv, TypeOK
<1>1. /\ pc'[p] = "off"
      /\ \A q \in Pids \ {p} : pc'[q] = pc[q] /\ claimed'[q] = claimed[q]
      /\ UNCHANGED <<session, file, boots, clean, rebuilt>>
      /\ exposed \subseteq exposed'
  BY DEF Exit, Die, Ended, history
<1>2. /\ pc[p] = "clearing" => session[p] \in exposed'
      /\ pc[p] = "releasing" => \A s \in Sessions : Claimed(p, s) # {} => s \in exposed'
  BY DEF Exit, Die, HalfDone
<1>3. OneCopy' /\ RebuiltAreGone' /\ ReportedOnce'
  BY <1>1 DEF OneCopy, RebuiltAreGone, ReportedOnce, Running
<1>4. CleanAreCleared'
  <2> SUFFICES ASSUME NEW s \in clean, s \notin exposed', NEW m \in Names, file[m] = s
               PROVE  \E q \in Pids : pc'[q] = "clearing" /\ session[q] = s /\ m = Snapshot(q)
    BY <1>1 DEF CleanAreCleared, Snapshot
  <2>1. PICK q \in Pids : pc[q] = "clearing" /\ session[q] = s /\ m = Snapshot(q)
    BY <1>1 DEF CleanAreCleared
  <2>2. q # p
    BY <1>2, <2>1
  <2>3. QED
    BY <1>1, <2>1, <2>2
<1>5. RebuiltAreReleased'
  <2> SUFFICES ASSUME NEW s \in Sessions, s \notin exposed', NEW m \in Names, rebuilt[s] > 0,
                      file[m] = s
               PROVE  \E q \in Pids : pc'[q] = "releasing" /\ m \in claimed'[q]
    BY <1>1 DEF RebuiltAreReleased, Sessions
  <2>1. PICK q \in Pids : pc[q] = "releasing" /\ m \in claimed[q]
    BY <1>1 DEF RebuiltAreReleased
  <2>2. q # p
    BY <1>2, <2>1 DEF Claimed
  <2>3. QED
    BY <1>1, <2>1, <2>2
<1>6. QED
  BY <1>3, <1>4, <1>5

(***************************************************************************)
(* The other steps change no file, claim or summary.                       *)
(***************************************************************************)
LEMMA QuietReportedOnce ==
    ASSUME RecoveryInv, ReportInv, NEW p \in Pids, List(p) \/ AllTaken(p) \/ Shutdown(p), TypeOK'
    PROVE  ReportInv'
<1> USE DEF ReportInv, TypeOK
<1>1. /\ pc[p] \notin {"off", "clearing", "releasing"} /\ pc'[p] # "off"
      /\ \A q \in Pids \ {p} : pc'[q] = pc[q]
      /\ UNCHANGED <<session, claimed, file, boots, clean, rebuilt, exposed>>
  BY DEF List, AllTaken, Shutdown, history
<1>2. OneCopy' /\ RebuiltAreGone' /\ ReportedOnce'
  BY <1>1 DEF OneCopy, RebuiltAreGone, ReportedOnce, Running
<1>3. CleanAreCleared'
  BY <1>1 DEF CleanAreCleared, Snapshot
<1>4. RebuiltAreReleased'
  BY <1>1 DEF RebuiltAreReleased
<1>5. QED
  BY <1>2, <1>3, <1>4

(***************************************************************************)
(* Every step keeps the invariant.                                         *)
(***************************************************************************)
LEMMA OnceStep ==
    ASSUME RecoveryInv, ReportInv, [Next]_vars
    PROVE  ReportInv'
<1>1. TypeOK'
  BY TypeOKStep DEF ReportInv
<1>2. CASE UNCHANGED vars
  BY <1>1, <1>2 DEF vars, system, history, ReportInv, OneCopy, RebuiltAreGone, CleanAreCleared,
     RebuiltAreReleased, ReportedOnce, Running, Snapshot
<1>3. CASE Next
  <2>1. PICK p \in Pids :
          \/ Boot(p) \/ Take(p) \/ Report(p) \/ Release(p) \/ RecordCall(p) \/ Clear(p)
          \/ Summarise(p) \/ Exit(p) \/ Die(p)
          \/ List(p) \/ AllTaken(p) \/ Shutdown(p)
    BY <1>3 DEF Next
  <2>2. QED
    BY <1>1, <2>1, BootOnce, TakeOnce, ReportOnce, ReleaseOnce, RecordCallOnce, ClearOnce,
       SummariseOnce, EndOnce, QuietReportedOnce
<1>4. QED
  BY <1>2, <1>3

(***************************************************************************)
(* A session is reported twice only when a kill came between a summary and *)
(* the removal of its snapshot, or when a call was recorded after its      *)
(* clean summary: for any number of siblings that start, shut down and die *)
(* together, and even when the system gives a pid out again.               *)
(***************************************************************************)
THEOREM NoSessionIsReportedTwice == Spec => []SummaryInv
<1>1. Init => ReportInv
  BY TypesInit, SessionAssumption DEF Init, Types, ReportInv, TypeOK, OneCopy, RebuiltAreGone,
     CleanAreCleared, RebuiltAreReleased, ReportedOnce, Sessions
<1>2. RecoveryInv /\ ReportInv /\ [Next]_vars => ReportInv'
  BY OnceStep
<1>3. ReportInv => SummaryInv
  BY DEF ReportInv, SummaryInv
<1>4. QED
  BY <1>1, <1>2, <1>3, RecoverySafety, PTL DEF Spec

(***************************************************************************)
(* What a sequence is, and what is in it.                                  *)
(***************************************************************************)
LEMMA SeqFacts ==
    ASSUME NEW S, NEW s \in Seq(S)
    PROVE  /\ Len(s) \in Nat
           /\ \A i \in 1 .. Len(s) : s[i] \in S
           /\ Range(s) = {s[i] : i \in 1 .. Len(s)}
           /\ Range(s) \subseteq S
           /\ Range(s) = {} <=> s = <<>>
  <1>1. Len(s) \in Nat /\ DOMAIN s = 1 .. Len(s) /\ \A i \in 1 .. Len(s) : s[i] \in S
    BY LenProperties, ElementOfSeq
  <1>2. Range(s) = {s[i] : i \in 1 .. Len(s)}
    BY <1>1 DEF Range
  <1>3. s # <<>> => Range(s) # {}
    <2>1. s # <<>> => 1 \in 1 .. Len(s)
      BY <1>1, EmptySeq
    <2>2. QED
      BY <2>1, <1>2
  <1>4. s = <<>> => Range(s) = {}
    <2>1. s = <<>> => 1 .. Len(s) = {}
      BY EmptySeq
    <2>2. QED
      BY <2>1, <1>2
  <1>5. QED
    BY <1>1, <1>2, <1>3, <1>4

(***************************************************************************)
(* A part of a sequence.                                                   *)
(***************************************************************************)
LEMMA PartFacts ==
    ASSUME NEW S, NEW s \in Seq(S), NEW a \in Nat \ {0}, NEW b \in Nat, b <= Len(s)
    PROVE  /\ SubSeq(s, a, b) \in Seq(S)
           /\ Range(SubSeq(s, a, b)) = {s[i] : i \in a .. b}
  <1>1. Len(s) \in Nat /\ \A i \in 1 .. Len(s) : s[i] \in S
    BY SeqFacts
  <1>2. \A i \in a .. b : s[i] \in S
    BY <1>1
  <1> DEFINE t == SubSeq(s, a, b)
  <1>3. /\ t \in Seq(S)
        /\ Len(t) = IF a <= b THEN b - a + 1 ELSE 0
        /\ \A i \in 1 .. b - a + 1 : t[i] = s[a + i - 1]
    BY <1>2, SubSeqProperties
  <1>4. Range(t) = {t[i] : i \in 1 .. Len(t)}
    <2> HIDE DEF t
    <2> QED
      BY <1>3, SeqFacts
  <1>5. ASSUME NEW e \in Range(t)
        PROVE  e \in {s[i] : i \in a .. b}
    <2>1. PICK i \in 1 .. Len(t) : e = t[i]
      BY <1>4, <1>5
    <2>2. i \in 1 .. b - a + 1 /\ a + i - 1 \in a .. b
      BY <2>1, <1>3
    <2>3. e = s[a + i - 1]
      BY <2>1, <2>2, <1>3
    <2>4. QED
      BY <2>2, <2>3
  <1>6. ASSUME NEW i \in a .. b
        PROVE  s[i] \in Range(t)
    <2>1. /\ i + 1 - a \in 1 .. b - a + 1 /\ i + 1 - a \in 1 .. Len(t)
          /\ a + (i + 1 - a) - 1 = i
      BY <1>3
    <2>2. s[i] = t[i + 1 - a]
      <3> HIDE DEF t
      <3> QED
        BY <2>1, <1>3
    <2>3. QED
      BY <2>1, <2>2, <1>4
  <1>7. QED
    BY <1>3, <1>5, <1>6

(***************************************************************************)
(* The newest elements of a sequence.                                      *)
(***************************************************************************)
LEMMA NewestFacts ==
    ASSUME NEW S, NEW s \in Seq(S), NEW n \in Nat
    PROVE  Newest(s, n) \in Seq(S) /\ Range(Newest(s, n)) \subseteq Range(s)
  <1>1. Len(s) \in Nat /\ Range(s) = {s[i] : i \in 1 .. Len(s)}
    BY SeqFacts
  <1>2. CASE Len(s) <= n
    BY <1>2 DEF Newest
  <1>3. CASE ~(Len(s) <= n)
    <2> DEFINE a == Len(s) - n + 1
    <2>1. a \in Nat \ {0} /\ Len(s) <= Len(s) /\ \A i \in a .. Len(s) : i \in 1 .. Len(s)
      BY <1>1, <1>3
    <2>2. Newest(s, n) = SubSeq(s, a, Len(s))
      BY <1>3 DEF Newest
    <2>3. Newest(s, n) \in Seq(S) /\ Range(Newest(s, n)) = {s[i] : i \in a .. Len(s)}
      <3> HIDE DEF a
      <3>1. SubSeq(s, a, Len(s)) \in Seq(S) /\ Range(SubSeq(s, a, Len(s))) = {s[i] : i \in a .. Len(s)}
        BY <2>1, <1>1, PartFacts
      <3>2. QED
        BY <3>1, <2>2
    <2>4. QED
      <3> HIDE DEF a
      <3> QED
        BY <2>1, <2>3, <1>1
  <1>4. QED
    BY <1>2, <1>3

(***************************************************************************)
(* The elements of a sequence up to an index, and those after it.          *)
(***************************************************************************)
UpTo(s, n)   == {s[i] : i \in {j \in 1 .. Len(s) : j <= n}}
Beyond(s, n) == {s[i] : i \in {j \in 1 .. Len(s) : j > n}}

(***************************************************************************)
(* What is in a sequence is in its beginning or after that.                *)
(***************************************************************************)
LEMMA CutFacts ==
    ASSUME NEW S, NEW s \in Seq(S), NEW n \in Nat
    PROVE  /\ First(s, n) \in Seq(S) /\ From(s, n) \in Seq(S)
           /\ Range(First(s, n)) = UpTo(s, n)
           /\ Range(From(s, n)) = Beyond(s, n)
           /\ Range(s) = Range(First(s, n)) \cup Range(From(s, n))
  <1>1. Len(s) \in Nat /\ Range(s) = {s[i] : i \in 1 .. Len(s)}
    BY SeqFacts
  <1>2. CASE n < Len(s)
    <2> DEFINE a == n + 1
    <2>1. /\ 1 \in Nat \ {0} /\ n <= Len(s) /\ a \in Nat \ {0} /\ Len(s) <= Len(s)
          /\ 1 .. n = {j \in 1 .. Len(s) : j <= n} /\ a .. Len(s) = {j \in 1 .. Len(s) : j > n}
      BY <1>1, <1>2
    <2>2. First(s, n) = SubSeq(s, 1, n) /\ From(s, n) = SubSeq(s, a, Len(s))
      BY <1>2 DEF First, From
    <2>3. First(s, n) \in Seq(S) /\ Range(First(s, n)) = {s[i] : i \in 1 .. n}
      <3> HIDE DEF a
      <3>1. SubSeq(s, 1, n) \in Seq(S) /\ Range(SubSeq(s, 1, n)) = {s[i] : i \in 1 .. n}
        BY <2>1, PartFacts
      <3>2. QED
        BY <3>1, <2>2
    <2>4. From(s, n) \in Seq(S) /\ Range(From(s, n)) = {s[i] : i \in a .. Len(s)}
      <3> HIDE DEF a
      <3> QED
        BY <2>1, <2>2, <1>1, PartFacts
    <2>5. Range(First(s, n)) = UpTo(s, n) /\ Range(From(s, n)) = Beyond(s, n)
      BY <2>1, <2>3, <2>4 DEF UpTo, Beyond
    <2>6. \A i \in 1 .. Len(s) : i <= n \/ i > n
      BY <1>1
    <2>7. Range(s) = Range(First(s, n)) \cup Range(From(s, n))
      BY <2>5, <2>6, <1>1 DEF UpTo, Beyond
    <2>8. QED
      BY <2>3, <2>4, <2>5, <2>7
  <1>3. CASE ~(n < Len(s))
    <2>1. First(s, n) = s
      BY <1>3 DEF First
    <2>2. n + 1 \in Int /\ Len(s) \in Int /\ Len(s) < n + 1
      BY <1>1, <1>3
    <2>3. From(s, n) = <<>>
      BY <2>2, SubSeqEmpty DEF From
    <2>4. <<>> \in Seq(S) /\ Range(<<>>) = {}
      BY EmptySeq, SeqFacts
    <2>5. 1 .. Len(s) = {j \in 1 .. Len(s) : j <= n} /\ {j \in 1 .. Len(s) : j > n} = {}
      BY <1>1, <1>3
    <2>6. QED
      BY <2>1, <2>3, <2>4, <2>5, <1>1 DEF UpTo, Beyond
  <1>4. QED
    BY <1>2, <1>3

(***************************************************************************)
(* A cut at the end.                                                       *)
(***************************************************************************)
LEMMA WholeFacts ==
    ASSUME NEW S, NEW s \in Seq(S)
    PROVE  First(s, Len(s)) = s /\ From(s, Len(s)) = <<>>
  <1>1. Len(s) \in Nat /\ Len(s) + 1 \in Int /\ Len(s) < Len(s) + 1 /\ ~(Len(s) < Len(s))
    BY SeqFacts
  <1>2. QED
    BY <1>1, SubSeqEmpty DEF First, From

(***************************************************************************)
(* Continuing a sequence.                                                  *)
(***************************************************************************)
LEMMA JoinFacts ==
    ASSUME NEW S, NEW s \in Seq(S), NEW t \in Seq(S)
    PROVE  /\ s \o t \in Seq(S)
           /\ Len(s \o t) = Len(s) + Len(t)
           /\ Range(s \o t) = Range(s) \cup Range(t)
  <1>1. /\ Len(s) \in Nat /\ Range(s) = {s[i] : i \in 1 .. Len(s)}
        /\ Len(t) \in Nat /\ Range(t) = {t[i] : i \in 1 .. Len(t)}
    BY SeqFacts
  <1>2. /\ s \o t \in Seq(S) /\ Len(s \o t) = Len(s) + Len(t)
        /\ \A i \in 1 .. Len(s) + Len(t) :
             (s \o t)[i] = IF i <= Len(s) THEN s[i] ELSE t[i - Len(s)]
    BY ConcatProperties
  <1>3. Range(s \o t) = {(s \o t)[i] : i \in 1 .. Len(s) + Len(t)}
    <2>1. Range(s \o t) = {(s \o t)[i] : i \in 1 .. Len(s \o t)}
      BY <1>2, SeqFacts
    <2>2. QED
      BY <2>1, <1>2
  <1>4. ASSUME NEW e \in Range(s \o t)
        PROVE  e \in Range(s) \cup Range(t)
    <2>1. PICK i \in 1 .. Len(s) + Len(t) : e = (s \o t)[i]
      BY <1>3, <1>4
    <2>2. CASE i <= Len(s)
      BY <2>1, <2>2, <1>1, <1>2
    <2>3. CASE ~(i <= Len(s))
      <3>1. i - Len(s) \in 1 .. Len(t) /\ e = t[i - Len(s)]
        BY <2>1, <2>3, <1>1, <1>2
      <3>2. QED
        BY <3>1, <1>1
    <2>4. QED
      BY <2>2, <2>3
  <1>5. ASSUME NEW e \in Range(s)
        PROVE  e \in Range(s \o t)
    <2>1. PICK i \in 1 .. Len(s) : e = s[i]
      BY <1>1, <1>5
    <2>2. i \in 1 .. Len(s) + Len(t) /\ e = (s \o t)[i]
      BY <2>1, <1>1, <1>2
    <2>3. QED
      BY <2>2, <1>3
  <1>6. ASSUME NEW e \in Range(t)
        PROVE  e \in Range(s \o t)
    <2>1. PICK i \in 1 .. Len(t) : e = t[i]
      BY <1>1, <1>6
    <2>2. /\ i + Len(s) \in 1 .. Len(s) + Len(t) /\ ~(i + Len(s) <= Len(s))
          /\ (i + Len(s)) - Len(s) = i
      BY <1>1
    <2>3. e = (s \o t)[i + Len(s)]
      BY <2>1, <2>2, <1>2
    <2>4. QED
      BY <2>2, <2>3, <1>3
  <1>7. QED
    BY <1>2, <1>4, <1>5, <1>6

(***************************************************************************)
(* A cut of a sequence that has been continued.                            *)
(***************************************************************************)
LEMMA CutOfJoin ==
    ASSUME NEW S, NEW s \in Seq(S), NEW t \in Seq(S), NEW n \in Nat, n <= Len(s)
    PROVE  /\ Range(First(s \o t, n)) = Range(First(s, n))
           /\ Range(From(s \o t, n)) = Range(From(s, n)) \cup Range(t)
  <1>1. /\ Len(s) \in Nat
        /\ Len(t) \in Nat /\ Range(t) = {t[i] : i \in 1 .. Len(t)}
    BY SeqFacts
  <1>2. /\ s \o t \in Seq(S) /\ Len(s \o t) = Len(s) + Len(t)
        /\ \A i \in 1 .. Len(s) + Len(t) :
             (s \o t)[i] = IF i <= Len(s) THEN s[i] ELSE t[i - Len(s)]
    BY ConcatProperties
  <1>3. /\ Range(First(s, n)) = {s[i] : i \in {j \in 1 .. Len(s) : j <= n}}
        /\ Range(From(s, n)) = {s[i] : i \in {j \in 1 .. Len(s) : j > n}}
    <2>1. Range(First(s, n)) = UpTo(s, n) /\ Range(From(s, n)) = Beyond(s, n)
      BY CutFacts
    <2>2. QED
      BY <2>1 DEF UpTo, Beyond
  <1>4. /\ Range(First(s \o t, n)) = {(s \o t)[i] : i \in {j \in 1 .. Len(s) + Len(t) : j <= n}}
        /\ Range(From(s \o t, n)) = {(s \o t)[i] : i \in {j \in 1 .. Len(s) + Len(t) : j > n}}
    <2>1. Range(First(s \o t, n)) = UpTo(s \o t, n) /\ Range(From(s \o t, n)) = Beyond(s \o t, n)
      <3>1. s \o t \in Seq(S)
        BY <1>2
      <3>2. \A u \in Seq(S) : Range(First(u, n)) = UpTo(u, n) /\ Range(From(u, n)) = Beyond(u, n)
        BY CutFacts
      <3>3. QED
        BY <3>1, <3>2, Zenon
    <2>2. \A i : i \in 1 .. Len(s \o t) <=> i \in 1 .. Len(s) + Len(t)
      BY <1>2
    <2>3. Range(First(s \o t, n)) = {(s \o t)[i] : i \in {j \in 1 .. Len(s) + Len(t) : j <= n}}
      BY <2>1, <2>2 DEF UpTo
    <2>4. Range(From(s \o t, n)) = {(s \o t)[i] : i \in {j \in 1 .. Len(s) + Len(t) : j > n}}
      BY <2>1, <2>2 DEF Beyond
    <2>5. QED
      BY <2>3, <2>4
  <1>5. Range(First(s \o t, n)) = Range(First(s, n))
    <2>1. {j \in 1 .. Len(s) + Len(t) : j <= n} = {j \in 1 .. Len(s) : j <= n}
      BY <1>1
    <2>2. \A i \in {j \in 1 .. Len(s) : j <= n} : (s \o t)[i] = s[i]
      BY <1>1, <1>2
    <2>3. QED
      BY <2>1, <2>2, <1>3, <1>4
  <1>6. ASSUME NEW e \in Range(From(s \o t, n))
        PROVE  e \in Range(From(s, n)) \cup Range(t)
    <2>1. PICK i \in 1 .. Len(s) + Len(t) : e = (s \o t)[i] /\ i > n
      BY <1>4, <1>6
    <2>2. CASE i <= Len(s)
      <3>1. e = s[i] /\ i \in {j \in 1 .. Len(s) : j > n}
        BY <2>1, <2>2, <1>1, <1>2
      <3>2. QED
        BY <3>1, <1>3
    <2>3. CASE ~(i <= Len(s))
      <3>1. i - Len(s) \in 1 .. Len(t) /\ e = t[i - Len(s)]
        BY <2>1, <2>3, <1>1, <1>2
      <3>2. QED
        BY <3>1, <1>1
    <2>4. QED
      BY <2>2, <2>3
  <1>7. ASSUME NEW e \in Range(From(s, n))
        PROVE  e \in Range(From(s \o t, n))
    <2>1. PICK i \in 1 .. Len(s) : e = s[i] /\ i > n
      BY <1>3, <1>7
    <2>2. i \in {j \in 1 .. Len(s) + Len(t) : j > n} /\ e = (s \o t)[i]
      BY <2>1, <1>1, <1>2
    <2>3. QED
      BY <2>2, <1>4
  <1>8. ASSUME NEW e \in Range(t)
        PROVE  e \in Range(From(s \o t, n))
    <2>1. PICK i \in 1 .. Len(t) : e = t[i]
      BY <1>1, <1>8
    <2>2. /\ i + Len(s) \in {j \in 1 .. Len(s) + Len(t) : j > n}
          /\ i + Len(s) \in 1 .. Len(s) + Len(t)
          /\ ~(i + Len(s) <= Len(s)) /\ (i + Len(s)) - Len(s) = i
      BY <1>1
    <2>3. e = (s \o t)[i + Len(s)]
      BY <2>1, <2>2, <1>2
    <2>4. QED
      BY <2>2, <2>3, <1>4
  <1>9. QED
    BY <1>5, <1>6, <1>7, <1>8

(***************************************************************************)
(* The first element of a sequence and the others.                         *)
(***************************************************************************)
LEMMA TailFacts ==
    ASSUME NEW S, NEW s \in Seq(S), s # <<>>
    PROVE  /\ Head(s) \in S /\ Tail(s) \in Seq(S)
           /\ Range(s) = {Head(s)} \cup Range(Tail(s))
           /\ (\A i, j \in DOMAIN s : s[i] = s[j] => i = j) =>
                /\ Head(s) \notin Range(Tail(s))
                /\ \A i, j \in DOMAIN Tail(s) : Tail(s)[i] = Tail(s)[j] => i = j
  <1>1. /\ Len(s) \in Nat \ {0} /\ DOMAIN s = 1 .. Len(s)
        /\ Range(s) = {s[i] : i \in 1 .. Len(s)}
    BY SeqFacts, EmptySeq, LenProperties
  <1>2. PICK t : t = Tail(s)
    OBVIOUS
  <1>3. t \in Seq(S) /\ Len(t) = Len(s) - 1 /\ \A i \in 1 .. Len(t) : t[i] = s[i + 1]
    BY <1>2, HeadTailProperties
  <1>4. DOMAIN t = 1 .. Len(t) /\ Range(t) = {t[i] : i \in 1 .. Len(t)}
    BY <1>3, SeqFacts, LenProperties
  <1>5. Head(s) \in S /\ Head(s) = s[1]
    BY HeadTailProperties
  <1>6. Range(s) = {s[1]} \cup Range(t)
    <2>1. \A i \in 1 .. Len(s) : i = 1 \/ (i - 1 \in 1 .. Len(t) /\ s[i] = t[i - 1])
      BY <1>1, <1>3
    <2>2. 1 \in 1 .. Len(s) /\ \A i \in 1 .. Len(t) : i + 1 \in 1 .. Len(s)
      BY <1>1, <1>3
    <2>3. QED
      BY <2>1, <2>2, <1>1, <1>3, <1>4
  <1>7. ASSUME \A i, j \in DOMAIN s : s[i] = s[j] => i = j
        PROVE  s[1] \notin Range(t) /\ \A i, j \in DOMAIN t : t[i] = t[j] => i = j
    <2>1. \A i \in 1 .. Len(t) : i + 1 \in DOMAIN s /\ i + 1 # 1 /\ 1 \in DOMAIN s
      BY <1>1, <1>3
    <2>2. s[1] \notin Range(t)
      BY <2>1, <1>3, <1>4, <1>7
    <2>3. ASSUME NEW i \in DOMAIN t, NEW j \in DOMAIN t, t[i] = t[j]
          PROVE  i = j
      <3>1. i + 1 \in DOMAIN s /\ j + 1 \in DOMAIN s /\ s[i + 1] = s[j + 1]
        BY <2>1, <2>3, <1>3, <1>4
      <3>2. i + 1 = j + 1
        BY <3>1, <1>7
      <3>3. QED
        BY <3>2, <1>4
    <2>4. QED
      BY <2>2, <2>3
  <1>8. QED
    BY <1>2, <1>3, <1>5, <1>6, <1>7

(***************************************************************************)
(* A sequence with one more element.                                       *)
(***************************************************************************)
LEMMA AppendFacts ==
    ASSUME NEW S, NEW s \in Seq(S), NEW e \in S
    PROVE  /\ Append(s, e) \in Seq(S)
           /\ Range(Append(s, e)) = Range(s) \cup {e}
           /\ (\A i, j \in DOMAIN s : s[i] = s[j] => i = j) /\ e \notin Range(s) =>
                \A i, j \in DOMAIN Append(s, e) : Append(s, e)[i] = Append(s, e)[j] => i = j
  <1>1. Len(s) \in Nat /\ DOMAIN s = 1 .. Len(s) /\ Range(s) = {s[i] : i \in 1 .. Len(s)}
    BY SeqFacts, LenProperties
  <1>2. PICK t : t = Append(s, e)
    OBVIOUS
  <1>3. /\ t \in Seq(S) /\ Len(t) = Len(s) + 1 /\ t[Len(s) + 1] = e
        /\ \A i \in 1 .. Len(s) : t[i] = s[i]
    BY <1>2, AppendProperties
  <1>4. DOMAIN t = 1 .. Len(s) + 1 /\ Range(t) = {t[i] : i \in 1 .. Len(s) + 1}
    BY <1>3, SeqFacts, LenProperties
  <1>5. \A i \in 1 .. Len(s) + 1 : i \in 1 .. Len(s) \/ i = Len(s) + 1
    BY <1>1
  <1>6. 1 .. Len(s) \subseteq 1 .. Len(s) + 1 /\ Len(s) + 1 \in 1 .. Len(s) + 1
    BY <1>1
  <1>7. Range(t) = Range(s) \cup {e}
    BY <1>1, <1>3, <1>4, <1>5, <1>6
  <1>8. ASSUME \A i, j \in DOMAIN s : s[i] = s[j] => i = j, e \notin Range(s),
               NEW i \in DOMAIN t, NEW j \in DOMAIN t, t[i] = t[j]
        PROVE  i = j
    BY <1>1, <1>3, <1>4, <1>5, <1>8
  <1>9. QED
    BY <1>2, <1>3, <1>7, <1>8

(***************************************************************************)
(* The inductive invariant.  First the types.                              *)
(***************************************************************************)
AppendOps  == {"stat", "seize", "inspect", "tail", "reopen", "restore", "drop", "open", "write"}
Compacting == {"inspect", "tail", "reopen", "restore", "drop"}
Ops        == {"none", "list", "take", "read", "tails", "remove"} \cup AppendOps

(***************************************************************************)
(* The memories a process can have.                                        *)
(***************************************************************************)
Memories ==
    [usage : BOOLEAN, closed : BOOLEAN, queue : Seq(Events), flights : SUBSET Seq(Events),
     op : Ops, batch : Seq(Events), handle : Files \cup {0}, seized : Files \cup {0},
     mark : Nat, kept : Seq(Events), drain : {"none", "sending", "releasing"},
     listed : SUBSET [file : Files, holder : Processes], claimed : Seq(Files),
     consumed : SUBSET [file : Files, bytes : Nat], carried : SUBSET Files,
     unsent : Seq(Events)]

(***************************************************************************)
(* The types, without the bounds on files and mishaps.                     *)
(***************************************************************************)
OutboxTypes ==
    /\ running \subseteq pids /\ pids \subseteq Processes
    /\ mem \in [Processes -> Memories]
    /\ place \in [Files -> pids \cup {"live", "gone"}]
    /\ lines \in [Files -> Seq(Events)]
    /\ recorded \subseteq Events
    /\ sent \in [Events -> Nat]

(***************************************************************************)
(* What the memory of a process holds at each point of its code.           *)
(***************************************************************************)
Phase(m) ==
    /\ m.op \in {"list", "take", "read"} => m.drain = "none"
    /\ m.op \in {"tails", "remove"} => m.drain = "releasing"
    /\ m.op = "none" => m.drain # "releasing"
    /\ m.op \notin {"take", "read"} => m.claimed = <<>>
    /\ m.drain = "none" /\ m.op # "read" => m.unsent = <<>> /\ m.consumed = {}
    /\ m.drain # "releasing" => m.carried = {}
    /\ m.drain = "releasing" /\ m.op # "tails" => m.consumed = {} /\ m.unsent = <<>>
    /\ m.handle # 0 => m.op \in {"write", "restore"}
    /\ m.seized # 0 <=> m.op \in Compacting

(***************************************************************************)
(* A process that does not run has nothing in memory; one that runs is at  *)
(* such a point.                                                           *)
(***************************************************************************)
Phases ==
    /\ \A p \in Processes \ running : mem[p] = Blank
    /\ \A p \in running : Phase(mem[p])

(***************************************************************************)
(* There is one outbox at most, and deleted files are empty.               *)
(***************************************************************************)
Disk ==
    /\ \A f, g \in Live : f = g
    /\ \A f \in Files : place[f] = "gone" => lines[f] = <<>>

(***************************************************************************)
(* The files a process p with the memory m works on are in its hands, each *)
(* counted once, and it has none of them open to write to.                 *)
(***************************************************************************)
Holds(p, m) ==
    /\ \A f \in Claims(m) : place[f] = p
    /\ m.seized # 0 => place[m.seized] = p /\ m.seized \notin Claims(m)
    /\ m.handle # 0 => place[m.handle] # p
    /\ \A i, j \in DOMAIN m.claimed : m.claimed[i] = m.claimed[j] => i = j
    /\ \A c, d \in m.consumed : c.file = d.file => c = d
    /\ \A c \in m.consumed :
         /\ c.file \notin Range(m.claimed) /\ c.file \notin m.carried
         /\ c.bytes <= Len(lines[c.file])
    /\ m.op \in Compacting \ {"inspect"} => m.mark <= Len(lines[m.seized])
    /\ \A c \in m.listed : c.holder \in pids \ running

(***************************************************************************)
(* The invariant of the files and memories.                                *)
(***************************************************************************)
Shape == OutboxTypes /\ Phases /\ Disk /\ \A p \in running : Holds(p, mem[p])

(***************************************************************************)
(* What was written needs no more when it was given up for a reason, has   *)
(* strayed, or was sent.                                                   *)
(***************************************************************************)
Settled == forgone \cup strayed \cup {e \in Events : sent[e] > 0}

(***************************************************************************)
(* The lines that a compaction found after its first reading are kept;     *)
(* what a drain has read of its claims is not delivered yet, or settled.   *)
(***************************************************************************)
Carries(m) ==
    /\ m.op \in {"reopen", "restore"} =>
         Range(From(lines[m.seized], m.mark)) \subseteq Range(m.kept) \cup strayed
    /\ \A c \in m.consumed : Range(First(lines[c.file], c.bytes)) \subseteq Range(m.unsent) \cup Settled
    /\ m.op = "tails" => \A f \in m.carried : Range(lines[f]) \subseteq Range(m.unsent) \cup Settled
    /\ m.op \notin {"tails", "remove"} =>
         \A f \in m.carried : Range(lines[f]) \subseteq Range(m.batch) \cup Settled

(***************************************************************************)
(* A file about to be deleted by the process that has read it to its end.  *)
(***************************************************************************)
Doomed(f) == \E q \in Processes : HandedBack(q, f)

(***************************************************************************)
(* The lines a compaction is about to drop, which it counts when it does.  *)
(***************************************************************************)
Dropping(m) ==
    IF m.op = "drop" THEN Range(First(lines[m.seized], m.mark)) \ Range(m.kept) ELSE {}

Shows(f, e) == e \in Range(lines[f]) /\ ~Doomed(f)

(***************************************************************************)
(* A written event needs no more, is in a file that stays, or is about to  *)
(* be counted.                                                             *)
(***************************************************************************)
Kept(e) ==
    \/ e \in Settled
    \/ \E f \in Files : Shows(f, e)
    \/ \E q \in Processes : e \in Dropping(mem[q])

(***************************************************************************)
(* What was written is never lost, with what every drain carries.          *)
(***************************************************************************)
LossInv == (\A p \in running : Carries(mem[p])) /\ \A e \in written : Kept(e)

(***************************************************************************)
(* What a process has read and not delivered is in its claims, and what a  *)
(* compaction keeps in the file it has seized.                             *)
(***************************************************************************)
Reads(m) ==
    /\ \A e \in Range(m.unsent) :
         \/ \E c \in m.consumed : e \in Range(First(lines[c.file], c.bytes))
         \/ \E f \in m.carried : e \in Range(lines[f])
    /\ m.op = "tail" => Range(m.kept) \subseteq Range(First(lines[m.seized], m.mark))
    /\ m.op \in {"reopen", "restore"} => Range(m.kept) \subseteq Range(lines[m.seized])

(***************************************************************************)
(* What an append is to write, and where an event can be in memory.        *)
(***************************************************************************)
Batch(m) == IF m.op \in AppendOps THEN m.batch ELSE <<>>
Single(s, e) == \A i, j \in DOMAIN s : s[i] = e /\ s[j] = e => i = j
InFlight(m, e) == \E b \in m.flights : e \in Range(b)
Pending(m, e) == e \in Range(m.queue) \/ InFlight(m, e)
InMemory(m, e) == Pending(m, e) \/ e \in Range(Batch(m))

(***************************************************************************)
(* The drain m has had e of the file f answered, or handed it back.        *)
(***************************************************************************)
SentFrom(m, f, e) ==
    /\ e \notin Range(m.unsent)
    /\ \/ f \in m.carried
       \/ \E c \in m.consumed : c.file = f /\ e \in Range(First(lines[f], c.bytes))

(***************************************************************************)
(* The event is once in one memory at most.                                *)
(***************************************************************************)
OnceInMemory(m, e) ==
    /\ e \in Range(m.queue) => ~InFlight(m, e)
    /\ e \in Range(Batch(m)) => ~Pending(m, e)
    /\ \A b, d \in m.flights : e \in Range(b) /\ e \in Range(d) => b = d
    /\ \A b \in m.flights : Single(b, e)
    /\ Single(m.queue, e) /\ Single(Batch(m), e) /\ Single(m.unsent, e)
    /\ m.op \in {"tail", "reopen", "restore"} => Single(m.kept, e)

(***************************************************************************)
(* It is once in one file at most, apart from those about to be deleted.   *)
(***************************************************************************)
OnceOnDisk(e) ==
    /\ \A f, g \in Files : Shows(f, e) /\ Shows(g, e) => f = g
    /\ \A f \in Files : ~Doomed(f) => Single(lines[f], e)

(***************************************************************************)
(* An event that is in memory and on disk was read of that file by that    *)
(* process.                                                                *)
(***************************************************************************)
Apart(e) ==
    /\ \A p, q \in Processes : InMemory(mem[p], e) /\ InMemory(mem[q], e) => p = q
    /\ \A f \in Files, p \in Processes : Shows(f, e) =>
         /\ ~Pending(mem[p], e)
         /\ e \in Range(Batch(mem[p])) => f \in mem[p].carried

(***************************************************************************)
(* An event that was sent waits nowhere to be sent again.                  *)
(***************************************************************************)
SentOnce(e) ==
    /\ sent[e] <= 1
    /\ sent[e] = 1 =>
         /\ \A p \in Processes : ~InMemory(mem[p], e)
         /\ \A f \in Files : Shows(f, e) => \E q \in running : SentFrom(mem[q], f, e)

(***************************************************************************)
(* What was not recorded is nowhere.                                       *)
(***************************************************************************)
NotYet(e) ==
    e \notin recorded =>
      /\ sent[e] = 0
      /\ \A p \in Processes : ~InMemory(mem[p], e)
      /\ \A f \in Files : e \notin Range(lines[f])

(***************************************************************************)
(* An event e that is not in doubt is in one file and in the memory of one *)
(* process at most, once; the two overlap only in what was read of a claim *)
(* and not delivered.  When it has been sent it is in no memory, and in no *)
(* file but one of a drain that has sent it.                               *)
(***************************************************************************)
Once(e) ==
    (\A p \in Processes : OnceInMemory(mem[p], e)) /\ OnceOnDisk(e) /\ Apart(e)
      /\ SentOnce(e) /\ NotYet(e)

(***************************************************************************)
(* The invariant behind SentTwiceForAReason.                               *)
(***************************************************************************)
OnceInv == (\A p \in running : Reads(mem[p])) /\ \A e \in Events \ doubtful : Once(e)

(***************************************************************************)
(* The types of the fields of a memory.                                    *)
(***************************************************************************)
LEMMA FieldTypes ==
    ASSUME NEW m \in Memories
    PROVE  /\ m.queue \in Seq(Events) /\ m.batch \in Seq(Events) /\ m.kept \in Seq(Events)
           /\ m.unsent \in Seq(Events) /\ m.claimed \in Seq(Files)
           /\ m.flights \subseteq Seq(Events) /\ m.carried \subseteq Files
           /\ m.listed \subseteq [file : Files, holder : Processes]
           /\ m.consumed \subseteq [file : Files, bytes : Nat]
           /\ \A c \in m.consumed : c.file \in Files /\ c.bytes \in Nat
           /\ m.handle \in Files \cup {0} /\ m.seized \in Files \cup {0}
           /\ m.op \in Ops /\ m.mark \in Nat /\ m.drain \in {"none", "sending", "releasing"}
  BY DEF Memories

(***************************************************************************)
(* An empty memory is one, and that of a process that starts.              *)
(***************************************************************************)
LEMMA BlankFacts ==
    /\ Blank \in Memories /\ Phase(Blank)
    /\ \A consent \in BOOLEAN :
         LET m == [Blank EXCEPT !.usage = consent, !.op = "list"]
         IN  m \in Memories /\ Phase(m) /\ \A p : Holds(p, m)
  <1>1. \A S : <<>> \in Seq(S)
    BY EmptySeq
  <1>2. Blank \in Memories
    BY <1>1 DEF Blank, Memories, Ops, AppendOps
  <1>3. Phase(Blank)
    BY DEF Blank, Phase, Compacting
  <1>4. ASSUME NEW consent \in BOOLEAN
        PROVE  LET m == [Blank EXCEPT !.usage = consent, !.op = "list"]
               IN  m \in Memories /\ Phase(m) /\ \A p : Holds(p, m)
    <2> DEFINE m == [Blank EXCEPT !.usage = consent, !.op = "list"]
    <2>1. m \in Memories /\ Phase(m)
      BY <1>1, <1>4 DEF Blank, Memories, Ops, AppendOps, Phase, Compacting
    <2>2. /\ m.claimed = <<>> /\ m.consumed = {} /\ m.carried = {} /\ m.listed = {}
          /\ m.seized = 0 /\ m.handle = 0 /\ m.op = "list"
      BY DEF Blank
    <2>3. Range(<<>>) = {} /\ DOMAIN <<>> = {}
      BY EmptySeq, SeqFacts DEF Range
    <2>4. \A p : Holds(p, m)
      <3> HIDE DEF m
      <3> QED
        BY <2>2, <2>3 DEF Holds, Claims, Compacting
    <2>5. QED
      BY <2>1, <2>4
  <1>5. QED
    BY <1>2, <1>3, <1>4

(***************************************************************************)
(* The memory of a running process.                                        *)
(***************************************************************************)
Fit(p, m) == m \in Memories /\ Phase(m) /\ Holds(p, m)

(***************************************************************************)
(* What is known of a process that acts.                                   *)
(***************************************************************************)
LEMMA ActorFacts ==
    ASSUME Shape, NEW p \in running
    PROVE  p \in Processes /\ p \in pids /\ Fit(p, mem[p])
  BY DEF Shape, OutboxTypes, Phases, Fit

(***************************************************************************)
(* What a step of a process leaves of what the others rely on: their       *)
(* memories, and that their claims stay theirs and only grow.              *)
(***************************************************************************)
Frame(p) ==
    /\ \A q \in Processes \ {p} : mem'[q] = mem[q]
    /\ running \ {p} = running' \ {p}
    /\ pids \subseteq pids'
    /\ p \in running' => p \in running \/ p \notin pids
    /\ \A f \in Files : place'[f] \in {place[f], p, "live", "gone"}
    /\ \A f \in Files : place[f] \in running \ {p} =>
         place'[f] = place[f] /\ \E t \in Seq(Events) : lines'[f] = lines[f] \o t

(***************************************************************************)
(* What a step of p keeps: its own part of Shape, and the frame of the     *)
(* others.                                                                 *)
(***************************************************************************)
ShapeStep(p) ==
    /\ Frame(p) /\ OutboxTypes' /\ Disk'
    /\ IF p \in running' THEN Phase(mem'[p]) /\ Holds(p, mem[p])' ELSE mem'[p] = Blank

(***************************************************************************)
(* The claims of another process stay in order.                            *)
(***************************************************************************)
LEMMA OthersHold ==
    ASSUME Shape, NEW p \in Processes, ShapeStep(p), NEW q \in running, q # p
    PROVE  q \in running' /\ Phase(mem'[q]) /\ Holds(q, mem[q])'
  <1>1. /\ q \in Processes /\ q \in pids /\ mem[q] \in Memories /\ Phase(mem[q]) /\ Holds(q, mem[q])
        /\ mem'[q] = mem[q] /\ q \in running'
    BY ActorFacts DEF Fit, ShapeStep, Frame
  <1>2. PICK m : m = mem[q]
    OBVIOUS
  <1>3. /\ m.claimed \in Seq(Files) /\ m.carried \subseteq Files
        /\ \A c \in m.consumed : c.file \in Files /\ c.bytes \in Nat
        /\ m.handle \in Files \cup {0} /\ m.seized \in Files \cup {0} /\ m.mark \in Nat
        /\ Range(m.claimed) \subseteq Files
    <2>1. m.claimed \in Seq(Files)
      BY <1>2, <1>1, FieldTypes
    <2>2. QED
      BY <1>2, <1>1, <2>1, FieldTypes, SeqFacts
  <1>4. Claims(m) \subseteq Files
    BY <1>3 DEF Claims
  <1>5. \A f \in Files : place[f] = q => place'[f] = q /\ Len(lines[f]) <= Len(lines'[f])
    <2> SUFFICES ASSUME NEW f \in Files, place[f] = q
                 PROVE  place'[f] = q /\ Len(lines[f]) <= Len(lines'[f])
      OBVIOUS
    <2>1. PICK t \in Seq(Events) : place'[f] = q /\ lines'[f] = lines[f] \o t
      BY <1>1 DEF ShapeStep, Frame
    <2>2. lines[f] \in Seq(Events)
      BY DEF Shape, OutboxTypes
    <2>3. Len(lines'[f]) = Len(lines[f]) + Len(t) /\ Len(t) \in Nat /\ Len(lines[f]) \in Nat
      BY <2>1, <2>2, JoinFacts, SeqFacts
    <2>4. QED
      BY <2>1, <2>3
  <1>6. \A f \in Files : place[f] # q => place'[f] # q
    <2>1. q \notin {p, "live", "gone"}
      BY <1>1, OutboxAssumption
    <2>2. QED
      BY <2>1 DEF ShapeStep, Frame
  <1>7. \A c \in m.listed : c.holder \in pids' \ running'
    <2> SUFFICES ASSUME NEW c \in m.listed
                 PROVE  c.holder \in pids' \ running'
      OBVIOUS
    <2>1. c.holder \in pids \ running
      BY <1>2, <1>1 DEF Holds
    <2>2. QED
      BY <2>1 DEF ShapeStep, Frame
  <1>8. 0 \notin Files
    BY OutboxAssumption
  <1>9. \A f \in Files : Len(lines[f]) \in Nat /\ Len(lines'[f]) \in Nat
    <2>1. \A f \in Files : lines[f] \in Seq(Events) /\ lines'[f] \in Seq(Events)
      BY DEF Shape, ShapeStep, OutboxTypes
    <2>2. QED
      BY <2>1, SeqFacts
  <1>10. Holds(q, mem[q])'
    <2>1. mem'[q] = m
      BY <1>2, <1>1
    <2>2. \A f \in Claims(m) : place'[f] = q
      BY <1>2, <1>1, <1>4, <1>5 DEF Holds
    <2>3. m.seized # 0 => place'[m.seized] = q /\ m.seized \notin Claims(m)
      BY <1>2, <1>1, <1>3, <1>5 DEF Holds
    <2>4. m.handle # 0 => place'[m.handle] # q
      BY <1>2, <1>1, <1>3, <1>6 DEF Holds
    <2>5. \A c \in m.consumed : c.bytes <= Len(lines'[c.file])
      <3> SUFFICES ASSUME NEW c \in m.consumed
                   PROVE  c.bytes <= Len(lines'[c.file])
        OBVIOUS
      <3>1. c.file \in Files /\ c.bytes \in Nat /\ c.bytes <= Len(lines[c.file])
        BY <1>2, <1>1, <1>3 DEF Holds
      <3>2. place[c.file] = q
        BY <1>2, <1>1 DEF Holds, Claims
      <3>3. QED
        BY <3>1, <3>2, <1>5, <1>9
    <2>6. m.op \in Compacting \ {"inspect"} => m.mark <= Len(lines'[m.seized])
      <3> SUFFICES ASSUME m.op \in Compacting \ {"inspect"}
                   PROVE  m.mark <= Len(lines'[m.seized])
        OBVIOUS
      <3>1. m.seized # 0 /\ m.seized \in Files /\ m.mark <= Len(lines[m.seized])
        BY <1>2, <1>1, <1>3 DEF Holds, Phase
      <3>2. place[m.seized] = q
        BY <1>2, <1>1, <3>1 DEF Holds
      <3>3. QED
        BY <3>1, <3>2, <1>3, <1>5, <1>9
    <2>7. Holds(q, m)
      BY <1>2, <1>1
    <2>8. QED
      BY <2>1, <2>2, <2>3, <2>4, <2>5, <2>6, <2>7, <1>7 DEF Holds
  <1>11. QED
    BY <1>1, <1>10

(***************************************************************************)
(* A step of one process that keeps its own part keeps the whole.          *)
(***************************************************************************)
LEMMA ShapeFromStep ==
    ASSUME Shape, NEW p \in Processes, ShapeStep(p)
    PROVE  Shape'
  <1>1. OutboxTypes' /\ Disk'
    BY DEF ShapeStep
  <1>2. ASSUME NEW q \in running'
        PROVE  q \in Processes /\ Phase(mem'[q]) /\ Holds(q, mem[q])'
    <2>1. CASE q = p
      BY <1>2, <2>1 DEF ShapeStep
    <2>2. CASE q # p
      <3>1. q \in running
        BY <1>2, <2>2 DEF ShapeStep, Frame
      <3>2. QED
        BY <3>1, <2>2, OthersHold, ActorFacts
    <2>3. QED
      BY <2>1, <2>2
  <1>3. ASSUME NEW q \in Processes \ running'
        PROVE  mem'[q] = Blank
    <2>1. CASE q = p
      BY <1>3, <2>1 DEF ShapeStep
    <2>2. CASE q # p
      BY <1>3, <2>2 DEF ShapeStep, Frame, Shape, Phases
    <2>3. QED
      BY <2>1, <2>2
  <1>4. Phases'
    BY <1>2, <1>3 DEF Phases
  <1>5. QED
    BY <1>1, <1>2, <1>4 DEF Shape

(***************************************************************************)
(* A step that touches no file.                                            *)
(***************************************************************************)
LEMMA MemoryStep ==
    ASSUME Shape, NEW p \in running, NEW m, Become(p, m), Fit(p, m),
           UNCHANGED <<running, disk, pids>>, recorded' \subseteq Events, sent' \in [Events -> Nat]
    PROVE  ShapeStep(p) /\ mem'[p] = m
  <1>1. p \in Processes /\ mem \in [Processes -> Memories] /\ m \in Memories
    BY ActorFacts DEF Shape, OutboxTypes, Fit
  <1>2. mem' \in [Processes -> Memories] /\ mem'[p] = m /\ \A q \in Processes \ {p} : mem'[q] = mem[q]
    BY <1>1 DEF Become
  <1>3. UNCHANGED <<running, place, lines, pids>>
    BY DEF disk
  <1>4. \A f \in Files : \E t \in Seq(Events) : lines'[f] = lines[f] \o t
    <2>1. <<>> \in Seq(Events) /\ \A f \in Files : lines[f] \o <<>> = lines[f]
      BY EmptySeq, ConcatEmptySeq DEF Shape, OutboxTypes
    <2>2. QED
      BY <2>1, <1>3
  <1>5. Frame(p)
    BY <1>2, <1>3, <1>4 DEF Frame
  <1>6. OutboxTypes'
    BY <1>2, <1>3 DEF Shape, OutboxTypes
  <1>7. Disk'
    BY <1>3 DEF Shape, Disk, Live
  <1>8. Phase(mem'[p]) /\ Holds(p, mem[p])'
    <2>1. Holds(p, m)
      BY DEF Fit
    <2>2. Holds(p, mem[p])'
      BY <1>2, <1>3, <2>1 DEF Holds
    <2>3. QED
      BY <1>2, <2>2 DEF Fit
  <1>9. QED
    BY <1>2, <1>3, <1>5, <1>6, <1>7, <1>8 DEF ShapeStep

(***************************************************************************)
(* What a POST changes.                                                    *)
(***************************************************************************)
LEMMA PostFacts ==
    ASSUME OutboxTypes, NEW events, NEW outcome, Post(events, outcome)
    PROVE  /\ UNCHANGED <<running, disk, pids, recorded, written, forgone, strayed>>
           /\ sent' \in [Events -> Nat]
           /\ \A e \in Events : sent'[e] = IF outcome # "failed" /\ e \in Range(events)
                                        THEN sent[e] + 1 ELSE sent[e]
           /\ doubtful' = IF outcome = "unanswered" THEN doubtful \cup Range(events) ELSE doubtful
  <1>1. sent \in [Events -> Nat]
    BY DEF OutboxTypes
  <1>2. CASE outcome = "failed"
    BY <1>1, <1>2 DEF Post
  <1>3. CASE outcome # "failed"
    <2>1. sent' = [e \in Events |-> IF e \in Range(events) THEN sent[e] + 1 ELSE sent[e]]
      BY <1>3 DEF Post
    <2>2. QED
      BY <2>1, <1>1, <1>3 DEF Post
  <1>4. QED
    BY <1>2, <1>3

(***************************************************************************)
(* Only some fields count for what a process holds.                        *)
(***************************************************************************)
LEMMA SameHold ==
    ASSUME NEW p, NEW m, NEW n, Holds(p, m),
           n.claimed = m.claimed, n.consumed = m.consumed, n.carried = m.carried,
           n.seized = m.seized, n.handle = m.handle, n.mark = m.mark, n.listed = m.listed,
           n.op \in Compacting \ {"inspect"} => m.op \in Compacting \ {"inspect"}
    PROVE  Holds(p, n)
  <1>1. Claims(n) = Claims(m)
    BY DEF Claims
  <1>2. QED
    BY <1>1 DEF Holds

(***************************************************************************)
(* The start of an append, when nothing else is under way.                 *)
(***************************************************************************)
LEMMA AppendingFit ==
    ASSUME NEW p, NEW m, Fit(p, m), m.op \in {"none", "tails"}, NEW events \in Seq(Events),
           m.op = "tails" => m.consumed = {} /\ m.unsent = <<>>
    PROVE  Fit(p, Appending(m, events))
  <1>1. PICK op : op = IF events = <<>> THEN Releasing(m) ELSE "stat"
    OBVIOUS
  <1>2. op \in {"stat", "none", "remove"} /\ (op = "remove" => m.drain = "releasing")
          /\ (op = "none" => m.drain # "releasing")
    BY <1>1 DEF Releasing
  <1> DEFINE n == [m EXCEPT !.batch = events, !.op = op]
  <1>3. Appending(m, events) = n
    BY <1>1 DEF Appending
  <1>4. m \in Memories /\ Phase(m) /\ Holds(p, m)
    BY DEF Fit
  <1>5. /\ n \in Memories /\ n.claimed = m.claimed /\ n.consumed = m.consumed /\ n.carried = m.carried
        /\ n.seized = m.seized /\ n.handle = m.handle /\ n.mark = m.mark /\ n.listed = m.listed
        /\ n.op = op /\ n.drain = m.drain /\ n.unsent = m.unsent
    BY <1>2, <1>4, ZenonT(40) DEF Memories, Ops, AppendOps
  <1>6. Phase(n)
    <2> HIDE DEF n
    <2>1. QED
      BY <1>2, <1>4, <1>5 DEF Phase, Compacting
  <1>7. Holds(p, n)
    <2> HIDE DEF n
    <2>1. n.op \notin Compacting
      BY <1>2, <1>5 DEF Compacting
    <2>2. QED
      BY <2>1, <1>4, <1>5, SameHold
  <1>8. QED
    <2> HIDE DEF n
    <2> QED
      BY <1>3, <1>5, <1>6, <1>7 DEF Fit

(***************************************************************************)
(* The size of the outbox is looked at before an append.                   *)
(***************************************************************************)
LEMMA StatShape ==
    ASSUME Shape, NEW p \in Processes, Stat(p)
    PROVE  ShapeStep(p)
  <1>1. p \in running /\ mem[p].op = "stat" /\ UNCHANGED <<running, disk, ghosts>>
    BY DEF Stat, Doing
  <1>2. PICK op \in {"seize", "open", "write"} : Become(p, [mem[p] EXCEPT !.op = op])
    BY DEF Stat, Writing
  <1> DEFINE n == [mem[p] EXCEPT !.op = op]
  <1>3. Fit(p, mem[p])
    BY <1>1, ActorFacts
  <1>4. n \in Memories /\ Phase(n)
    BY <1>1, <1>3 DEF Fit, Memories, Ops, AppendOps, Phase, Compacting
  <1>5. Holds(p, n)
    BY <1>3 DEF Fit, Memories, Holds, Claims, Compacting
  <1>6. QED
    BY <1>1, <1>2, <1>4, <1>5, MemoryStep DEF Fit, Shape, OutboxTypes, ghosts

(***************************************************************************)
(* A compaction reads the file it has seized, and knows how much to keep.  *)
(***************************************************************************)
LEMMA InspectShape ==
    ASSUME Shape, NEW p \in Processes, Inspect(p)
    PROVE  ShapeStep(p)
  <1>1. p \in running /\ mem[p].op = "inspect" /\ UNCHANGED <<running, disk, ghosts>>
    BY DEF Inspect, Doing
  <1>2. PICK f : f = mem[p].seized
    OBVIOUS
  <1>3. PICK half \in Nat :
          Become(p, [mem[p] EXCEPT !.mark = Len(lines[f]),
                                   !.kept = Newest(Newest(lines[f], MaxEvents), half),
                                   !.op = "tail"])
    <2>1. Cap \div 2 \in Nat
      BY OutboxAssumption
    <2>2. (IF Cap \div 2 > 1 THEN Cap \div 2 ELSE 1) \in Nat
      BY <2>1
    <2>3. QED
      BY <2>2, <1>2 DEF Inspect
  <1> DEFINE n == [mem[p] EXCEPT !.mark = Len(lines[f]),
                                 !.kept = Newest(Newest(lines[f], MaxEvents), half),
                                 !.op = "tail"]
  <1>4. Fit(p, mem[p])
    BY <1>1, ActorFacts
  <1>5. f \in Files /\ lines[f] \in Seq(Events) /\ Len(lines[f]) \in Nat
    <2>1. f \in Files
      BY <1>1, <1>2, <1>4, FieldTypes DEF Fit, Phase, Compacting
    <2>2. QED
      BY <2>1, SeqFacts DEF Shape, OutboxTypes
  <1>6. Newest(Newest(lines[f], MaxEvents), half) \in Seq(Events)
    <2>1. MaxEvents \in Nat
      BY OutboxAssumption
    <2>2. Newest(lines[f], MaxEvents) \in Seq(Events)
      BY <2>1, <1>5, NewestFacts
    <2>3. QED
      BY <2>2, NewestFacts
  <1>7. n \in Memories /\ Phase(n)
    BY <1>1, <1>4, <1>5, <1>6 DEF Fit, Memories, Ops, AppendOps, Phase, Compacting
  <1>8. Holds(p, n)
    BY <1>1, <1>2, <1>4, <1>5, <1>6 DEF Fit, Memories, Holds, Claims, Compacting
  <1>9. QED
    BY <1>1, <1>3, <1>7, <1>8, MemoryStep DEF Fit, Shape, OutboxTypes, ghosts

(***************************************************************************)
(* It reads what was appended since, and goes on to write what it keeps.   *)
(***************************************************************************)
LEMMA ReadTailShape ==
    ASSUME Shape, NEW p \in Processes, ReadTail(p)
    PROVE  ShapeStep(p)
  <1>1. p \in running /\ mem[p].op = "tail" /\ UNCHANGED <<running, disk, ghosts>>
    BY DEF ReadTail, Doing
  <1>2. PICK back, op :
          /\ back = mem[p].kept \o From(lines[mem[p].seized], mem[p].mark)
          /\ op \in {"drop", "reopen", "restore"}
          /\ Become(p, [mem[p] EXCEPT !.kept = back, !.op = op])
    BY DEF ReadTail, Restoring
  <1> DEFINE n == [mem[p] EXCEPT !.kept = back, !.op = op]
  <1>3. Fit(p, mem[p])
    BY <1>1, ActorFacts
  <1>4. back \in Seq(Events)
    <2>1. mem[p].seized \in Files /\ mem[p].mark \in Nat /\ mem[p].kept \in Seq(Events)
      BY <1>1, <1>3, FieldTypes DEF Fit, Phase, Compacting
    <2>2. From(lines[mem[p].seized], mem[p].mark) \in Seq(Events)
      BY <2>1, CutFacts DEF Shape, OutboxTypes
    <2>3. QED
      BY <2>1, <2>2, <1>2, JoinFacts
  <1>5. n \in Memories /\ Phase(n)
    <2>1. n \in Memories
      <3>1. op \in Ops /\ mem[p] \in Memories
        BY <1>2, <1>3 DEF Fit, Ops, AppendOps
      <3>2. QED
        BY <3>1, <1>4 DEF Memories
    <2>2. /\ n.claimed = mem[p].claimed /\ n.consumed = mem[p].consumed /\ n.carried = mem[p].carried
          /\ n.seized = mem[p].seized /\ n.handle = mem[p].handle /\ n.drain = mem[p].drain
          /\ n.unsent = mem[p].unsent /\ n.op = op
      BY <1>3 DEF Fit, Memories
    <2>3. Phase(n)
      <3> HIDE DEF n
      <3> QED
        BY <2>2, <1>1, <1>2, <1>3 DEF Fit, Phase, Compacting
    <2>4. QED
      BY <2>1, <2>3
  <1>6. Holds(p, n)
    BY <1>1, <1>2, <1>3, <1>4 DEF Fit, Memories, Holds, Claims, Compacting
  <1>7. QED
    BY <1>1, <1>2, <1>5, <1>6, MemoryStep DEF Fit, Shape, OutboxTypes, ghosts

(***************************************************************************)
(* An append that fails is over; so is the compaction it belongs to.       *)
(***************************************************************************)
LEMMA WriteFailsShape ==
    ASSUME Shape, NEW p \in Processes, WriteFails(p)
    PROVE  ShapeStep(p)
  <1>1. p \in running /\ UNCHANGED <<running, disk, pids, recorded, sent>>
    BY DEF WriteFails, Doing
  <1>2. Fit(p, mem[p])
    BY <1>1, ActorFacts
  <1>3. CASE mem[p].op = "write" /\ Become(p, [mem[p] EXCEPT !.handle = 0, !.op = Releasing(mem[p])])
    <2>1. PICK op \in {"none", "remove"} :
            /\ op = "remove" <=> mem[p].drain = "releasing"
            /\ Become(p, [mem[p] EXCEPT !.handle = 0, !.op = op])
      BY <1>3 DEF Releasing
    <2> DEFINE n == [mem[p] EXCEPT !.handle = 0, !.op = op]
    <2>2. n \in Memories /\ Phase(n)
      BY <1>2, <1>3, <2>1 DEF Fit, Memories, Ops, AppendOps, Phase, Compacting
    <2>3. Holds(p, n)
      BY <1>2, <1>3, <2>1 DEF Fit, Memories, Holds, Claims, Compacting
    <2>4. QED
      BY <1>1, <2>1, <2>2, <2>3, MemoryStep DEF Fit, Shape, OutboxTypes
  <1>4. CASE /\ mem[p].op = "restore"
             /\ Become(p, [mem[p] EXCEPT !.handle = 0, !.seized = 0, !.op = Writing])
    <2>1. PICK op \in {"open", "write"} :
            Become(p, [mem[p] EXCEPT !.handle = 0, !.seized = 0, !.op = op])
      BY <1>4 DEF Writing
    <2> DEFINE n == [mem[p] EXCEPT !.handle = 0, !.seized = 0, !.op = op]
    <2>2. n \in Memories /\ Phase(n)
      BY <1>2, <1>4, <2>1 DEF Fit, Memories, Ops, AppendOps, Phase, Compacting
    <2>3. Holds(p, n)
      BY <1>2, <1>4, <2>1 DEF Fit, Memories, Holds, Claims, Compacting
    <2>4. QED
      BY <1>1, <2>1, <2>2, <2>3, MemoryStep DEF Fit, Shape, OutboxTypes
  <1>5. QED
    BY <1>3, <1>4 DEF WriteFails, Doing

(***************************************************************************)
(* The drain lists the files whose holders are gone.                       *)
(***************************************************************************)
LEMMA ListClaimsShape ==
    ASSUME Shape, NEW p \in Processes, ListClaims(p)
    PROVE  ShapeStep(p)
  <1>1. p \in running /\ mem[p].op = "list" /\ UNCHANGED <<running, disk, ghosts>>
    BY DEF ListClaims, Doing
  <1>2. PICK L : /\ L = {[file |-> f, holder |-> place[f]] :
                           f \in {g \in Files : place[g] \in Processes \ running}}
                 /\ Become(p, [mem[p] EXCEPT !.listed = L, !.op = "take"])
    BY DEF ListClaims
  <1> DEFINE n == [mem[p] EXCEPT !.listed = L, !.op = "take"]
  <1>3. Fit(p, mem[p])
    BY <1>1, ActorFacts
  <1>4. \A c \in L : c \in [file : Files, holder : Processes] /\ c.holder \in pids \ running
    <2>1. \A f \in Files : place[f] \in Processes => place[f] \in pids
      BY OutboxAssumption DEF Shape, OutboxTypes
    <2>2. QED
      BY <2>1, <1>2
  <1>5. n \in Memories /\ Phase(n)
    BY <1>1, <1>3, <1>4 DEF Fit, Memories, Ops, AppendOps, Phase, Compacting
  <1>6. Holds(p, n)
    BY <1>1, <1>3, <1>4 DEF Fit, Memories, Holds, Claims, Compacting
  <1>7. QED
    BY <1>1, <1>2, <1>5, <1>6, MemoryStep DEF Fit, Shape, OutboxTypes, ghosts

(***************************************************************************)
(* The drain counts what is beyond its bound.                              *)
(***************************************************************************)
LEMMA BoundShape ==
    ASSUME Shape, NEW p \in Processes, Bound(p)
    PROVE  ShapeStep(p)
  <1>1. /\ p \in running /\ mem[p].op = "read" /\ mem[p].claimed = <<>>
        /\ UNCHANGED <<running, disk, pids, recorded, sent>>
    BY DEF Bound, Doing
  <1>2. Fit(p, mem[p]) /\ mem[p].unsent \in Seq(Events)
    <2>1. Fit(p, mem[p])
      BY <1>1, ActorFacts
    <2>2. QED
      BY <2>1, FieldTypes DEF Fit
  <1>3. PICK rest, drain, op :
          /\ rest \in Seq(Events)
          /\ \/ drain = "sending" /\ op = "none"
             \/ drain = "releasing" /\ op = "tails"
          /\ Become(p, [mem[p] EXCEPT !.unsent = rest, !.drain = drain, !.op = op])
    <2>1. Newest(mem[p].unsent, MaxEvents) \in Seq(Events) /\ <<>> \in Seq(Events)
      BY <1>2, NewestFacts, EmptySeq, OutboxAssumption
    <2>2. PICK send \in BOOLEAN :
            Become(p, [mem[p] EXCEPT
                         !.unsent = IF send THEN Newest(mem[p].unsent, MaxEvents) ELSE <<>>,
                         !.drain = IF send THEN "sending" ELSE "releasing",
                         !.op = IF send THEN "none" ELSE "tails"])
      BY DEF Bound
    <2>3. CASE send
      BY <2>1, <2>2, <2>3
    <2>4. CASE ~send
      BY <2>1, <2>2, <2>4
    <2>5. QED
      BY <2>3, <2>4
  <1> DEFINE n == [mem[p] EXCEPT !.unsent = rest, !.drain = drain, !.op = op]
  <1>4. n \in Memories /\ Phase(n)
    BY <1>1, <1>2, <1>3 DEF Fit, Memories, Ops, AppendOps, Phase, Compacting
  <1>5. Holds(p, n)
    BY <1>1, <1>2, <1>3 DEF Fit, Memories, Holds, Claims, Compacting
  <1>6. QED
    BY <1>1, <1>3, <1>4, <1>5, MemoryStep DEF Fit, Shape, OutboxTypes

(***************************************************************************)
(* The drain posts a batch, and goes on or gives up.                       *)
(***************************************************************************)
LEMMA DrainSendsShape ==
    ASSUME Shape, NEW p \in Processes, DrainSends(p)
    PROVE  ShapeStep(p)
  <1>1. /\ p \in running /\ mem[p].op = "none" /\ mem[p].drain = "sending"
        /\ UNCHANGED <<running, disk, pids, recorded>>
    BY DEF DrainSends, Idle, Doing, Post
  <1>2. Fit(p, mem[p]) /\ mem[p].unsent \in Seq(Events)
    <2>1. Fit(p, mem[p])
      BY <1>1, ActorFacts
    <2>2. QED
      BY <2>1, FieldTypes DEF Fit
  <1>3. PICK outcome, after :
          /\ after = IF outcome = "answered" THEN From(mem[p].unsent, BatchSize) ELSE mem[p].unsent
          /\ Post(First(mem[p].unsent, BatchSize), outcome)
          /\ Become(p, Sends(mem[p], after, outcome # "answered" \/ after = <<>>))
    BY DEF DrainSends
  <1>4. after \in Seq(Events)
    BY <1>2, <1>3, CutFacts, OutboxAssumption
  <1>5. PICK drain, op :
          /\ \/ drain = "sending" /\ op = "none"
             \/ drain = "releasing" /\ op = "tails"
          /\ Become(p, [mem[p] EXCEPT !.unsent = after, !.drain = drain, !.op = op])
    <2>1. CASE outcome # "answered" \/ after = <<>>
      BY <1>3, <2>1 DEF Sends
    <2>2. CASE ~(outcome # "answered" \/ after = <<>>)
      BY <1>3, <2>2 DEF Sends
    <2>3. QED
      BY <2>1, <2>2
  <1> DEFINE n == [mem[p] EXCEPT !.unsent = after, !.drain = drain, !.op = op]
  <1>6. n \in Memories /\ Phase(n)
    BY <1>1, <1>2, <1>4, <1>5 DEF Fit, Memories, Ops, AppendOps, Phase, Compacting
  <1>7. Holds(p, n)
    BY <1>1, <1>2, <1>4, <1>5 DEF Fit, Memories, Holds, Claims, Compacting
  <1>8. sent' \in [Events -> Nat]
    BY <1>3, PostFacts DEF Shape, OutboxTypes
  <1>9. QED
    BY <1>1, <1>5, <1>6, <1>7, <1>8, MemoryStep DEF Fit, Shape, OutboxTypes

(***************************************************************************)
(* The drain reads a claim up to its present end.                          *)
(***************************************************************************)
LEMMA ReadClaimShape ==
    ASSUME Shape, NEW p \in Processes, ReadClaim(p)
    PROVE  ShapeStep(p)
  <1>1. p \in running /\ mem[p].op = "read" /\ mem[p].claimed # <<>> /\ UNCHANGED <<running, disk, ghosts>>
    BY DEF ReadClaim, Doing
  <1>2. Fit(p, mem[p]) /\ mem[p].unsent \in Seq(Events) /\ mem[p].claimed \in Seq(Files)
    <2>1. Fit(p, mem[p])
      BY <1>1, ActorFacts
    <2>2. QED
      BY <2>1, FieldTypes DEF Fit
  <1>3. PICK f, rest, c :
          /\ f = Head(mem[p].claimed) /\ rest = Tail(mem[p].claimed)
          /\ c = [file |-> f, bytes |-> Len(lines[f])]
          /\ Become(p, [mem[p] EXCEPT !.claimed = rest, !.consumed = @ \cup {c},
                                      !.unsent = @ \o lines[f]])
    BY DEF ReadClaim
  <1>4. /\ f \in Files /\ rest \in Seq(Files)
        /\ Range(mem[p].claimed) = {f} \cup Range(rest)
        /\ (\A i, j \in DOMAIN mem[p].claimed : mem[p].claimed[i] = mem[p].claimed[j] => i = j)
             => f \notin Range(rest) /\ \A i, j \in DOMAIN rest : rest[i] = rest[j] => i = j
    BY <1>1, <1>2, <1>3, TailFacts, SMTT(30)
  <1>5. lines[f] \in Seq(Events) /\ Len(lines[f]) \in Nat /\ mem[p].unsent \o lines[f] \in Seq(Events)
    <2>1. lines[f] \in Seq(Events)
      BY <1>4 DEF Shape, OutboxTypes
    <2>2. QED
      BY <2>1, <1>2, SeqFacts, JoinFacts
  <1> DEFINE n == [mem[p] EXCEPT !.claimed = rest, !.consumed = @ \cup {c}, !.unsent = @ \o lines[f]]
  <1>6. n \in Memories /\ Phase(n)
    <2>1. c \in [file : Files, bytes : Nat]
      BY <1>3, <1>4, <1>5
    <2>2. QED
      BY <2>1, <1>1, <1>2, <1>4, <1>5, ZenonT(40) DEF Fit, Memories, Ops, AppendOps, Phase, Compacting
  <1>7. Holds(p, n)
    <2>1. /\ n.claimed = rest /\ n.consumed = mem[p].consumed \cup {c} /\ n.carried = mem[p].carried
          /\ n.seized = mem[p].seized /\ n.handle = mem[p].handle /\ n.op = mem[p].op
          /\ n.listed = mem[p].listed /\ n.mark = mem[p].mark
      BY <1>2 DEF Fit, Memories
    <2>2. Claims(n) = Claims(mem[p])
      <3> HIDE DEF n
      <3> QED
        BY <2>1, <1>3, <1>4, SMTT(30) DEF Claims
    <2>3. c.file = f /\ c.bytes = Len(lines[f])
      BY <1>3
    <2>4. f \in Range(mem[p].claimed) /\ Range(rest) \subseteq Range(mem[p].claimed)
      BY <1>4
    <2>5. QED
      <3> HIDE DEF n
      <3>1. Holds(p, mem[p])
        BY <1>2 DEF Fit
      <3>2. /\ \A i, j \in DOMAIN rest : rest[i] = rest[j] => i = j
            /\ f \notin Range(rest)
        BY <3>1, <1>4 DEF Holds
      <3>3. f \notin mem[p].carried
        BY <1>1, <1>2 DEF Fit, Phase
      <3>4. \A x, y \in n.consumed : x.file = y.file => x = y
        BY <3>1, <2>1, <2>3, <2>4 DEF Holds
      <3>5. \A x \in n.consumed : x.file \notin Range(rest) /\ x.file \notin n.carried
                                    /\ x.bytes <= Len(lines[x.file])
        BY <3>1, <3>2, <3>3, <2>1, <2>3, <2>4, <1>5 DEF Holds
      <3>6. QED
        BY <3>1, <3>2, <3>4, <3>5, <2>1, <2>2, <1>1 DEF Holds
  <1>8. QED
    BY <1>1, <1>3, <1>6, <1>7, MemoryStep DEF Fit, Shape, OutboxTypes, ghosts

(***************************************************************************)
(* The drain reads the rest of its claims.                                 *)
(***************************************************************************)
LEMMA CarryTailShape ==
    ASSUME Shape, NEW p \in Processes, CarryTail(p)
    PROVE  ShapeStep(p)
  <1>1. p \in running /\ mem[p].op = "tails" /\ UNCHANGED <<running, disk, ghosts>>
    BY DEF CarryTail, Doing
  <1>2. Fit(p, mem[p]) /\ mem[p].unsent \in Seq(Events)
    <2>1. Fit(p, mem[p])
      BY <1>1, ActorFacts
    <2>2. QED
      BY <2>1, FieldTypes DEF Fit
  <1>3. PICK c, tail :
          /\ c \in mem[p].consumed /\ tail = From(lines[c.file], c.bytes)
          /\ Become(p, [mem[p] EXCEPT !.consumed = @ \ {c}, !.carried = @ \cup {c.file},
                                      !.unsent = @ \o tail])
    BY DEF CarryTail
  <1>4. c.file \in Files /\ mem[p].unsent \o tail \in Seq(Events)
    <2>1. c.file \in Files /\ c.bytes \in Nat
      BY <1>2, <1>3, FieldTypes DEF Fit
    <2>2. tail \in Seq(Events)
      BY <2>1, <1>3, CutFacts DEF Shape, OutboxTypes
    <2>3. QED
      BY <2>1, <2>2, <1>2, JoinFacts
  <1> DEFINE n == [mem[p] EXCEPT !.consumed = @ \ {c}, !.carried = @ \cup {c.file}, !.unsent = @ \o tail]
  <1>5. n \in Memories /\ Phase(n)
    <2>1. c \in mem[p].consumed
      BY <1>3
    <2>2. QED
      BY <1>1, <1>2, <1>4, <2>1, ZenonT(40) DEF Fit, Memories, Ops, AppendOps, Phase, Compacting
  <1>6. Holds(p, n)
    <2>1. c \in mem[p].consumed
      BY <1>3
    <2>2. QED
      BY <1>1, <1>2, <2>1 DEF Fit, Memories, Holds, Claims, Compacting
  <1>7. QED
    BY <1>1, <1>3, <1>5, <1>6, MemoryStep DEF Fit, Shape, OutboxTypes, ghosts

(***************************************************************************)
(* What was not delivered becomes the batch of an append.                  *)
(***************************************************************************)
LEMMA HandBackShape ==
    ASSUME Shape, NEW p \in Processes, HandBack(p)
    PROVE  ShapeStep(p)
  <1>1. p \in running /\ mem[p].op = "tails" /\ mem[p].consumed = {} /\ UNCHANGED <<running, disk, ghosts>>
    BY DEF HandBack, Doing
  <1>2. Fit(p, mem[p]) /\ mem[p].unsent \in Seq(Events)
    <2>1. Fit(p, mem[p])
      BY <1>1, ActorFacts
    <2>2. QED
      BY <2>1, FieldTypes DEF Fit
  <1>3. PICK m : m = [mem[p] EXCEPT !.unsent = <<>>]
    OBVIOUS
  <1>4. m \in Memories /\ m.op = "tails" /\ m.consumed = {} /\ m.unsent = <<>> /\ Phase(m)
    <2>1. <<>> \in Seq(Events)
      BY EmptySeq
    <2>2. QED
      BY <2>1, <1>1, <1>2, <1>3 DEF Fit, Memories, Phase, Compacting
  <1>5. Holds(p, m)
    BY <1>1, <1>2, <1>3 DEF Fit, Memories, Holds, Claims, Compacting
  <1>6. Fit(p, Appending(m, mem[p].unsent))
    BY <1>2, <1>4, <1>5, AppendingFit DEF Fit
  <1>7. Become(p, Appending(m, mem[p].unsent))
    BY <1>3 DEF HandBack
  <1>8. QED
    BY <1>1, <1>6, <1>7, MemoryStep DEF Shape, OutboxTypes, ghosts

(***************************************************************************)
(* The drain is over when it has no claim left.                            *)
(***************************************************************************)
LEMMA ReleasedShape ==
    ASSUME Shape, NEW p \in Processes, Released(p)
    PROVE  ShapeStep(p)
  <1>1. p \in running /\ mem[p].op = "remove" /\ mem[p].carried = {} /\ UNCHANGED <<running, disk, ghosts>>
    BY DEF Released, Doing
  <1>2. Fit(p, mem[p])
    BY <1>1, ActorFacts
  <1> DEFINE n == [mem[p] EXCEPT !.drain = "none", !.op = "none"]
  <1>3. n \in Memories /\ Phase(n)
    BY <1>1, <1>2 DEF Fit, Memories, Ops, AppendOps, Phase, Compacting
  <1>4. Holds(p, n)
    BY <1>1, <1>2 DEF Fit, Memories, Holds, Claims, Compacting
  <1>5. Become(p, n)
    BY DEF Released
  <1>6. QED
    BY <1>1, <1>3, <1>4, <1>5, MemoryStep DEF Fit, Shape, OutboxTypes, ghosts

(***************************************************************************)
(* An event is queued, and a full queue becomes a batch.                   *)
(***************************************************************************)
LEMMA RecordShape ==
    ASSUME Shape, NEW p \in Processes, Record(p)
    PROVE  ShapeStep(p)
  <1>1. /\ p \in running /\ mem[p].op = "none" /\ UNCHANGED <<running, disk, pids, sent>>
    BY DEF Record, Idle, Doing
  <1>2. Fit(p, mem[p]) /\ mem[p].queue \in Seq(Events)
    <2>1. Fit(p, mem[p])
      BY <1>1, ActorFacts
    <2>2. QED
      BY <2>1, FieldTypes DEF Fit
  <1>3. PICK e, queue, flights :
          /\ e \in Events /\ recorded' = recorded \cup {e}
          /\ \/ queue = <<>> /\ flights = mem[p].flights \cup {Append(mem[p].queue, e)}
             \/ queue = Append(mem[p].queue, e) /\ flights = mem[p].flights
          /\ Become(p, [mem[p] EXCEPT !.queue = queue, !.flights = flights])
    <2>1. PICK e \in Events :
            /\ recorded' = recorded \cup {e}
            /\ LET queue == Append(mem[p].queue, e)
                   full  == Len(queue) >= BatchSize
               IN  Become(p, [mem[p] EXCEPT
                     !.queue = IF full THEN <<>> ELSE queue,
                     !.flights = IF full THEN @ \cup {queue} ELSE @])
      BY DEF Record
    <2>2. CASE Len(Append(mem[p].queue, e)) >= BatchSize
      BY <2>1, <2>2
    <2>3. CASE ~(Len(Append(mem[p].queue, e)) >= BatchSize)
      BY <2>1, <2>3
    <2>4. QED
      BY <2>2, <2>3
  <1>4. queue \in Seq(Events) /\ flights \subseteq Seq(Events)
    <2>1. Append(mem[p].queue, e) \in Seq(Events) /\ <<>> \in Seq(Events)
      BY <1>2, <1>3, AppendProperties, EmptySeq
    <2>2. mem[p].flights \subseteq Seq(Events)
      BY <1>2, FieldTypes DEF Fit
    <2>3. QED
      BY <2>1, <2>2, <1>3
  <1> DEFINE n == [mem[p] EXCEPT !.queue = queue, !.flights = flights]
  <1>5. n \in Memories /\ Phase(n)
    BY <1>1, <1>2, <1>4 DEF Fit, Memories, Ops, AppendOps, Phase, Compacting
  <1>6. Holds(p, n)
    BY <1>1, <1>2 DEF Fit, Memories, Holds, Claims, Compacting
  <1>7. QED
    BY <1>1, <1>3, <1>5, <1>6, MemoryStep DEF Fit, Shape, OutboxTypes

(***************************************************************************)
(* The queue goes on the network.                                          *)
(***************************************************************************)
LEMMA FlushShape ==
    ASSUME Shape, NEW p \in Processes, Flush(p)
    PROVE  ShapeStep(p)
  <1>1. p \in running /\ mem[p].op = "none" /\ UNCHANGED <<running, disk, ghosts>>
    BY DEF Flush, Idle, Doing
  <1>2. Fit(p, mem[p]) /\ mem[p].queue \in Seq(Events) /\ <<>> \in Seq(Events)
    <2>1. Fit(p, mem[p])
      BY <1>1, ActorFacts
    <2>2. QED
      BY <2>1, FieldTypes, EmptySeq DEF Fit
  <1> DEFINE n == [mem[p] EXCEPT !.queue = <<>>, !.flights = @ \cup {mem[p].queue}]
  <1>3. n \in Memories /\ Phase(n)
    BY <1>1, <1>2, ZenonT(40) DEF Fit, Memories, Ops, AppendOps, Phase, Compacting
  <1>4. Holds(p, n)
    BY <1>1, <1>2 DEF Fit, Memories, Holds, Claims, Compacting
  <1>5. Become(p, n)
    BY DEF Flush
  <1>6. QED
    BY <1>1, <1>3, <1>4, <1>5, MemoryStep DEF Fit, Shape, OutboxTypes, ghosts

(***************************************************************************)
(* The answer to a POST arrives, or the batch goes to the outbox.          *)
(***************************************************************************)
LEMMA FlushEndsShape ==
    ASSUME Shape, NEW p \in Processes, FlushEnds(p)
    PROVE  ShapeStep(p)
  <1>1. p \in running /\ mem[p].op = "none"
    BY DEF FlushEnds, Idle, Doing
  <1>2. Fit(p, mem[p])
    BY <1>1, ActorFacts
  <1>3. PICK b, outcome, m :
          /\ b \in mem[p].flights /\ m = [mem[p] EXCEPT !.flights = @ \ {b}]
          /\ Post(b, outcome)
          /\ Become(p, IF outcome = "answered" THEN m ELSE Appending(m, b))
    BY DEF FlushEnds
  <1>4. b \in Seq(Events)
    BY <1>2, <1>3, FieldTypes DEF Fit
  <1>5. m \in Memories /\ Phase(m) /\ m.op = "none"
    BY <1>1, <1>2, <1>3 DEF Fit, Memories, Ops, AppendOps, Phase, Compacting
  <1>6. Holds(p, m)
    BY <1>1, <1>2, <1>3 DEF Fit, Memories, Holds, Claims, Compacting
  <1>7. Fit(p, Appending(m, b)) /\ Fit(p, m)
    BY <1>4, <1>5, <1>6, AppendingFit DEF Fit
  <1>8. UNCHANGED <<running, disk, pids, recorded>> /\ sent' \in [Events -> Nat]
    BY <1>3, PostFacts DEF Shape
  <1>9. recorded' \subseteq Events
    BY <1>8 DEF Shape, OutboxTypes
  <1>10. CASE outcome = "answered"
    BY <1>1, <1>3, <1>7, <1>8, <1>9, <1>10, MemoryStep
  <1>11. CASE outcome # "answered"
    BY <1>1, <1>3, <1>7, <1>8, <1>9, <1>11, MemoryStep
  <1>12. QED
    BY <1>10, <1>11

(***************************************************************************)
(* The queue goes to the outbox when the process shuts down.               *)
(***************************************************************************)
LEMMA ShutsDownShape ==
    ASSUME Shape, NEW p \in Processes, ShutsDown(p)
    PROVE  ShapeStep(p)
  <1>1. p \in running /\ mem[p].op = "none" /\ UNCHANGED <<running, disk, ghosts>>
    BY DEF ShutsDown, Idle, Doing
  <1>2. Fit(p, mem[p]) /\ mem[p].queue \in Seq(Events)
    <2>1. Fit(p, mem[p])
      BY <1>1, ActorFacts
    <2>2. QED
      BY <2>1, FieldTypes DEF Fit
  <1>3. PICK m : m = [mem[p] EXCEPT !.closed = TRUE, !.queue = <<>>]
    OBVIOUS
  <1>4. m \in Memories /\ m.op = "none" /\ Phase(m)
    <2>1. <<>> \in Seq(Events)
      BY EmptySeq
    <2>2. QED
      BY <2>1, <1>1, <1>2, <1>3 DEF Fit, Memories, Phase, Compacting
  <1>5. Holds(p, m)
    BY <1>1, <1>2, <1>3 DEF Fit, Memories, Holds, Claims, Compacting
  <1>6. Fit(p, Appending(m, mem[p].queue))
    BY <1>2, <1>4, <1>5, AppendingFit DEF Fit
  <1>7. Become(p, Appending(m, mem[p].queue))
    BY <1>3 DEF ShutsDown
  <1>8. QED
    BY <1>1, <1>6, <1>7, MemoryStep DEF Shape, OutboxTypes, ghosts

(***************************************************************************)
(* A step of a running process that touches files, but none of others.     *)
(***************************************************************************)
LEMMA DiskStep ==
    ASSUME Shape, NEW p \in running, NEW m \in Memories, Become(p, m), Phase(m), Holds(p, m)',
           UNCHANGED <<running, pids>>, recorded' \subseteq Events, sent' \in [Events -> Nat],
           place' \in [Files -> pids \cup {"live", "gone"}], lines' \in [Files -> Seq(Events)],
           Disk',
           \A f \in Files : place'[f] \in {place[f], p, "live", "gone"},
           \A f \in Files : place[f] \in running \ {p} =>
              place'[f] = place[f] /\ \E t \in Seq(Events) : lines'[f] = lines[f] \o t
    PROVE  ShapeStep(p) /\ mem'[p] = m
  <1>1. p \in Processes /\ mem \in [Processes -> Memories]
    BY ActorFacts DEF Shape, OutboxTypes
  <1>2. mem' \in [Processes -> Memories] /\ mem'[p] = m /\ \A q \in Processes \ {p} : mem'[q] = mem[q]
    BY <1>1 DEF Become
  <1>3. Frame(p)
    BY <1>2 DEF Frame
  <1>4. OutboxTypes'
    BY <1>2 DEF Shape, OutboxTypes
  <1>5. Holds(p, mem[p])'
    <2>1. mem'[p] = m
      BY <1>2
    <2>2. QED
      BY <2>1 DEF Holds
  <1>6. QED
    BY <1>2, <1>3, <1>4, <1>5 DEF ShapeStep

(***************************************************************************)
(* A step that moves or empties one file.                                  *)
(***************************************************************************)
LEMMA FileStep ==
    ASSUME Shape, NEW p \in running, NEW m \in Memories, Become(p, m), Phase(m), Holds(p, m)',
           UNCHANGED <<running, pids>>, recorded' \subseteq Events, sent' \in [Events -> Nat],
           NEW f \in Files, place[f] \notin running \ {p},
           NEW v \in {p, "live", "gone"}, v = "live" => Live \subseteq {f},
           NEW t \in Seq(Events), v = "gone" => t = <<>>,
           place' = [place EXCEPT ![f] = v], lines' = [lines EXCEPT ![f] = t]
    PROVE  ShapeStep(p) /\ mem'[p] = m
  <1>1. p \in Processes /\ p \in pids
    BY ActorFacts
  <1>2. /\ place \in [Files -> pids \cup {"live", "gone"}] /\ lines \in [Files -> Seq(Events)]
        /\ \A g, h \in Live : g = h
        /\ \A g \in Files : place[g] = "gone" => lines[g] = <<>>
    BY DEF Shape, OutboxTypes, Disk
  <1>3. place' \in [Files -> pids \cup {"live", "gone"}] /\ lines' \in [Files -> Seq(Events)]
    BY <1>1, <1>2
  <1>4. "live" # "gone" /\ p \notin {"live", "gone"}
    BY <1>1, OutboxAssumption
  <1>5. Disk'
    BY <1>2, <1>4 DEF Disk, Live
  <1>6. ASSUME NEW g \in Files, place[g] \in running \ {p}
        PROVE  place'[g] = place[g] /\ \E u \in Seq(Events) : lines'[g] = lines[g] \o u
    <2>1. g # f
      BY <1>6
    <2>2. <<>> \in Seq(Events) /\ lines[g] \o <<>> = lines[g]
      BY <1>2, EmptySeq, ConcatEmptySeq
    <2>3. QED
      BY <2>1, <2>2, <1>2
  <1>7. \A g \in Files : place'[g] \in {place[g], p, "live", "gone"}
    BY <1>2
  <1>8. QED
    BY <1>3, <1>5, <1>6, <1>7, DiskStep

(***************************************************************************)
(* A step that claims a file that no running process holds.                *)
(***************************************************************************)
LEMMA ClaimStep ==
    ASSUME Shape, NEW p \in running, NEW m \in Memories, Become(p, m), Phase(m), Holds(p, m)',
           UNCHANGED <<running, lines, pids>>, recorded' \subseteq Events,
           sent' \in [Events -> Nat], NEW f \in Files, place[f] \notin running,
           place' = [place EXCEPT ![f] = p]
    PROVE  ShapeStep(p) /\ mem'[p] = m
  <1>1. PICK v \in {p, "live", "gone"} : v = p /\ v # "live" /\ v # "gone"
    BY OutboxAssumption, ActorFacts
  <1>2. PICK t \in Seq(Events) : t = lines[f]
    BY DEF Shape, OutboxTypes
  <1>3. lines' = [lines EXCEPT ![f] = t]
    BY <1>2 DEF Shape, OutboxTypes
  <1>4. place' = [place EXCEPT ![f] = v] /\ place[f] \notin running \ {p}
    BY <1>1
  <1>5. QED
    BY <1>1, <1>3, <1>4, FileStep

(***************************************************************************)
(* A claim on top of the claims of a drain keeps them in order.            *)
(***************************************************************************)
LEMMA ClaimHolds ==
    ASSUME Shape, NEW p \in running, NEW m, Fit(p, m), m.op \in {"take", "read"},
           NEW f \in Files, place[f] # p, place' = [place EXCEPT ![f] = p],
           UNCHANGED <<running, pids, lines>>, NEW n, n = [m EXCEPT !.claimed = Append(@, f)]
    PROVE  n \in Memories /\ Phase(n) /\ Holds(p, n)'
  <1>1. m \in Memories /\ Phase(m) /\ Holds(p, m) /\ m.claimed \in Seq(Files)
    <2>1. m \in Memories /\ Phase(m) /\ Holds(p, m)
      BY DEF Fit
    <2>2. QED
      BY <2>1, FieldTypes
  <1>2. f \notin Claims(m) /\ m.handle = 0 /\ m.seized = 0 /\ m.carried = {}
    BY <1>1, OutboxAssumption DEF Holds, Phase, Compacting
  <1>3. PICK s : s = Append(m.claimed, f)
    OBVIOUS
  <1>4. /\ s \in Seq(Files) /\ Range(s) = Range(m.claimed) \cup {f}
        /\ \A i, j \in DOMAIN s : s[i] = s[j] => i = j
    <2>1. f \notin Range(m.claimed)
      BY <1>2 DEF Claims
    <2>2. \A i, j \in DOMAIN m.claimed : m.claimed[i] = m.claimed[j] => i = j
      BY <1>1 DEF Holds
    <2>3. m.claimed \in Seq(Files)
      BY <1>1
    <2>4. QED
      BY <2>1, <2>2, <2>3, <1>3, AppendFacts, SMTT(30)
  <1>5. /\ n \in Memories /\ n.claimed = s /\ n.consumed = m.consumed /\ n.carried = {}
        /\ n.seized = 0 /\ n.handle = 0 /\ n.mark = m.mark /\ n.listed = m.listed
        /\ n.op = m.op /\ n.drain = m.drain /\ n.unsent = m.unsent
    BY <1>1, <1>2, <1>3, <1>4 DEF Memories
  <1>6. Phase(n)
    BY <1>1, <1>2, <1>5 DEF Phase, Compacting
  <1>7. Claims(n) = Claims(m) \cup {f}
    BY <1>2, <1>4, <1>5 DEF Claims
  <1>8. place \in [Files -> pids \cup {"live", "gone"}] /\ Claims(m) \subseteq Files
    BY <1>1, FieldTypes, SeqFacts DEF Shape, OutboxTypes, Claims
  <1>9. \A g \in Claims(n) : place'[g] = p
    BY <1>1, <1>7, <1>8 DEF Holds
  <1>10. \A c \in m.consumed : c.file # f
    BY <1>2 DEF Claims
  <1>11. Holds(p, n)'
    <2>1. n.op \notin Compacting
      BY <1>5 DEF Compacting
    <2>2. \A c \in n.consumed :
            /\ c.file \notin Range(n.claimed) /\ c.file \notin n.carried
            /\ c.bytes <= Len(lines'[c.file])
      BY <1>1, <1>4, <1>5, <1>10 DEF Holds
    <2>3. /\ \A c, d \in n.consumed : c.file = d.file => c = d
          /\ \A c \in n.listed : c.holder \in pids' \ running'
      BY <1>1, <1>5 DEF Holds
    <2>4. n.claimed = s /\ n.seized = 0 /\ n.handle = 0
      BY <1>5
    <2>5. \A i, j \in DOMAIN n.claimed : n.claimed[i] = n.claimed[j] => i = j
      BY <2>4, <1>4, SMTT(30)
    <2>6. \A g \in Claims(n)' : place'[g] = p
      BY <1>9 DEF Claims
    <2>7. QED
      BY <2>1, <2>2, <2>3, <2>4, <2>5, <2>6 DEF Holds
  <1>12. QED
    BY <1>5, <1>6, <1>11

(***************************************************************************)
(* The drain renames the claim of a dead process.                          *)
(***************************************************************************)
LEMMA TakeClaimShape ==
    ASSUME Shape, NEW p \in Processes, TakeClaim(p)
    PROVE  ShapeStep(p)
  <1>1. p \in running /\ mem[p].op = "take" /\ UNCHANGED <<running, lines, ghosts>>
    BY DEF TakeClaim, Doing
  <1>2. Fit(p, mem[p])
    BY <1>1, ActorFacts
  <1>3. PICK c, m :
          /\ c \in mem[p].listed /\ m = [mem[p] EXCEPT !.listed = @ \ {c}]
          /\ IF place[c.file] = c.holder THEN Claim(p, c.file, m)
             ELSE Become(p, m) /\ UNCHANGED place
    BY DEF TakeClaim
  <1>4. c.file \in Files /\ c.holder \in pids \ running
    BY <1>2, <1>3, FieldTypes DEF Fit, Holds
  <1>5. Fit(p, m) /\ m.op = "take"
    <2>1. m \in Memories /\ Phase(m) /\ m.op = "take"
      BY <1>1, <1>2, <1>3 DEF Fit, Memories, Phase, Compacting
    <2>2. Holds(p, m)
      BY <1>1, <1>2, <1>3 DEF Fit, Memories, Holds, Claims, Compacting
    <2>3. QED
      BY <2>1, <2>2 DEF Fit
  <1>6. recorded' \subseteq Events /\ sent' \in [Events -> Nat] /\ UNCHANGED pids
    BY <1>1 DEF Shape, OutboxTypes, ghosts
  <1>7. CASE place[c.file] = c.holder
    <2>1. PICK n : n = [m EXCEPT !.claimed = Append(@, c.file)]
      OBVIOUS
    <2>2. place' = [place EXCEPT ![c.file] = p] /\ Become(p, n)
      BY <1>3, <1>7, <2>1 DEF Claim
    <2>3. place[c.file] # p /\ place[c.file] \notin running
      BY <1>1, <1>4, <1>7
    <2>4. n \in Memories /\ Phase(n) /\ Holds(p, n)'
      BY <1>1, <1>4, <1>5, <1>6, <2>1, <2>2, <2>3, ClaimHolds
    <2>5. QED
      BY <1>1, <1>4, <1>6, <2>2, <2>3, <2>4, ClaimStep
  <1>8. CASE ~(place[c.file] = c.holder)
    <2>1. Become(p, m) /\ UNCHANGED <<running, disk, pids>>
      BY <1>1, <1>3, <1>6, <1>8 DEF disk
    <2>2. QED
      BY <1>1, <1>5, <1>6, <2>1, MemoryStep
  <1>9. QED
    BY <1>7, <1>8

(***************************************************************************)
(* The drain renames the outbox.                                           *)
(***************************************************************************)
LEMMA TakeLiveShape ==
    ASSUME Shape, NEW p \in Processes, TakeLive(p)
    PROVE  ShapeStep(p)
  <1>1. p \in running /\ mem[p].op = "take" /\ UNCHANGED <<running, lines, ghosts>>
    BY DEF TakeLive, Doing
  <1>2. Fit(p, mem[p])
    BY <1>1, ActorFacts
  <1>3. PICK m : m = [mem[p] EXCEPT !.op = "read"]
    OBVIOUS
  <1>4. Fit(p, m) /\ m.op = "read"
    <2>1. m \in Memories /\ Phase(m) /\ m.op = "read"
      BY <1>1, <1>2, <1>3 DEF Fit, Memories, Phase, Compacting, Ops
    <2>2. Holds(p, m)
      BY <1>1, <1>2, <1>3 DEF Fit, Memories, Holds, Claims, Compacting
    <2>3. QED
      BY <2>1, <2>2 DEF Fit
  <1>5. recorded' \subseteq Events /\ sent' \in [Events -> Nat] /\ UNCHANGED pids
    BY <1>1 DEF Shape, OutboxTypes, ghosts
  <1>6. CASE Become(p, m) /\ UNCHANGED place
    <2>1. UNCHANGED <<running, disk, pids>>
      BY <1>1, <1>5, <1>6 DEF disk
    <2>2. QED
      BY <1>1, <1>4, <1>5, <1>6, <2>1, MemoryStep
  <1>7. ASSUME NEW f \in Live, Claim(p, f, m)
        PROVE  ShapeStep(p)
    <2>1. PICK n : n = [m EXCEPT !.claimed = Append(@, f)]
      OBVIOUS
    <2>2. place' = [place EXCEPT ![f] = p] /\ Become(p, n)
      BY <1>7, <2>1 DEF Claim
    <2>3. f \in Files /\ place[f] = "live" /\ "live" \notin Processes /\ running \subseteq Processes
      BY <1>7, OutboxAssumption DEF Live, Shape, OutboxTypes
    <2>4. n \in Memories /\ Phase(n) /\ Holds(p, n)'
      BY <1>1, <1>4, <1>5, <2>1, <2>2, <2>3, ClaimHolds
    <2>5. place[f] \notin running
      BY <2>3
    <2>6. QED
      BY <1>1, <1>5, <2>2, <2>3, <2>4, <2>5, ClaimStep
  <1>8. QED
    BY <1>3, <1>6, <1>7 DEF TakeLive

(***************************************************************************)
(* A compaction renames the outbox, which it seizes.                       *)
(***************************************************************************)
LEMMA SeizeShape ==
    ASSUME Shape, NEW p \in Processes, Seize(p)
    PROVE  ShapeStep(p)
  <1>1. p \in running /\ mem[p].op = "seize" /\ UNCHANGED <<running, lines, ghosts>>
    BY DEF Seize, Doing
  <1>2. Fit(p, mem[p])
    BY <1>1, ActorFacts
  <1>3. recorded' \subseteq Events /\ sent' \in [Events -> Nat] /\ UNCHANGED pids
    BY <1>1 DEF Shape, OutboxTypes, ghosts
  <1>4. CASE Become(p, [mem[p] EXCEPT !.op = Writing]) /\ UNCHANGED place
    <2>1. PICK op \in {"open", "write"} : Become(p, [mem[p] EXCEPT !.op = op])
      BY <1>4 DEF Writing
    <2> DEFINE n == [mem[p] EXCEPT !.op = op]
    <2>2. n \in Memories /\ Phase(n)
      BY <1>1, <1>2, ZenonT(40) DEF Fit, Memories, Ops, AppendOps, Phase, Compacting
    <2>3. Holds(p, n)
      BY <1>1, <1>2 DEF Fit, Memories, Holds, Claims, Compacting
    <2>4. UNCHANGED <<running, disk, pids>>
      BY <1>1, <1>3, <1>4 DEF disk
    <2>5. QED
      BY <1>1, <1>3, <2>1, <2>2, <2>3, <2>4, MemoryStep DEF Fit
  <1>5. ASSUME NEW f \in Live, place' = [place EXCEPT ![f] = p],
               Become(p, [mem[p] EXCEPT !.seized = f, !.op = "inspect"])
        PROVE  ShapeStep(p)
    <2>1. PICK n : n = [mem[p] EXCEPT !.seized = f, !.op = "inspect"]
      OBVIOUS
    <2>2. f \in Files /\ place[f] = "live" /\ p # "live" /\ p # "gone" /\ f # 0 /\ "live" \notin running
      BY <1>5, OutboxAssumption DEF Live, Shape, OutboxTypes
    <2>3. n \in Memories /\ Phase(n)
      BY <1>1, <1>2, <2>1, <2>2, ZenonT(40) DEF Fit, Memories, Ops, AppendOps, Phase, Compacting
    <2>4. Holds(p, n)'
      <3>1. place \in [Files -> pids \cup {"live", "gone"}] /\ Claims(mem[p]) \subseteq Files
        BY <1>2, FieldTypes, SeqFacts DEF Shape, OutboxTypes, Claims, Fit
      <3>2. /\ n.claimed = mem[p].claimed /\ n.consumed = mem[p].consumed
            /\ n.carried = mem[p].carried /\ n.seized = f /\ n.handle = mem[p].handle
            /\ n.op = "inspect" /\ n.listed = mem[p].listed
        BY <1>2, <2>1 DEF Fit, Memories
      <3>3. Claims(n) = Claims(mem[p]) /\ f \notin Claims(mem[p]) /\ mem[p].handle = 0
        BY <1>1, <1>2, <2>2, <3>2 DEF Claims, Fit, Holds, Phase
      <3>4. \A g \in Claims(n) \cup {f} : place'[g] = p
        BY <1>2, <1>5, <2>2, <3>1, <3>3 DEF Fit, Holds
      <3>5. Claims(n)' = Claims(n)
        BY DEF Claims
      <3>6. Holds(p, mem[p])
        BY <1>2 DEF Fit
      <3>7. QED
        BY <1>1, <1>3, <3>2, <3>3, <3>4, <3>5, <3>6 DEF Holds
    <2>5. Become(p, n) /\ place[f] \notin running
      BY <1>5, <2>1, <2>2
    <2>6. QED
      BY <1>1, <1>3, <1>5, <2>2, <2>3, <2>4, <2>5, ClaimStep DEF Fit
  <1>6. QED
    BY <1>4, <1>5 DEF Seize

(***************************************************************************)
(* A compaction deletes the file it has seized.                            *)
(***************************************************************************)
LEMMA DropShape ==
    ASSUME Shape, NEW p \in Processes, Drop(p)
    PROVE  ShapeStep(p)
  <1>1. p \in running /\ mem[p].op = "drop" /\ UNCHANGED <<running, pids, recorded, sent>>
    BY DEF Drop, Doing
  <1>2. Fit(p, mem[p])
    BY <1>1, ActorFacts
  <1>3. recorded' \subseteq Events /\ sent' \in [Events -> Nat]
    BY <1>1 DEF Shape, OutboxTypes
  <1>4. PICK f, op, n :
          /\ f = mem[p].seized /\ op \in {"open", "write"}
          /\ n = [mem[p] EXCEPT !.seized = 0, !.op = op]
          /\ place' = [place EXCEPT ![f] = "gone"] /\ lines' = [lines EXCEPT ![f] = <<>>]
          /\ Become(p, n)
    BY DEF Drop, Writing
  <1>5. f \in Files /\ place[f] = p /\ f \notin Claims(mem[p])
    BY <1>1, <1>2, <1>4, FieldTypes DEF Fit, Phase, Compacting, Holds
  <1>6. /\ n \in Memories /\ n.claimed = mem[p].claimed /\ n.consumed = mem[p].consumed
        /\ n.carried = mem[p].carried /\ n.seized = 0 /\ n.handle = mem[p].handle
        /\ n.op = op /\ n.listed = mem[p].listed /\ n.unsent = mem[p].unsent /\ n.drain = mem[p].drain
    BY <1>2, <1>4, ZenonT(40) DEF Fit, Memories, Ops, AppendOps
  <1>7. Phase(n)
    BY <1>1, <1>2, <1>4, <1>6 DEF Fit, Phase, Compacting
  <1>8. Holds(p, n)'
    <2>1. Claims(n) = Claims(mem[p]) /\ Claims(n)' = Claims(n)
      BY <1>6 DEF Claims
    <2>2. mem[p].handle = 0
      BY <1>1, <1>2 DEF Fit, Phase
    <2>3. \A c \in n.consumed : c.file # f /\ c.file \in Files
      BY <1>2, <1>5, <1>6, FieldTypes DEF Claims, Fit
    <2>4. /\ lines \in [Files -> Seq(Events)] /\ place \in [Files -> pids \cup {"live", "gone"}]
          /\ Claims(mem[p]) \subseteq Files
      BY <1>2, FieldTypes, SeqFacts DEF Shape, OutboxTypes, Claims, Fit
    <2>5. Holds(p, mem[p])
      BY <1>2 DEF Fit
    <2>6. \A g \in Claims(n) : place'[g] = p
      BY <1>4, <1>5, <2>1, <2>4, <2>5 DEF Holds
    <2>7. \A c \in n.consumed : c.bytes <= Len(lines'[c.file])
      BY <1>4, <1>6, <2>3, <2>4, <2>5 DEF Holds
    <2>8. QED
      BY <1>1, <1>4, <1>6, <2>1, <2>2, <2>5, <2>6, <2>7 DEF Holds, Compacting
  <1>9. <<>> \in Seq(Events) /\ "gone" # "live"
    BY EmptySeq
  <1>10. QED
    BY <1>1, <1>3, <1>4, <1>5, <1>6, <1>7, <1>8, <1>9, FileStep

(***************************************************************************)
(* The drain deletes a claim whose rest was handed back.                   *)
(***************************************************************************)
LEMMA RemoveClaimShape ==
    ASSUME Shape, NEW p \in Processes, RemoveClaim(p)
    PROVE  ShapeStep(p)
  <1>1. p \in running /\ mem[p].op = "remove" /\ UNCHANGED <<running, ghosts>>
    BY DEF RemoveClaim, Doing
  <1>2. Fit(p, mem[p])
    BY <1>1, ActorFacts
  <1>3. recorded' \subseteq Events /\ sent' \in [Events -> Nat] /\ UNCHANGED pids
    BY <1>1 DEF Shape, OutboxTypes, ghosts
  <1>4. PICK f, n :
          /\ f \in mem[p].carried /\ n = [mem[p] EXCEPT !.carried = @ \ {f}]
          /\ place' = [place EXCEPT ![f] = "gone"] /\ lines' = [lines EXCEPT ![f] = <<>>]
          /\ Become(p, n)
    BY DEF RemoveClaim
  <1>5. f \in Files /\ place[f] = p
    BY <1>2, <1>4, FieldTypes DEF Fit, Holds, Claims
  <1>6. /\ n \in Memories /\ n.claimed = mem[p].claimed /\ n.consumed = mem[p].consumed
        /\ n.carried = mem[p].carried \ {f} /\ n.seized = mem[p].seized /\ n.handle = mem[p].handle
        /\ n.op = mem[p].op /\ n.listed = mem[p].listed /\ n.unsent = mem[p].unsent
        /\ n.drain = mem[p].drain
    BY <1>2, <1>4 DEF Fit, Memories
  <1>7. Phase(n)
    BY <1>1, <1>2, <1>4, <1>6 DEF Fit, Phase, Compacting
  <1>8. Holds(p, n)'
    <2>1. /\ n.claimed = <<>> /\ n.consumed = {} /\ n.handle = 0 /\ n.seized = 0 /\ n.op = "remove"
      BY <1>1, <1>2, <1>6 DEF Fit, Phase, Compacting
    <2>2. Range(n.claimed) = {} /\ DOMAIN n.claimed = {}
      BY <2>1, EmptySeq, SeqFacts DEF Range
    <2>3. Claims(n) = mem[p].carried \ {f} /\ Claims(n)' = Claims(n)
      BY <1>6, <2>1, <2>2 DEF Claims
    <2>4. /\ place \in [Files -> pids \cup {"live", "gone"}] /\ mem[p].carried \subseteq Files
      BY <1>2, FieldTypes DEF Shape, OutboxTypes, Fit
    <2>5. Holds(p, mem[p])
      BY <1>2 DEF Fit
    <2>6. \A g \in Claims(n) : place'[g] = p
      BY <1>4, <1>5, <2>3, <2>4, <2>5 DEF Holds, Claims
    <2>7. QED
      BY <1>1, <1>3, <1>6, <2>1, <2>2, <2>3, <2>5, <2>6 DEF Holds, Compacting
  <1>9. <<>> \in Seq(Events) /\ "gone" # "live"
    BY EmptySeq
  <1>10. QED
    BY <1>1, <1>3, <1>4, <1>5, <1>6, <1>7, <1>8, <1>9, FileStep

(***************************************************************************)
(* The outbox is opened.                                                   *)
(***************************************************************************)
LEMMA OutboxFacts ==
    ASSUME Shape, NEW f \in Outbox
    PROVE  /\ f \in Files /\ place[f] \in {"live", "gone"} /\ Live \subseteq {f}
           /\ place[f] = "gone" => Live = {} /\ lines[f] = <<>>
           /\ \A q \in Processes : place[f] # q
  <1>1. CASE Live # {}
    BY <1>1, OutboxAssumption DEF Outbox, Live, Shape, Disk
  <1>2. CASE Live = {}
    BY <1>2, OutboxAssumption DEF Outbox, Unused, Shape, Disk
  <1>3. QED
    BY <1>1, <1>2

(***************************************************************************)
(* An append opens the outbox, and makes one if there is none.             *)
(***************************************************************************)
LEMMA OpenShape ==
    ASSUME Shape, NEW p \in Processes, Open(p)
    PROVE  ShapeStep(p)
  <1>1. /\ p \in running /\ mem[p].op \in {"open", "reopen"} /\ UNCHANGED <<running, lines, ghosts>>
    BY DEF Open, Doing
  <1>2. Fit(p, mem[p])
    BY <1>1, ActorFacts
  <1>3. recorded' \subseteq Events /\ sent' \in [Events -> Nat] /\ UNCHANGED pids
    BY <1>1 DEF Shape, OutboxTypes, ghosts
  <1>4. PICK f, op, n :
          /\ f \in Outbox
          /\ \/ mem[p].op = "open" /\ op = "write"
             \/ mem[p].op = "reopen" /\ op = "restore"
          /\ n = [mem[p] EXCEPT !.handle = f, !.op = op]
          /\ place' = [place EXCEPT ![f] = "live"]
          /\ Become(p, n)
    <2>1. PICK f \in Outbox :
            /\ place' = [place EXCEPT ![f] = "live"]
            /\ Become(p, [mem[p] EXCEPT !.handle = f,
                                        !.op = IF @ = "open" THEN "write" ELSE "restore"])
      BY DEF Open
    <2>2. CASE mem[p].op = "open"
      BY <2>1, <2>2, <1>2 DEF Fit, Memories
    <2>3. CASE mem[p].op = "reopen"
      BY <2>1, <2>3, <1>2 DEF Fit, Memories
    <2>4. QED
      BY <1>1, <2>2, <2>3
  <1>5. f \in Files /\ place[f] \in {"live", "gone"} /\ Live \subseteq {f}
          /\ place[f] # p /\ place[f] \notin running
    BY <1>1, <1>4, OutboxFacts DEF Shape, OutboxTypes
  <1>6. /\ n \in Memories /\ n.claimed = mem[p].claimed /\ n.consumed = mem[p].consumed
        /\ n.carried = mem[p].carried /\ n.seized = mem[p].seized /\ n.handle = f
        /\ n.op = op /\ n.listed = mem[p].listed /\ n.unsent = mem[p].unsent /\ n.drain = mem[p].drain
        /\ n.mark = mem[p].mark
    BY <1>2, <1>4, <1>5 DEF Fit, Memories, Ops, AppendOps
  <1>7. Phase(n)
    BY <1>1, <1>2, <1>4, <1>6 DEF Fit, Phase, Compacting
  <1>8. Holds(p, n)'
    <2>1. Claims(n) = Claims(mem[p]) /\ Claims(n)' = Claims(n)
      BY <1>6 DEF Claims
    <2>2. /\ place \in [Files -> pids \cup {"live", "gone"}] /\ Claims(mem[p]) \subseteq Files
      BY <1>2, FieldTypes, SeqFacts DEF Shape, OutboxTypes, Claims, Fit
    <2>3. Holds(p, mem[p])
      BY <1>2 DEF Fit
    <2>4. \A g \in Claims(n) : place'[g] = p
      BY <1>4, <1>5, <2>1, <2>2, <2>3 DEF Holds
    <2>5. n.seized # 0 => place'[n.seized] = p /\ n.seized \notin Claims(n)
      <3>1. n.seized # 0 => n.seized \in Files
        BY <1>2, <1>6, FieldTypes DEF Fit
      <3>2. QED
        BY <3>1, <1>4, <1>5, <1>6, <2>1, <2>2, <2>3 DEF Holds
    <2>6. place'[f] # p
      BY <1>4, <1>5, <2>2, OutboxAssumption
    <2>7. op \in Compacting \ {"inspect"} => mem[p].op \in Compacting \ {"inspect"}
      BY <1>4 DEF Compacting
    <2>8. QED
      BY <1>1, <1>3, <1>6, <2>1, <2>3, <2>4, <2>5, <2>6, <2>7 DEF Holds
  <1>9. lines' = [lines EXCEPT ![f] = lines[f]] /\ lines[f] \in Seq(Events)
    BY <1>1, <1>5 DEF Shape, OutboxTypes
  <1>10. QED
    BY <1>1, <1>3, <1>4, <1>5, <1>6, <1>7, <1>8, <1>9, FileStep

(***************************************************************************)
(* An append goes to the file that was opened, or to the outbox, which     *)
(* grows unless it was deleted.                                            *)
(***************************************************************************)
Target(p) == IF mem[p].handle # 0 THEN {mem[p].handle} ELSE Outbox

(***************************************************************************)
(* The file grows by what is appended, unless it was deleted.              *)
(***************************************************************************)
Grows(p, f, events) ==
    /\ place' = IF mem[p].handle # 0 THEN place ELSE [place EXCEPT ![f] = "live"]
    /\ lines' = IF mem[p].handle # 0 /\ place[f] = "gone" THEN lines
                ELSE [lines EXCEPT ![f] = lines[f] \o events]

(***************************************************************************)
(* What is appended through an old handle strays when the file is deleted, *)
(* or was read for the last time.                                          *)
(***************************************************************************)
Strays(p, f) == mem[p].handle # 0 /\ (place[f] = "gone" \/ PastTail(f))

(***************************************************************************)
(* What strays is counted as such.                                         *)
(***************************************************************************)
Counts(p, f, events) == strayed' = IF Strays(p, f) THEN strayed \cup Range(events) ELSE strayed

(***************************************************************************)
(* AppendTo in these terms.                                                *)
(***************************************************************************)
LEMMA AppendToFacts ==
    ASSUME NEW p, NEW events, NEW next, AppendTo(p, events, next)
    PROVE  /\ \E f \in Target(p) : Grows(p, f, events) /\ Counts(p, f, events)
           /\ written' = written \cup Range(events)
           /\ Become(p, [mem[p] EXCEPT !.handle = 0, !.op = next])
           /\ UNCHANGED <<running, pids, recorded, forgone, sent, doubtful, mishaps>>
  BY DEF AppendTo, Target, Grows, Strays, Counts

(***************************************************************************)
(* What a file that grows keeps.                                           *)
(***************************************************************************)
LEMMA GrowsFacts ==
    ASSUME Shape, NEW p \in running, NEW f \in Target(p), NEW events \in Seq(Events),
           Grows(p, f, events)
    PROVE  /\ f \in Files /\ place[f] # p
           /\ mem[p].handle = 0 => f \in Outbox
           /\ place' \in [Files -> pids \cup {"live", "gone"}]
           /\ lines' \in [Files -> Seq(Events)]
           /\ \A g \in Files : place'[g] = place[g] \/ (g = f /\ f \in Outbox /\ place'[f] = "live")
           /\ \A g \in Files : lines'[g] = lines[g]
                \/ (g = f /\ lines'[f] = lines[f] \o events /\ place'[f] # "gone")
           /\ place'[f] # "gone" => lines'[f] = lines[f] \o events
           /\ Disk'
  <1>1. Fit(p, mem[p]) /\ p \in Processes
    BY ActorFacts
  <1>2. f \in Files /\ place[f] # p /\ (mem[p].handle = 0 => f \in Outbox)
    <2>1. CASE mem[p].handle # 0
      BY <1>1, <2>1, FieldTypes DEF Target, Fit, Holds
    <2>2. CASE mem[p].handle = 0
      BY <1>1, <2>2, OutboxFacts DEF Target
    <2>3. QED
      BY <2>1, <2>2
  <1>3. /\ place \in [Files -> pids \cup {"live", "gone"}] /\ lines \in [Files -> Seq(Events)]
        /\ lines[f] \o events \in Seq(Events)
    BY <1>2, JoinFacts DEF Shape, OutboxTypes
  <1>4. /\ \A g, h \in Live : g = h
        /\ \A g \in Files : place[g] = "gone" => lines[g] = <<>>
    BY DEF Shape, Disk
  <1>5. CASE mem[p].handle # 0
    <2>1. place' = place
      BY <1>5 DEF Grows
    <2>2. CASE place[f] = "gone"
      <3>1. lines' = lines
        BY <1>5, <2>2 DEF Grows
      <3>2. QED
        BY <1>2, <1>3, <1>4, <1>5, <2>1, <2>2, <3>1 DEF Disk, Live
    <2>3. CASE ~(place[f] = "gone")
      <3>1. lines' = [lines EXCEPT ![f] = lines[f] \o events]
        BY <1>5, <2>3 DEF Grows
      <3>2. QED
        BY <1>2, <1>3, <1>4, <1>5, <2>1, <2>3, <3>1 DEF Disk, Live
    <2>4. QED
      BY <2>2, <2>3
  <1>6. CASE mem[p].handle = 0
    <2>1. f \in Outbox /\ Live \subseteq {f}
      BY <1>2, <1>6, OutboxFacts
    <2>2. place' = [place EXCEPT ![f] = "live"] /\ lines' = [lines EXCEPT ![f] = lines[f] \o events]
      BY <1>6 DEF Grows
    <2>3. place' \in [Files -> pids \cup {"live", "gone"}] /\ lines' \in [Files -> Seq(Events)]
      BY <1>3, <2>2
    <2>4. "live" # "gone" /\ place'[f] = "live" /\ lines'[f] = lines[f] \o events
      BY <1>2, <1>3, <2>2
    <2>5. \A g \in Files \ {f} : place'[g] = place[g] /\ lines'[g] = lines[g]
      BY <1>3, <2>2
    <2>6. Disk'
      BY <2>1, <2>4, <2>5, <1>4 DEF Disk, Live
    <2>7. QED
      BY <1>2, <2>1, <2>3, <2>4, <2>5, <2>6
  <1>7. QED
    BY <1>5, <1>6

(***************************************************************************)
(* An append keeps the shape when the memory it leaves fits.               *)
(***************************************************************************)
LEMMA AppendToShape ==
    ASSUME Shape, NEW p \in running, NEW events \in Seq(Events), NEW next,
           AppendTo(p, events, next),
           \/ mem[p].op = "write" /\ next \in {"none", "remove"}
                /\ (next = "remove" <=> mem[p].drain = "releasing")
           \/ mem[p].op = "restore" /\ next = "drop"
    PROVE  ShapeStep(p)
  <1>1. PICK f \in Target(p) : Grows(p, f, events)
    BY AppendToFacts
  <1>2. /\ f \in Files /\ place[f] # p
        /\ place' \in [Files -> pids \cup {"live", "gone"}]
        /\ lines' \in [Files -> Seq(Events)]
        /\ \A g \in Files : place'[g] = place[g] \/ (g = f /\ f \in Outbox /\ place'[f] = "live")
        /\ \A g \in Files : lines'[g] = lines[g]
             \/ (g = f /\ lines'[f] = lines[f] \o events /\ place'[f] # "gone")
        /\ Disk'
    BY <1>1, GrowsFacts
  <1>3. UNCHANGED <<running, pids, recorded, sent>>
    BY AppendToFacts
  <1>4. PICK n : n = [mem[p] EXCEPT !.handle = 0, !.op = next]
    OBVIOUS
  <1>5. Become(p, n)
    BY <1>4, AppendToFacts
  <1>6. Fit(p, mem[p])
    BY ActorFacts
  <1>7. /\ n \in Memories /\ n.claimed = mem[p].claimed /\ n.consumed = mem[p].consumed
        /\ n.carried = mem[p].carried /\ n.seized = mem[p].seized /\ n.handle = 0
        /\ n.op = next /\ n.listed = mem[p].listed /\ n.unsent = mem[p].unsent
        /\ n.drain = mem[p].drain /\ n.mark = mem[p].mark
    BY <1>4, <1>6, ZenonT(40) DEF Fit, Memories, Ops, AppendOps
  <1>8. Phase(n)
    BY <1>6, <1>7 DEF Fit, Phase, Compacting
  <1>9. \A g \in Files : place[g] \in running =>
          /\ place'[g] = place[g] /\ \E t \in Seq(Events) : lines'[g] = lines[g] \o t
          /\ Len(lines[g]) <= Len(lines'[g])
    <2> SUFFICES ASSUME NEW g \in Files, place[g] \in running
                 PROVE  /\ place'[g] = place[g] /\ \E t \in Seq(Events) : lines'[g] = lines[g] \o t
                        /\ Len(lines[g]) <= Len(lines'[g])
      OBVIOUS
    <2>1. place'[g] = place[g]
      <3>1. f \in Outbox => place[f] \notin running
        BY OutboxFacts DEF Shape, OutboxTypes
      <3>2. QED
        BY <3>1, <1>2
    <2>2. lines[g] \in Seq(Events) /\ <<>> \in Seq(Events) /\ lines[g] \o <<>> = lines[g]
      BY EmptySeq, ConcatEmptySeq DEF Shape, OutboxTypes
    <2>3. PICK t \in Seq(Events) : lines'[g] = lines[g] \o t
      BY <2>2, <1>2
    <2>4. Len(lines'[g]) = Len(lines[g]) + Len(t) /\ Len(t) \in Nat /\ Len(lines[g]) \in Nat
      BY <2>2, <2>3, JoinFacts, SeqFacts
    <2>5. Len(lines[g]) <= Len(lines'[g])
      BY <2>4
    <2>6. \E u \in Seq(Events) : lines'[g] = lines[g] \o u
      BY <2>3
    <2>7. QED
      BY <2>1, <2>5, <2>6
  <1>10. Holds(p, n)'
    <2>1. Claims(n) = Claims(mem[p]) /\ Claims(n)' = Claims(n)
      BY <1>7 DEF Claims
    <2>2. /\ Claims(mem[p]) \subseteq Files /\ mem[p].mark \in Nat
          /\ \A c \in mem[p].consumed : c.file \in Files /\ c.bytes \in Nat /\ c.file \in Claims(mem[p])
          /\ mem[p].seized \in Files \cup {0}
      BY <1>6, FieldTypes, SeqFacts DEF Claims, Fit
    <2>3. Holds(p, mem[p])
      BY <1>6 DEF Fit
    <2>4. \A g \in Claims(n) : place'[g] = p
      BY <1>9, <2>1, <2>2, <2>3 DEF Holds
    <2>5. n.seized # 0 => place'[n.seized] = p /\ n.seized \notin Claims(n)
      BY <1>7, <1>9, <2>1, <2>2, <2>3 DEF Holds
    <2>6. \A g \in Files : Len(lines[g]) \in Nat /\ Len(lines'[g]) \in Nat
      BY <1>2, SeqFacts DEF Shape, OutboxTypes
    <2>7. \A c \in n.consumed : c.bytes <= Len(lines'[c.file])
      <3> SUFFICES ASSUME NEW c \in n.consumed
                   PROVE  c.bytes <= Len(lines'[c.file])
        OBVIOUS
      <3>1. /\ c.file \in Files /\ c.bytes \in Nat /\ place[c.file] = p
            /\ c.bytes <= Len(lines[c.file])
        BY <1>7, <2>2, <2>3 DEF Holds
      <3>2. QED
        BY <3>1, <2>6, <1>9
    <2>8. n.op \in Compacting \ {"inspect"} => n.mark <= Len(lines'[n.seized])
      <3> SUFFICES ASSUME n.op \in Compacting
                   PROVE  n.mark <= Len(lines'[n.seized])
        OBVIOUS
      <3>1. mem[p].op = "restore"
        BY <1>7 DEF Compacting
      <3>2. /\ mem[p].seized \in Files /\ place[mem[p].seized] = p
            /\ mem[p].mark <= Len(lines[mem[p].seized])
        BY <3>1, <1>6, <2>2, <2>3 DEF Fit, Phase, Compacting, Holds
      <3>3. QED
        BY <3>2, <2>2, <2>6, <1>7, <1>9
    <2>9. QED
      BY <1>3, <1>7, <2>1, <2>3, <2>4, <2>5, <2>7, <2>8 DEF Holds
  <1>11. \A g \in Files : place'[g] \in {place[g], p, "live", "gone"}
    BY <1>2
  <1>12. recorded' \subseteq Events /\ sent' \in [Events -> Nat]
    BY <1>3 DEF Shape, OutboxTypes
  <1>13. QED
    BY <1>2, <1>3, <1>5, <1>7, <1>8, <1>9, <1>10, <1>11, <1>12, DiskStep

(***************************************************************************)
(* A batch is appended.                                                    *)
(***************************************************************************)
LEMMA WriteShape ==
    ASSUME Shape, NEW p \in Processes, Write(p)
    PROVE  ShapeStep(p)
  <1>1. p \in running /\ mem[p].op = "write" /\ AppendTo(p, mem[p].batch, Releasing(mem[p]))
    BY DEF Write, Doing
  <1>2. mem[p].batch \in Seq(Events)
    BY <1>1, ActorFacts, FieldTypes DEF Fit
  <1>3. /\ Releasing(mem[p]) \in {"none", "remove"}
        /\ Releasing(mem[p]) = "remove" <=> mem[p].drain = "releasing"
    BY DEF Releasing
  <1>4. QED
    BY <1>1, <1>2, <1>3, AppendToShape

(***************************************************************************)
(* What a compaction keeps is appended.                                    *)
(***************************************************************************)
LEMMA RestoreShape ==
    ASSUME Shape, NEW p \in Processes, Restore(p)
    PROVE  ShapeStep(p)
  <1>1. p \in running /\ mem[p].op = "restore" /\ AppendTo(p, mem[p].kept, "drop")
    BY DEF Restore, Doing
  <1>2. mem[p].kept \in Seq(Events)
    BY <1>1, ActorFacts, FieldTypes DEF Fit
  <1>3. QED
    BY <1>1, <1>2, AppendToShape

(***************************************************************************)
(* A process starts or ends.                                               *)
(***************************************************************************)
LEMMA SameFiles ==
    ASSUME Shape, NEW p \in Processes, UNCHANGED disk
    PROVE  /\ \A f \in Files : place'[f] \in {place[f], p, "live", "gone"}
           /\ \A f \in Files : place'[f] = place[f] /\ \E t \in Seq(Events) : lines'[f] = lines[f] \o t
           /\ Disk'
  <1>1. UNCHANGED <<place, lines>>
    BY DEF disk
  <1>2. <<>> \in Seq(Events) /\ \A f \in Files : lines[f] \o <<>> = lines[f]
    BY EmptySeq, ConcatEmptySeq DEF Shape, OutboxTypes
  <1>3. Disk'
    BY <1>1 DEF Shape, Disk, Live
  <1>4. QED
    BY <1>1, <1>2, <1>3

(***************************************************************************)
(* A process starts with an empty memory.                                  *)
(***************************************************************************)
LEMMA StartsShape ==
    ASSUME Shape, NEW p \in Processes, Starts(p)
    PROVE  ShapeStep(p)
  <1>1. /\ p \notin pids /\ pids' = pids \cup {p} /\ running' = running \cup {p}
        /\ UNCHANGED <<disk, recorded, sent>>
    BY DEF Starts
  <1>2. PICK consent, m :
          consent \in BOOLEAN /\ m = [Blank EXCEPT !.usage = consent, !.op = "list"] /\ Become(p, m)
    BY DEF Starts
  <1>3. m \in Memories /\ Phase(m) /\ Holds(p, m)
    BY <1>2, BlankFacts
  <1>4. mem \in [Processes -> Memories] /\ running \subseteq pids /\ pids \subseteq Processes
    BY DEF Shape, OutboxTypes
  <1>5. mem' \in [Processes -> Memories] /\ mem'[p] = m /\ \A q \in Processes \ {p} : mem'[q] = mem[q]
    BY <1>2, <1>3, <1>4 DEF Become
  <1>6. Frame(p)
    BY <1>1, <1>4, <1>5, SameFiles DEF Frame
  <1>7. OutboxTypes'
    BY <1>1, <1>4, <1>5 DEF Shape, OutboxTypes, disk
  <1>8. m.listed = {}
    BY <1>2 DEF Blank
  <1>9. Holds(p, mem[p])'
    BY <1>1, <1>3, <1>5, <1>8 DEF Holds, disk
  <1>10. QED
    BY <1>1, <1>3, <1>5, <1>6, <1>7, <1>9, SameFiles DEF ShapeStep

(***************************************************************************)
(* A process that ends leaves its claims to be found.                      *)
(***************************************************************************)
LEMMA EndsShape ==
    ASSUME Shape, NEW p \in running, Ends(p)
    PROVE  ShapeStep(p)
  <1>1. /\ running' = running \ {p} /\ Become(p, Blank) /\ UNCHANGED <<disk, pids, recorded, sent>>
    BY DEF Ends
  <1>2. mem \in [Processes -> Memories] /\ running \subseteq pids /\ pids \subseteq Processes
    BY DEF Shape, OutboxTypes
  <1>3. p \in Processes
    BY <1>2
  <1>4. mem' \in [Processes -> Memories] /\ mem'[p] = Blank /\ \A q \in Processes \ {p} : mem'[q] = mem[q]
    BY <1>1, <1>2, <1>3, BlankFacts DEF Become
  <1>5. Frame(p)
    BY <1>1, <1>3, <1>4, SameFiles DEF Frame
  <1>6. OutboxTypes'
    BY <1>1, <1>2, <1>4 DEF Shape, OutboxTypes, disk
  <1>7. QED
    BY <1>1, <1>3, <1>4, <1>5, <1>6, SameFiles DEF ShapeStep

(***************************************************************************)
(* The shape is kept by every step, and holds when the behaviour begins.   *)
(***************************************************************************)
LEMMA ShapeNext ==
    ASSUME Shape, NEW p \in Processes,
           \/ Starts(p) \/ ListClaims(p) \/ TakeClaim(p) \/ TakeLive(p) \/ ReadClaim(p) \/ Bound(p)
           \/ DrainSends(p) \/ CarryTail(p) \/ HandBack(p) \/ RemoveClaim(p) \/ Released(p)
           \/ Record(p) \/ Flush(p) \/ FlushEnds(p)
           \/ Stat(p) \/ Open(p) \/ Write(p) \/ Restore(p) \/ WriteFails(p)
           \/ Seize(p) \/ Inspect(p) \/ ReadTail(p) \/ Drop(p)
           \/ ShutsDown(p) \/ Leaves(p) \/ IsKilled(p)
    PROVE  ShapeStep(p)
  <1>1. CASE Starts(p) \/ ListClaims(p) \/ TakeClaim(p) \/ TakeLive(p) \/ ReadClaim(p) \/ Bound(p)
    BY <1>1, StartsShape, ListClaimsShape, TakeClaimShape, TakeLiveShape, ReadClaimShape, BoundShape
  <1>2. CASE DrainSends(p) \/ CarryTail(p) \/ HandBack(p) \/ RemoveClaim(p) \/ Released(p)
    BY <1>2, DrainSendsShape, CarryTailShape, HandBackShape, RemoveClaimShape, ReleasedShape
  <1>3. CASE Record(p) \/ Flush(p) \/ FlushEnds(p) \/ ShutsDown(p)
    BY <1>3, RecordShape, FlushShape, FlushEndsShape, ShutsDownShape
  <1>4. CASE Stat(p) \/ Open(p) \/ Write(p) \/ Restore(p) \/ WriteFails(p)
    BY <1>4, StatShape, OpenShape, WriteShape, RestoreShape, WriteFailsShape
  <1>5. CASE Seize(p) \/ Inspect(p) \/ ReadTail(p) \/ Drop(p)
    BY <1>5, SeizeShape, InspectShape, ReadTailShape, DropShape
  <1>6. CASE Leaves(p) \/ IsKilled(p)
    <2>1. p \in running /\ Ends(p)
      BY <1>6 DEF Leaves, IsKilled, Idle, Doing
    <2>2. QED
      BY <2>1, EndsShape
  <1>7. QED
    BY <1>1, <1>2, <1>3, <1>4, <1>5, <1>6

(***************************************************************************)
(* The files and memories have their shape when the behaviour begins: one  *)
(* file at most has lines, and no process runs.                            *)
(***************************************************************************)
LEMMA InitFacts ==
    ASSUME OutboxInit
    PROVE  Shape
  <1>1. PICK old \in {"live", "gone"} \cup Departed :
          /\ place = [f \in Files |-> IF f = 1 THEN old ELSE "gone"]
          /\ Left = <<>> => old = "gone"
          /\ Left # <<>> => old # "gone"
    BY OutboxAssumption DEF OutboxInit
  <1>2. /\ running = {} /\ mem = [p \in Processes |-> Blank] /\ pids = Departed
        /\ lines = [f \in Files |-> IF f = 1 THEN Left ELSE <<>>]
        /\ recorded = Range(Left) /\ sent = [e \in Events |-> 0]
    BY DEF OutboxInit
  <1>3. 1 \in Files /\ Left \in Seq(Events) /\ <<>> \in Seq(Events) /\ Departed \subseteq Processes
          /\ Range(Left) \subseteq Events
    BY OutboxAssumption, EmptySeq, SeqFacts
  <1>4. OutboxTypes
    BY <1>1, <1>2, <1>3, BlankFacts DEF OutboxTypes
  <1>5. Phases
    BY <1>2 DEF Phases
  <1>6. Disk
    BY <1>1, <1>2, <1>3 DEF Disk, Live
  <1>7. QED
    BY <1>2, <1>4, <1>5, <1>6 DEF Shape

(***************************************************************************)
(* The files and the memories keep their shape: one outbox, and every      *)
(* process works on claims of its own, at every point of its code.         *)
(***************************************************************************)
THEOREM OutboxShape == OutboxSpec => []Shape
  <1>1. OutboxInit => Shape
    BY InitFacts
  <1>2. Shape /\ [OutboxNext]_outboxVars => Shape'
    <2> SUFFICES ASSUME Shape, [OutboxNext]_outboxVars
                 PROVE  Shape'
      OBVIOUS
    <2>1. CASE OutboxNext
      BY <2>1, ShapeNext, ShapeFromStep DEF OutboxNext
    <2>2. CASE UNCHANGED outboxVars
      <3>1. UNCHANGED <<running, mem, place, lines, pids, recorded, sent>>
        BY <2>2 DEF outboxVars, disk, ghosts
      <3>2. QED
        BY <3>1 DEF Shape, OutboxTypes, Phases, Disk, Live, Holds
    <2>3. QED
      BY <2>1, <2>2
  <1>3. QED
    BY <1>1, <1>2, PTL DEF OutboxSpec

(***************************************************************************)
(* Cutting a sequence of events in two.                                    *)
(***************************************************************************)
LEMMA CutEvents ==
    ASSUME NEW s \in Seq(Events), NEW n \in Nat
    PROVE  /\ First(s, n) \in Seq(Events) /\ From(s, n) \in Seq(Events)
           /\ Range(First(s, n)) \subseteq Events /\ Range(From(s, n)) \subseteq Events
           /\ \A e : e \in Range(s) <=> e \in Range(First(s, n)) \/ e \in Range(From(s, n))
  <1>1. First(s, n) \in Seq(Events) /\ From(s, n) \in Seq(Events)
    BY CutFacts
  <1>2. \A e \in Range(s) : e \in Range(First(s, n)) \/ e \in Range(From(s, n))
    BY CutFacts
  <1>3. \A e \in Range(First(s, n)) : e \in Range(s)
    BY CutFacts
  <1>4. \A e \in Range(From(s, n)) : e \in Range(s)
    BY CutFacts
  <1>5. Range(First(s, n)) \subseteq Events
    BY <1>1, SeqFacts
  <1>6. Range(From(s, n)) \subseteq Events
    BY <1>1, SeqFacts
  <1>7. QED
    BY <1>1, <1>2, <1>5, <1>6, <1>3, <1>4

(***************************************************************************)
(* Joining two sequences of events.                                        *)
(***************************************************************************)
LEMMA JoinEvents ==
    ASSUME NEW s \in Seq(Events), NEW t \in Seq(Events)
    PROVE  /\ s \o t \in Seq(Events)
           /\ \A e : e \in Range(s \o t) <=> e \in Range(s) \/ e \in Range(t)
  BY JoinFacts

(***************************************************************************)
(* What becomes of the memory of the process that acts.                    *)
(***************************************************************************)
LEMMA BecomeFacts ==
    ASSUME Shape, NEW p \in Processes, NEW n, Become(p, n)
    PROVE  mem'[p] = n
  BY DEF Become, Shape, OutboxTypes

(***************************************************************************)
(* The memories m and n hold the same events, but for what a compaction    *)
(* keeps.                                                                  *)
(***************************************************************************)
Alike(m, n) ==
    /\ n.queue = m.queue /\ n.flights = m.flights /\ n.batch = m.batch
    /\ n.consumed = m.consumed /\ n.carried = m.carried /\ n.unsent = m.unsent

(***************************************************************************)
(* The claims found change no events.                                      *)
(***************************************************************************)
LEMMA ListClaimsEffect ==
    ASSUME Shape, NEW p \in Processes, NEW m, m = mem[p], NEW n, n = mem'[p], ListClaims(p)
    PROVE  /\ p \in running /\ UNCHANGED <<running, lines, ghosts>>
           /\ m.op = "list" /\ n.op = "take" /\ Alike(m, n)
  <1>1. p \in running /\ UNCHANGED <<running, lines, ghosts>> /\ m.op = "list"
    BY DEF ListClaims, Doing, disk
  <1>2. m \in Memories /\ Phase(m)
    BY <1>1, ActorFacts DEF Fit
  <1> DEFINE L == {[file |-> f, holder |-> place[f]] : f \in {g \in Files : place[g] \in Processes \ running}}
  <1>3. Become(p, [m EXCEPT !.listed = L, !.op = "take"])
    BY DEF ListClaims
  <1> HIDE DEF L
  <1>4. n = [m EXCEPT !.listed = L, !.op = "take"]
    BY <1>3, BecomeFacts
  <1>5. QED
    BY <1>1, <1>2, <1>4 DEF Memories, Alike

(***************************************************************************)
(* Nor does taking one.                                                    *)
(***************************************************************************)
LEMMA TakeClaimEffect ==
    ASSUME Shape, NEW p \in Processes, NEW m, m = mem[p], NEW n, n = mem'[p], TakeClaim(p)
    PROVE  /\ p \in running /\ UNCHANGED <<running, lines, ghosts>>
           /\ m.op = "take" /\ n.op = "take" /\ Alike(m, n)
  <1>1. p \in running /\ UNCHANGED <<running, lines, ghosts>> /\ m.op = "take"
    BY DEF TakeClaim, Doing, disk
  <1>2. m \in Memories /\ Phase(m)
    BY <1>1, ActorFacts DEF Fit
  <1>3. PICK c, k : /\ k = [mem[p] EXCEPT !.listed = @ \ {c}]
                    /\ IF place[c.file] = c.holder THEN Claim(p, c.file, k)
                       ELSE Become(p, k) /\ UNCHANGED place
    BY DEF TakeClaim
  <1>4. k = [m EXCEPT !.listed = @ \ {c}] /\ (n = k \/ n = [k EXCEPT !.claimed = Append(@, c.file)])
    BY <1>3, BecomeFacts DEF Claim
  <1>5. QED
    BY <1>1, <1>2, <1>4 DEF Memories, Alike

(***************************************************************************)
(* Nor does taking the outbox.                                             *)
(***************************************************************************)
LEMMA TakeLiveEffect ==
    ASSUME Shape, NEW p \in Processes, NEW m, m = mem[p], NEW n, n = mem'[p], TakeLive(p)
    PROVE  /\ p \in running /\ UNCHANGED <<running, lines, ghosts>>
           /\ m.op = "take" /\ n.op = "read" /\ Alike(m, n)
  <1>1. p \in running /\ UNCHANGED <<running, lines, ghosts>> /\ m.op = "take"
    BY DEF TakeLive, Doing, disk
  <1>2. m \in Memories /\ Phase(m)
    BY <1>1, ActorFacts DEF Fit
  <1>3. PICK k : /\ k = [mem[p] EXCEPT !.op = "read"]
                 /\ Become(p, k) \/ \E f \in Live : Claim(p, f, k)
    BY DEF TakeLive
  <1>4. k = [m EXCEPT !.op = "read"]
    BY <1>3
  <1>5. CASE Become(p, k)
    <2>1. n = k
      BY <1>5, BecomeFacts
    <2>2. QED
      BY <1>1, <1>2, <1>4, <2>1 DEF Memories, Alike
  <1>6. ASSUME NEW f \in Live, Claim(p, f, k)
        PROVE  n.op = "read" /\ Alike(m, n)
    <2> DEFINE s == Append(k.claimed, f)
    <2>1. Become(p, [k EXCEPT !.claimed = s])
      BY <1>6 DEF Claim
    <2> HIDE DEF s
    <2>2. n = [k EXCEPT !.claimed = s]
      BY <2>1, BecomeFacts
    <2>3. QED
      BY <1>1, <1>2, <1>4, <2>2 DEF Memories, Alike
  <1>7. QED
    BY <1>1, <1>3, <1>5, <1>6

(***************************************************************************)
(* A drain that is over has no claims left.                                *)
(***************************************************************************)
LEMMA ReleasedEffect ==
    ASSUME Shape, NEW p \in Processes, NEW m, m = mem[p], NEW n, n = mem'[p], Released(p)
    PROVE  /\ p \in running /\ UNCHANGED <<running, lines, ghosts>>
           /\ m.op = "remove" /\ n.op = "none" /\ Alike(m, n)
           /\ m.carried = {}
  <1>1. p \in running /\ UNCHANGED <<running, lines, ghosts>> /\ m.op = "remove"
    BY DEF Released, Doing, disk
  <1>2. m \in Memories /\ Phase(m)
    BY <1>1, ActorFacts DEF Fit
  <1>3. Become(p, [m EXCEPT !.drain = "none", !.op = "none"]) /\ m.carried = {}
    BY DEF Released
  <1>4. n = [m EXCEPT !.drain = "none", !.op = "none"] /\ m.carried = {}
    BY <1>3, BecomeFacts
  <1>5. QED
    BY <1>1, <1>2, <1>4 DEF Memories, Alike

(***************************************************************************)
(* The size of the outbox is looked at.                                    *)
(***************************************************************************)
LEMMA StatEffect ==
    ASSUME Shape, NEW p \in Processes, NEW m, m = mem[p], NEW n, n = mem'[p], Stat(p)
    PROVE  /\ p \in running /\ UNCHANGED <<running, lines, ghosts>>
           /\ m.op = "stat" /\ n.op \in {"seize", "open", "write"} /\ Alike(m, n)
  <1>1. p \in running /\ UNCHANGED <<running, lines, ghosts>> /\ m.op = "stat"
    BY DEF Stat, Doing, disk
  <1>2. m \in Memories /\ Phase(m)
    BY <1>1, ActorFacts DEF Fit
  <1>3. PICK op \in {"seize", "open", "write"} : Become(p, [m EXCEPT !.op = op])
    BY DEF Stat, Writing
  <1>4. n = [m EXCEPT !.op = op]
    BY <1>3, BecomeFacts
  <1>5. QED
    BY <1>1, <1>2, <1>4 DEF Memories, Alike

(***************************************************************************)
(* The outbox is opened.                                                   *)
(***************************************************************************)
LEMMA OpenEffect ==
    ASSUME Shape, NEW p \in Processes, NEW m, m = mem[p], NEW n, n = mem'[p], Open(p)
    PROVE  /\ p \in running /\ UNCHANGED <<running, lines, ghosts>>
           /\ m.op \in {"open", "reopen"} /\ n.op = (IF m.op = "open" THEN "write" ELSE "restore") /\ Alike(m, n)
           /\ n.seized = m.seized /\ n.mark = m.mark /\ n.kept = m.kept
  <1>1. p \in running /\ UNCHANGED <<running, lines, ghosts>> /\ m.op \in {"open", "reopen"}
    BY DEF Open, Doing, disk
  <1>2. m \in Memories /\ Phase(m)
    BY <1>1, ActorFacts DEF Fit
  <1>3. PICK f, k : /\ k = [mem[p] EXCEPT !.handle = f, !.op = IF @ = "open" THEN "write" ELSE "restore"]
                    /\ Become(p, k)
    BY Zenon DEF Open
  <1>4. n = [m EXCEPT !.handle = f, !.op = IF @ = "open" THEN "write" ELSE "restore"]
    BY <1>3, BecomeFacts
  <1>5. QED
    BY <1>1, <1>2, <1>4 DEF Memories, Alike

(***************************************************************************)
(* A compaction claims the outbox.                                         *)
(***************************************************************************)
LEMMA SeizeEffect ==
    ASSUME Shape, NEW p \in Processes, NEW m, m = mem[p], NEW n, n = mem'[p], Seize(p)
    PROVE  /\ p \in running /\ UNCHANGED <<running, lines, ghosts>>
           /\ m.op = "seize" /\ n.op \in {"open", "write", "inspect"} /\ Alike(m, n)
  <1>1. p \in running /\ UNCHANGED <<running, lines, ghosts>> /\ m.op = "seize"
    BY Zenon DEF Seize, Doing
  <1>2. m \in Memories /\ Phase(m)
    BY <1>1, ActorFacts DEF Fit
  <1>3. PICK f, k : /\ k = [mem[p] EXCEPT !.op = Writing]
                       \/ k = [mem[p] EXCEPT !.seized = f, !.op = "inspect"]
                    /\ Become(p, k)
    BY Zenon DEF Seize
  <1>4. /\ n = [m EXCEPT !.op = Writing] \/ n = [m EXCEPT !.seized = f, !.op = "inspect"]
        /\ Writing \in {"open", "write"}
    BY <1>3, BecomeFacts DEF Writing
  <1>5. QED
    BY <1>1, <1>2, <1>4 DEF Memories, Alike

(***************************************************************************)
(* It chooses what to keep of what it reads.                               *)
(***************************************************************************)
LEMMA InspectEffect ==
    ASSUME Shape, NEW p \in Processes, NEW m, m = mem[p], NEW n, n = mem'[p], Inspect(p)
    PROVE  /\ p \in running /\ UNCHANGED <<running, lines, ghosts>>
           /\ m.op = "inspect" /\ n.op = "tail" /\ Alike(m, n)
           /\ n.seized = m.seized /\ n.mark = Len(lines[m.seized])
           /\ \E k \in Nat : n.kept = Newest(Newest(lines[m.seized], MaxEvents), k)
  <1>1. p \in running /\ UNCHANGED <<running, lines, ghosts>> /\ m.op = "inspect"
    BY DEF Inspect, Doing, disk
  <1>2. m \in Memories /\ Phase(m)
    BY <1>1, ActorFacts DEF Fit
  <1> DEFINE r == lines[m.seized]
             k == IF Cap \div 2 > 1 THEN Cap \div 2 ELSE 1
             t == Newest(Newest(r, MaxEvents), k)
  <1>3. Become(p, [m EXCEPT !.mark = Len(r), !.kept = t, !.op = "tail"])
    BY DEF Inspect
  <1>4. k \in Nat
    BY OutboxAssumption
  <1> HIDE DEF k
  <1>5. \E j \in Nat : t = Newest(Newest(lines[m.seized], MaxEvents), j)
    BY <1>4
  <1> HIDE DEF t
  <1>6. n = [m EXCEPT !.mark = Len(r), !.kept = t, !.op = "tail"]
    BY <1>3, BecomeFacts
  <1>7. QED
    BY <1>1, <1>2, <1>5, <1>6 DEF Memories, Alike

(***************************************************************************)
(* It adds what was written since.                                         *)
(***************************************************************************)
LEMMA ReadTailEffect ==
    ASSUME Shape, NEW p \in Processes, NEW m, m = mem[p], NEW n, n = mem'[p], ReadTail(p)
    PROVE  /\ p \in running /\ UNCHANGED <<running, lines, ghosts>>
           /\ m.op = "tail" /\ n.op \in {"drop", "reopen", "restore"} /\ Alike(m, n)
           /\ n.seized = m.seized /\ n.mark = m.mark
           /\ n.kept = m.kept \o From(lines[m.seized], m.mark)
           /\ n.op = "drop" <=> n.kept = <<>>
  <1>1. p \in running /\ UNCHANGED <<running, lines, ghosts>> /\ m.op = "tail"
    BY DEF ReadTail, Doing, disk
  <1>2. m \in Memories /\ Phase(m)
    BY <1>1, ActorFacts DEF Fit
  <1> DEFINE t == m.kept \o From(lines[m.seized], m.mark)
             op == IF t = <<>> THEN "drop" ELSE Restoring
  <1>3. Become(p, [m EXCEPT !.kept = t, !.op = op])
    BY DEF ReadTail
  <1>4. op \in {"drop", "reopen", "restore"} /\ (op = "drop" <=> t = <<>>)
    BY DEF Restoring
  <1>5. t = m.kept \o From(lines[m.seized], m.mark)
    OBVIOUS
  <1> HIDE DEF t, op
  <1>6. n = [m EXCEPT !.kept = t, !.op = op]
    BY <1>3, BecomeFacts
  <1>7. QED
    BY <1>1, <1>2, <1>4, <1>5, <1>6 DEF Memories, Alike

(***************************************************************************)
(* The memories m and n hold the same of the events of their own process,  *)
(* and the same of the drain.                                              *)
(***************************************************************************)
SameOwn(m, n)   == n.queue = m.queue /\ n.flights = m.flights /\ n.batch = m.batch

(***************************************************************************)
(* The drain of m and that of n are the same.                              *)
(***************************************************************************)
SameDrain(m, n) == n.consumed = m.consumed /\ n.carried = m.carried /\ n.unsent = m.unsent

(***************************************************************************)
(* What a drain reads of a claim.                                          *)
(***************************************************************************)
LEMMA ReadClaimEffect ==
    ASSUME Shape, NEW p \in Processes, NEW m, m = mem[p], NEW n, n = mem'[p], ReadClaim(p)
    PROVE  /\ p \in running /\ UNCHANGED <<running, disk, ghosts>>
           /\ m.op = "read" /\ m.claimed # <<>> /\ n.op = "read" /\ SameOwn(m, n)
           /\ n.consumed = m.consumed \cup
                {[file |-> Head(m.claimed), bytes |-> Len(lines[Head(m.claimed)])]}
           /\ n.unsent = m.unsent \o lines[Head(m.claimed)]
           /\ n.carried = m.carried
  <1>1. /\ p \in running /\ UNCHANGED <<running, disk, ghosts>> /\ m.op = "read"
        /\ m.claimed # <<>>
    BY DEF ReadClaim, Doing
  <1>2. m \in Memories
    BY <1>1, ActorFacts DEF Fit
  <1> DEFINE f == Head(m.claimed)
             C == m.consumed \cup {[file |-> f, bytes |-> Len(lines[f])]}
             u == m.unsent \o lines[f]
  <1>3. Become(p, [m EXCEPT !.claimed = Tail(@), !.consumed = C, !.unsent = u])
    BY DEF ReadClaim
  <1>4. /\ C = m.consumed \cup {[file |-> f, bytes |-> Len(lines[f])]}
        /\ u = m.unsent \o lines[f]
    OBVIOUS
  <1> HIDE DEF C, u
  <1>5. n = [m EXCEPT !.claimed = Tail(@), !.consumed = C, !.unsent = u]
    BY <1>3, BecomeFacts
  <1>6. n.op = "read" /\ SameOwn(m, n) /\ n.consumed = C /\ n.unsent = u /\ n.carried = m.carried
    BY <1>1, <1>2, <1>5 DEF Memories, SameOwn
  <1>7. QED
    BY <1>1, <1>4, <1>6

(***************************************************************************)
(* What a drain forgets is counted.                                        *)
(***************************************************************************)
LEMMA BoundEffect ==
    ASSUME Shape, NEW p \in Processes, NEW m, m = mem[p], NEW n, n = mem'[p], Bound(p)
    PROVE  /\ p \in running /\ UNCHANGED <<running, disk, pids, recorded, written, sent, doubtful, strayed>>
           /\ m.op = "read" /\ n.op \in {"none", "tails"} /\ SameOwn(m, n)
           /\ n.consumed = m.consumed /\ n.carried = m.carried
           /\ n.unsent = <<>> \/ n.unsent = Newest(m.unsent, MaxEvents)
           /\ forgone' = forgone \cup (Range(m.unsent) \ Range(n.unsent))
  <1>1. /\ p \in running /\ m.op = "read"
        /\ UNCHANGED <<running, disk, pids, recorded, written, sent, doubtful, strayed>>
    BY DEF Bound, Doing
  <1>2. m \in Memories
    BY <1>1, ActorFacts DEF Fit
  <1> DEFINE s == Newest(m.unsent, MaxEvents)
             send == m.usage /\ s # <<>>
  <1>3. /\ forgone' = forgone \cup (Range(m.unsent) \ IF send THEN Range(s) ELSE {})
        /\ Become(p, [m EXCEPT !.unsent = IF send THEN s ELSE <<>>,
                               !.drain = IF send THEN "sending" ELSE "releasing",
                               !.op = IF send THEN "none" ELSE "tails"])
    BY DEF Bound
  <1> HIDE DEF s
  <1>4. CASE send
    <2>1. Become(p, [m EXCEPT !.unsent = s, !.drain = "sending", !.op = "none"])
      BY <1>3, <1>4
    <2>2. n = [m EXCEPT !.unsent = s, !.drain = "sending", !.op = "none"]
      BY <2>1, BecomeFacts
    <2>3. /\ n.op = "none" /\ SameOwn(m, n) /\ n.consumed = m.consumed /\ n.unsent = s
          /\ n.carried = m.carried
      BY <1>2, <2>2 DEF Memories, SameOwn
    <2>4. forgone' = forgone \cup (Range(m.unsent) \ Range(n.unsent))
      BY <1>3, <1>4, <2>3
    <2>5. QED
      BY <1>1, <2>3, <2>4 DEF s
  <1>5. CASE ~send
    <2>1. Become(p, [m EXCEPT !.unsent = <<>>, !.drain = "releasing", !.op = "tails"])
      BY <1>3, <1>5
    <2>2. n = [m EXCEPT !.unsent = <<>>, !.drain = "releasing", !.op = "tails"]
      BY <2>1, BecomeFacts
    <2>3. /\ n.op = "tails" /\ SameOwn(m, n) /\ n.consumed = m.consumed /\ n.unsent = <<>>
          /\ n.carried = m.carried
      BY <1>2, <2>2 DEF Memories, SameOwn
    <2>4. Range(<<>>) = {}
      BY EmptySeq, SeqFacts
    <2>5. forgone' = forgone \cup (Range(m.unsent) \ Range(n.unsent))
      BY <1>3, <1>5, <2>3, <2>4
    <2>6. QED
      BY <1>1, <2>3, <2>5
  <1>6. QED
    BY <1>4, <1>5

(***************************************************************************)
(* What a drain has sent it drops when it was answered.                    *)
(***************************************************************************)
LEMMA DrainSendsEffect ==
    ASSUME Shape, NEW p \in Processes, NEW m, m = mem[p], NEW n, n = mem'[p], DrainSends(p)
    PROVE  /\ p \in running
           /\ m.op = "none" /\ n.op \in {"none", "tails"} /\ SameOwn(m, n)
           /\ n.consumed = m.consumed /\ n.carried = m.carried
           /\ \E outcome \in {"answered", "unanswered", "failed"} :
                /\ Post(First(m.unsent, BatchSize), outcome)
                /\ n.unsent = IF outcome = "answered" THEN From(m.unsent, BatchSize) ELSE m.unsent
  <1>1. p \in running /\ m.op = "none"
    BY DEF DrainSends, Idle, Doing
  <1>2. m \in Memories
    BY <1>1, ActorFacts DEF Fit
  <1>3. PICK outcome, after, over :
          /\ outcome \in Outcomes /\ Post(First(m.unsent, BatchSize), outcome)
          /\ after = IF outcome = "answered" THEN From(m.unsent, BatchSize) ELSE m.unsent
          /\ over = (outcome # "answered" \/ after = <<>>)
          /\ Become(p, Sends(m, after, over))
    BY DEF DrainSends
  <1>4. n = Sends(m, after, over)
    BY <1>3, BecomeFacts
  <1>5. /\ n.op \in {"none", "tails"} /\ SameOwn(m, n) /\ n.consumed = m.consumed
        /\ n.unsent = after /\ n.carried = m.carried
    <2>1. CASE over
      <3>1. n = [m EXCEPT !.unsent = after, !.drain = "releasing", !.op = "tails"]
        BY <1>4, <2>1 DEF Sends
      <3>2. QED
        BY <3>1, <1>2 DEF Memories, SameOwn
    <2>2. CASE ~over
      <3>1. n = [m EXCEPT !.unsent = after, !.drain = "sending", !.op = "none"]
        BY <1>4, <2>2 DEF Sends
      <3>2. QED
        BY <3>1, <1>2 DEF Memories, SameOwn
    <2>3. QED
      BY <2>1, <2>2
  <1>6. outcome \in {"answered", "unanswered", "failed"}
    BY <1>3 DEF Outcomes
  <1>7. QED
    BY <1>1, <1>3, <1>5, <1>6

(***************************************************************************)
(* The tail of a claim is taken over.                                      *)
(***************************************************************************)
TakesOver(m, n, c) ==
    /\ n.consumed = m.consumed \ {c} /\ n.carried = m.carried \cup {c.file}
    /\ n.unsent = m.unsent \o From(lines[c.file], c.bytes)

(***************************************************************************)
(* The rest of the claims joins what was not delivered, and they are       *)
(* marked as read.                                                         *)
(***************************************************************************)
LEMMA CarryTailEffect ==
    ASSUME Shape, NEW p \in Processes, NEW m, m = mem[p], NEW n, n = mem'[p], CarryTail(p)
    PROVE  /\ p \in running /\ UNCHANGED <<running, disk, ghosts>>
           /\ m.op = "tails" /\ n.op = "tails" /\ SameOwn(m, n)
           /\ \E c \in m.consumed : TakesOver(m, n, c)
  <1>1. p \in running /\ m.op = "tails" /\ UNCHANGED <<running, disk, ghosts>>
    BY DEF CarryTail, Doing
  <1>2. m \in Memories
    BY <1>1, ActorFacts DEF Fit
  <1>3. PICK c \in m.consumed :
          Become(p, [mem[p] EXCEPT !.consumed = @ \ {c}, !.carried = @ \cup {c.file},
                                   !.unsent = @ \o From(lines[c.file], c.bytes)])
    BY Zenon DEF CarryTail
  <1> DEFINE u == m.unsent \o From(lines[c.file], c.bytes)
  <1>4. n = [m EXCEPT !.consumed = @ \ {c}, !.carried = @ \cup {c.file}, !.unsent = u]
    BY <1>3, BecomeFacts
  <1>5. u = m.unsent \o From(lines[c.file], c.bytes)
    OBVIOUS
  <1> HIDE DEF u
  <1>6. /\ n.op = "tails" /\ SameOwn(m, n) /\ n.consumed = m.consumed \ {c}
        /\ n.carried = m.carried \cup {c.file} /\ n.unsent = u
    BY <1>1, <1>2, <1>4 DEF Memories, SameOwn
  <1>7. TakesOver(m, n, c)
    BY <1>5, <1>6 DEF TakesOver
  <1>8. QED
    BY <1>1, <1>6, <1>7

(***************************************************************************)
(* What was not delivered is handed to an append.                          *)
(***************************************************************************)
LEMMA HandBackEffect ==
    ASSUME Shape, NEW p \in Processes, NEW m, m = mem[p], NEW n, n = mem'[p], HandBack(p)
    PROVE  /\ p \in running /\ UNCHANGED <<running, disk, ghosts>>
           /\ m.op = "tails" /\ m.consumed = {}
           /\ n.queue = m.queue /\ n.flights = m.flights /\ n.batch = m.unsent
           /\ n.consumed = {} /\ n.carried = m.carried /\ n.unsent = <<>>
           /\ n.op = IF m.unsent = <<>> THEN "remove" ELSE "stat"
  <1>1. /\ p \in running /\ m.op = "tails" /\ m.consumed = {}
        /\ UNCHANGED <<running, disk, ghosts>>
    BY DEF HandBack, Doing
  <1>2. m \in Memories /\ Phase(m)
    BY <1>1, ActorFacts DEF Fit
  <1>3. PICK k : k = [m EXCEPT !.unsent = <<>>]
    OBVIOUS
  <1>4. n = Appending(k, m.unsent)
    BY <1>3, BecomeFacts DEF HandBack
  <1>5. /\ k \in Memories /\ k.queue = m.queue /\ k.flights = m.flights /\ k.consumed = {}
        /\ k.carried = m.carried /\ k.unsent = <<>> /\ k.drain = "releasing"
    BY <1>1, <1>2, <1>3, EmptySeq, ZenonT(40) DEF Memories, Phase
  <1>6. Releasing(k) = "remove"
    BY <1>5 DEF Releasing
  <1>7. QED
    BY <1>1, <1>4, <1>5, <1>6 DEF Appending, Memories

(***************************************************************************)
(* A claim is deleted.                                                     *)
(***************************************************************************)
Deletes(m, n, f) ==
    /\ n.carried = m.carried \ {f}
    /\ place' = [place EXCEPT ![f] = "gone"] /\ lines' = [lines EXCEPT ![f] = <<>>]

(***************************************************************************)
(* A claim that was handed back is gone.                                   *)
(***************************************************************************)
LEMMA RemoveClaimEffect ==
    ASSUME Shape, NEW p \in Processes, NEW m, m = mem[p], NEW n, n = mem'[p], RemoveClaim(p)
    PROVE  /\ p \in running /\ UNCHANGED <<running, ghosts>>
           /\ m.op = "remove" /\ n.op = "remove" /\ SameOwn(m, n)
           /\ n.consumed = m.consumed /\ n.unsent = m.unsent
           /\ \E f \in m.carried : Deletes(m, n, f)
  <1>1. p \in running /\ m.op = "remove" /\ UNCHANGED <<running, ghosts>>
    BY DEF RemoveClaim, Doing
  <1>2. m \in Memories
    BY <1>1, ActorFacts DEF Fit
  <1>3. PICK f \in m.carried :
          /\ place' = [place EXCEPT ![f] = "gone"] /\ lines' = [lines EXCEPT ![f] = <<>>]
          /\ Become(p, [m EXCEPT !.carried = @ \ {f}])
    BY DEF RemoveClaim
  <1>4. n = [m EXCEPT !.carried = @ \ {f}]
    BY <1>3, BecomeFacts
  <1>5. /\ n.op = "remove" /\ SameOwn(m, n) /\ n.consumed = m.consumed /\ n.unsent = m.unsent
        /\ n.carried = m.carried \ {f}
    BY <1>1, <1>2, <1>4 DEF Memories, SameOwn
  <1>6. Deletes(m, n, f)
    BY <1>3, <1>5 DEF Deletes
  <1>7. QED
    BY <1>1, <1>5, <1>6

(***************************************************************************)
(* A process starts with nothing in memory, and leaves nothing.            *)
(***************************************************************************)
LEMMA StartsEffect ==
    ASSUME Shape, NEW p \in Processes, NEW m, m = mem[p], NEW n, n = mem'[p], Starts(p)
    PROVE  /\ p \notin running /\ m = Blank
           /\ UNCHANGED <<disk, recorded, written, forgone, sent, doubtful, strayed>>
           /\ n.op = "list" /\ n.queue = <<>> /\ n.flights = {} /\ n.batch = <<>>
           /\ n.consumed = {} /\ n.carried = {} /\ n.unsent = <<>>
  <1>1. p \notin running /\ UNCHANGED <<disk, recorded, written, forgone, sent, doubtful, strayed>>
    BY DEF Starts, Shape, OutboxTypes
  <1>2. PICK consent \in BOOLEAN : Become(p, [Blank EXCEPT !.usage = consent, !.op = "list"])
    BY Zenon DEF Starts
  <1>3. n = [Blank EXCEPT !.usage = consent, !.op = "list"]
    BY <1>2, BecomeFacts
  <1>4. QED
    BY <1>1, <1>3 DEF Blank, Shape, Phases

(***************************************************************************)
(* The memory of a process that ends is gone, and nothing else.            *)
(***************************************************************************)
LEMMA EndsEffect ==
    ASSUME Shape, NEW p \in running, Ends(p)
    PROVE  /\ mem'[p] = Blank /\ running' = running \ {p} /\ p \in Processes
           /\ doubtful' = doubtful \cup LeftHalfDone(p)
           /\ UNCHANGED <<disk, pids, recorded, written, forgone, sent, strayed>>
  BY BecomeFacts, ActorFacts DEF Ends

(***************************************************************************)
(* An event is recorded; a batch is on the network.                        *)
(***************************************************************************)
Queues(m, n, e) ==
    \/ n.queue = Append(m.queue, e) /\ n.flights = m.flights
    \/ n.queue = <<>> /\ n.flights = m.flights \cup {Append(m.queue, e)}

(***************************************************************************)
(* An event is queued; a full queue becomes a batch.                       *)
(***************************************************************************)
LEMMA RecordEffect ==
    ASSUME Shape, NEW p \in Processes, NEW m, m = mem[p], NEW n, n = mem'[p], Record(p)
    PROVE  /\ p \in running
           /\ UNCHANGED <<running, disk, pids, written, forgone, sent, doubtful, strayed>>
           /\ m.op = "none" /\ n.op = "none" /\ n.batch = m.batch /\ SameDrain(m, n)
           /\ \E e \in Events \ recorded : recorded' = recorded \cup {e} /\ Queues(m, n, e)
  <1>1. /\ p \in running /\ m.op = "none"
        /\ UNCHANGED <<running, disk, pids, written, forgone, sent, doubtful, strayed>>
    BY DEF Record, Idle, Doing
  <1>2. m \in Memories
    BY <1>1, ActorFacts DEF Fit
  <1>3. PICK e \in Events \ recorded :
          /\ recorded' = recorded \cup {e}
          /\ LET s    == Append(mem[p].queue, e)
                 full == Len(s) >= BatchSize
             IN  Become(p, [mem[p] EXCEPT !.queue = IF full THEN <<>> ELSE s,
                                          !.flights = IF full THEN @ \cup {s} ELSE @])
    BY Zenon DEF Record
  <1> DEFINE s    == Append(m.queue, e)
             full == Len(s) >= BatchSize
  <1>4. Become(p, [m EXCEPT !.queue = IF full THEN <<>> ELSE s,
                            !.flights = IF full THEN @ \cup {s} ELSE @])
    BY <1>3
  <1>5. s = Append(m.queue, e)
    OBVIOUS
  <1> HIDE DEF s
  <1>6. CASE full
    <2>1. n = [m EXCEPT !.queue = <<>>, !.flights = @ \cup {s}]
      BY <1>4, <1>6, BecomeFacts
    <2>2. /\ n.op = "none" /\ n.batch = m.batch /\ SameDrain(m, n) /\ n.queue = <<>>
          /\ n.flights = m.flights \cup {s}
      BY <1>1, <1>2, <2>1 DEF Memories, SameDrain
    <2>3. QED
      BY <1>1, <1>3, <1>5, <2>2 DEF Queues
  <1>7. CASE ~full
    <2>1. n = [m EXCEPT !.queue = s, !.flights = @]
      BY <1>4, <1>7, BecomeFacts
    <2>2. /\ n.op = "none" /\ n.batch = m.batch /\ SameDrain(m, n) /\ n.queue = s
          /\ n.flights = m.flights
      BY <1>1, <1>2, <2>1 DEF Memories, SameDrain
    <2>3. QED
      BY <1>1, <1>3, <1>5, <2>2 DEF Queues
  <1>8. QED
    BY <1>6, <1>7

(***************************************************************************)
(* The queue becomes a batch on the network.                               *)
(***************************************************************************)
LEMMA FlushEffect ==
    ASSUME Shape, NEW p \in Processes, NEW m, m = mem[p], NEW n, n = mem'[p], Flush(p)
    PROVE  /\ p \in running /\ UNCHANGED <<running, disk, ghosts>>
           /\ m.op = "none" /\ n.op = "none" /\ n.batch = m.batch /\ SameDrain(m, n)
           /\ n.queue = <<>> /\ n.flights = m.flights \cup {m.queue}
  <1>1. p \in running /\ m.op = "none" /\ UNCHANGED <<running, disk, ghosts>>
    BY DEF Flush, Idle, Doing
  <1>2. m \in Memories
    BY <1>1, ActorFacts DEF Fit
  <1>3. n = [m EXCEPT !.queue = <<>>, !.flights = @ \cup {m.queue}]
    BY BecomeFacts DEF Flush
  <1>4. QED
    BY <1>1, <1>2, <1>3 DEF Memories, SameDrain

(***************************************************************************)
(* An append of s begins, when there is something to append.               *)
(***************************************************************************)
Begins(m, n, s) == n.batch = s /\ n.op = IF s = <<>> THEN "none" ELSE "stat"

(***************************************************************************)
(* The batch b is off the network, and delivered, or handed to an append.  *)
(***************************************************************************)
Answers(m, n, b, outcome) ==
    /\ n.flights = m.flights \ {b}
    /\ IF outcome = "answered" THEN n.op = "none" ELSE Begins(m, n, b)

(***************************************************************************)
(* One batch is answered, and was sent, or is to be appended.              *)
(***************************************************************************)
LEMMA FlushEndsEffect ==
    ASSUME Shape, NEW p \in Processes, NEW m, m = mem[p], NEW n, n = mem'[p], FlushEnds(p)
    PROVE  /\ p \in running /\ m.op = "none" /\ SameDrain(m, n) /\ n.queue = m.queue
           /\ \E b \in m.flights, outcome \in {"answered", "unanswered", "failed"} :
                Post(b, outcome) /\ Answers(m, n, b, outcome)
  <1>1. p \in running /\ m.op = "none"
    BY DEF FlushEnds, Idle, Doing
  <1>2. m \in Memories /\ Phase(m)
    BY <1>1, ActorFacts DEF Fit
  <1>3. PICK b, outcome, k :
          /\ b \in mem[p].flights /\ outcome \in Outcomes
          /\ k = [mem[p] EXCEPT !.flights = @ \ {b}] /\ Post(b, outcome)
          /\ Become(p, IF outcome = "answered" THEN k ELSE Appending(k, b))
    BY DEF FlushEnds
  <1>4. n = IF outcome = "answered" THEN k ELSE Appending(k, b)
    BY <1>3, BecomeFacts
  <1>5. /\ k \in Memories /\ k.op = "none" /\ SameDrain(m, k) /\ k.queue = m.queue
        /\ k.flights = m.flights \ {b} /\ k.drain = m.drain
    BY <1>1, <1>2, <1>3 DEF Memories, SameDrain
  <1>6. Releasing(k) = "none"
    BY <1>1, <1>2, <1>5 DEF Releasing, Phase
  <1>7. SameDrain(m, n) /\ n.queue = m.queue /\ Answers(m, n, b, outcome)
    BY <1>4, <1>5, <1>6 DEF Appending, Memories, SameDrain, Begins, Answers
  <1>8. outcome \in {"answered", "unanswered", "failed"}
    BY <1>3 DEF Outcomes
  <1>9. QED
    BY <1>1, <1>3, <1>7, <1>8

(***************************************************************************)
(* The queue is to be appended.                                            *)
(***************************************************************************)
LEMMA ShutsDownEffect ==
    ASSUME Shape, NEW p \in Processes, NEW m, m = mem[p], NEW n, n = mem'[p], ShutsDown(p)
    PROVE  /\ p \in running /\ UNCHANGED <<running, disk, ghosts>>
           /\ m.op = "none" /\ SameDrain(m, n) /\ n.queue = <<>> /\ n.flights = m.flights
           /\ Begins(m, n, m.queue)
  <1>1. p \in running /\ m.op = "none" /\ UNCHANGED <<running, disk, ghosts>>
    BY DEF ShutsDown, Idle, Doing
  <1>2. m \in Memories /\ Phase(m)
    BY <1>1, ActorFacts DEF Fit
  <1>3. PICK k : k = [m EXCEPT !.closed = TRUE, !.queue = <<>>]
    OBVIOUS
  <1>4. n = Appending(k, m.queue)
    BY <1>3, BecomeFacts DEF ShutsDown
  <1>5. /\ k \in Memories /\ k.op = "none" /\ SameDrain(m, k) /\ k.queue = <<>>
        /\ k.flights = m.flights /\ k.drain = m.drain
    BY <1>1, <1>2, <1>3, EmptySeq, ZenonT(40) DEF Memories, SameDrain
  <1>6. Releasing(k) = "none"
    BY <1>1, <1>2, <1>5 DEF Releasing, Phase
  <1>7. QED
    BY <1>1, <1>4, <1>5, <1>6 DEF Appending, Memories, SameDrain, Begins

(***************************************************************************)
(* A write that fails is counted; a compaction that cannot write back goes *)
(* on without.                                                             *)
(***************************************************************************)
LEMMA WriteFailsEffect ==
    ASSUME Shape, NEW p \in Processes, NEW m, m = mem[p], NEW n, n = mem'[p], WriteFails(p)
    PROVE  /\ p \in running /\ Alike(m, n)
           /\ UNCHANGED <<running, disk, pids, recorded, written, sent, doubtful, strayed>>
           /\ \/ m.op = "write" /\ n.op = Releasing(m) /\ forgone' = forgone \cup Range(m.batch)
              \/ m.op = "restore" /\ n.op \in {"open", "write"} /\ forgone' = forgone
  <1>1. p \in running /\ UNCHANGED <<running, disk, pids, recorded, written, sent, doubtful, strayed>>
    BY DEF WriteFails, Doing
  <1>2. m \in Memories
    BY <1>1, ActorFacts DEF Fit
  <1>3. CASE /\ m.op = "write" /\ forgone' = forgone \cup Range(m.batch)
             /\ Become(p, [m EXCEPT !.handle = 0, !.op = Releasing(m)])
    <2>1. n = [m EXCEPT !.handle = 0, !.op = Releasing(m)]
      BY <1>3, BecomeFacts
    <2>2. n.op = Releasing(m) /\ Alike(m, n)
      BY <1>2, <2>1 DEF Memories, Alike
    <2>3. QED
      BY <1>1, <1>3, <2>2
  <1>4. CASE /\ m.op = "restore" /\ forgone' = forgone
             /\ Become(p, [m EXCEPT !.handle = 0, !.seized = 0, !.op = Writing])
    <2>1. n = [m EXCEPT !.handle = 0, !.seized = 0, !.op = Writing]
      BY <1>4, BecomeFacts
    <2>2. n.op \in {"open", "write"} /\ Alike(m, n)
      BY <1>2, <2>1 DEF Memories, Alike, Writing
    <2>3. QED
      BY <1>1, <1>4, <2>2
  <1>5. QED
    BY <1>3, <1>4 DEF WriteFails, Doing

(***************************************************************************)
(* The seized file is gone, with what was not kept.                        *)
(***************************************************************************)
LEMMA DropEffect ==
    ASSUME Shape, NEW p \in Processes, NEW m, m = mem[p], NEW n, n = mem'[p], Drop(p)
    PROVE  /\ p \in running /\ Alike(m, n) /\ m.op = "drop" /\ n.op \in {"open", "write"}
           /\ UNCHANGED <<running, pids, recorded, written, sent, doubtful, strayed>>
           /\ place' = [place EXCEPT ![m.seized] = "gone"]
           /\ lines' = [lines EXCEPT ![m.seized] = <<>>]
           /\ forgone' = forgone \cup (Range(First(lines[m.seized], m.mark)) \ Range(m.kept))
  <1>1. /\ p \in running /\ m.op = "drop"
        /\ UNCHANGED <<running, pids, recorded, written, sent, doubtful, strayed>>
        /\ place' = [place EXCEPT ![m.seized] = "gone"]
        /\ lines' = [lines EXCEPT ![m.seized] = <<>>]
        /\ forgone' = forgone \cup (Range(First(lines[m.seized], m.mark)) \ Range(m.kept))
    BY DEF Drop, Doing
  <1>2. m \in Memories
    BY <1>1, ActorFacts DEF Fit
  <1>3. n = [m EXCEPT !.seized = 0, !.op = Writing]
    BY BecomeFacts DEF Drop
  <1>4. n.op \in {"open", "write"} /\ Alike(m, n)
    BY <1>2, <1>3 DEF Memories, Alike, Writing
  <1>5. QED
    BY <1>1, <1>4

(***************************************************************************)
(* What an append leaves in memory.                                        *)
(***************************************************************************)
LEMMA AppendToEffect ==
    ASSUME Shape, NEW p \in running, NEW m, m = mem[p], NEW n, n = mem'[p],
           NEW events, NEW next, AppendTo(p, events, next)
    PROVE  /\ Alike(m, n) /\ n.op = next
           /\ n.seized = m.seized /\ n.mark = m.mark /\ n.kept = m.kept
  <1>1. m \in Memories /\ p \in Processes
    BY ActorFacts DEF Fit
  <1>2. Become(p, [m EXCEPT !.handle = 0, !.op = next])
    BY DEF AppendTo
  <1>3. n = [m EXCEPT !.handle = 0, !.op = next]
    BY <1>1, <1>2, BecomeFacts
  <1>4. QED
    BY <1>1, <1>3 DEF Memories, Alike

(***************************************************************************)
(* A file about to be deleted is a claim of a running process, which has   *)
(* read it for the last time.                                              *)
(***************************************************************************)
LEMMA DoomedFacts ==
    ASSUME Shape, NEW q \in Processes, NEW f \in Files, HandedBack(q, f)
    PROVE  /\ q \in running /\ place[f] = q /\ PastTail(f)
           /\ mem[q].op = "drop" => mem[q].seized = f
           /\ mem[q].op \in {"drop", "remove"}
  <1>1. mem[q].op \in {"drop", "remove"}
    BY DEF HandedBack
  <1>2. q \in running
    BY <1>1 DEF Shape, Phases, Blank
  <1>3. CASE mem[q].op = "drop" /\ f = mem[q].seized
    <2>1. place[f] = q
      BY <1>2, <1>3, OutboxAssumption DEF Shape, Holds
    <2>2. QED
      BY <1>2, <1>3, <2>1 DEF PastTail
  <1>4. CASE mem[q].op = "remove" /\ f \in mem[q].carried
    <2>1. place[f] = q
      BY <1>2, <1>4 DEF Shape, Holds, Claims
    <2>2. QED
      BY <1>2, <1>4, <2>1 DEF PastTail
  <1>5. QED
    BY <1>3, <1>4 DEF HandedBack

(***************************************************************************)
(* What a step leaves alone of what the others carry: what needs no more   *)
(* is settled, and what is added to a claim after its last reading is      *)
(* strayed.                                                                *)
(***************************************************************************)
LossFrame(p) ==
    /\ Settled \subseteq Settled' /\ strayed \subseteq strayed'
    /\ \A f \in Files : place[f] \in running \ {p} =>
         \/ lines'[f] = lines[f]
         \/ \E t \in Seq(Events) :
              lines'[f] = lines[f] \o t /\ (PastTail(f) => Range(t) \subseteq strayed')

(***************************************************************************)
(* What another process has read of its claims stays accounted for.        *)
(***************************************************************************)
LEMMA OthersCarry ==
    ASSUME Shape, NEW p \in Processes, ShapeStep(p), LossInv, LossFrame(p),
           NEW q \in running, q # p
    PROVE  Carries(mem[q])'
  <1>1. PICK m : m = mem[q] /\ mem'[q] = m
    BY DEF ShapeStep, Frame, Shape, OutboxTypes
  <1>2. Carries(m) /\ m \in Memories /\ Phase(m) /\ Holds(q, m)
    BY <1>1, ActorFacts DEF LossInv, Fit
  <1>3. ASSUME NEW f \in Files, place[f] = q, NEW a \in Nat, a <= Len(lines[f])
        PROVE  /\ Range(First(lines'[f], a)) = Range(First(lines[f], a))
               /\ PastTail(f) =>
                    /\ Range(From(lines'[f], a)) \subseteq Range(From(lines[f], a)) \cup strayed'
                    /\ Range(lines'[f]) \subseteq Range(lines[f]) \cup strayed'
    <2>1. lines[f] \in Seq(Events)
      BY DEF Shape, OutboxTypes
    <2>2. CASE lines'[f] = lines[f]
      BY <2>2
    <2>3. CASE ~(lines'[f] = lines[f])
      <3>1. PICK t \in Seq(Events) :
              lines'[f] = lines[f] \o t /\ (PastTail(f) => Range(t) \subseteq strayed')
        BY <1>3, <2>3 DEF LossFrame
      <3>2. /\ Range(First(lines'[f], a)) = Range(First(lines[f], a))
            /\ Range(From(lines'[f], a)) = Range(From(lines[f], a)) \cup Range(t)
        BY <1>3, <2>1, <3>1, CutOfJoin
      <3>3. Range(lines'[f]) = Range(lines[f]) \cup Range(t)
        BY <2>1, <3>1, JoinFacts
      <3>4. QED
        BY <3>1, <3>2, <3>3
    <2>4. QED
      BY <2>2, <2>3
  <1>4. Settled \subseteq Settled' /\ strayed \subseteq strayed'
    BY DEF LossFrame
  <1>5. ASSUME m.op \in {"reopen", "restore"}
        PROVE  Range(From(lines'[m.seized], m.mark)) \subseteq Range(m.kept) \cup strayed'
    <2>1. m.seized # 0
      BY <1>2, <1>5 DEF Phase, Compacting
    <2>2. m.seized \in Files /\ m.mark \in Nat
      BY <1>2, <2>1, FieldTypes
    <2>3. place[m.seized] = q /\ m.mark <= Len(lines[m.seized])
      BY <1>2, <1>5, <2>1 DEF Holds, Compacting
    <2>4. PastTail(m.seized)
      BY <1>1, <1>5, <2>3 DEF PastTail
    <2>5. QED
      BY <2>2, <2>3, <2>4, <1>2, <1>3, <1>4, <1>5 DEF Carries
  <1>6. ASSUME NEW c \in m.consumed
        PROVE  Range(First(lines'[c.file], c.bytes)) \subseteq Range(m.unsent) \cup Settled'
    <2>1. /\ c.file \in Files /\ c.bytes \in Nat
      BY <1>2, FieldTypes
    <2>2. place[c.file] = q /\ c.bytes <= Len(lines[c.file])
      BY <1>2 DEF Holds, Claims
    <2>3. QED
      BY <2>1, <2>2, <1>2, <1>3, <1>4 DEF Carries
  <1>7. ASSUME NEW f \in m.carried
        PROVE  Range(lines'[f]) \subseteq Range(lines[f]) \cup Settled'
    <2>1. f \in Files /\ 0 \in Nat
      BY <1>2, FieldTypes
    <2>2. place[f] = q /\ PastTail(f)
      BY <1>1, <1>2 DEF Holds, Claims, PastTail
    <2>3. 0 <= Len(lines[f])
      BY <2>1, SeqFacts DEF Shape, OutboxTypes
    <2>4. Range(lines'[f]) \subseteq Range(lines[f]) \cup strayed'
      BY <2>1, <2>2, <2>3, <1>3
    <2>5. QED
      BY <2>4 DEF Settled
  <1>8. Carries(m)'
    BY <1>2, <1>4, <1>5, <1>6, <1>7 DEF Carries
  <1>9. QED
    BY <1>1, <1>8 DEF Carries

(***************************************************************************)
(* What was written stays accounted for, when what the step puts at stake  *)
(* is.                                                                     *)
(***************************************************************************)
LEMMA StaysKept ==
    ASSUME Shape, NEW p \in Processes, ShapeStep(p), LossInv, LossFrame(p),
           \A f \in Files : Range(lines[f]) \subseteq Range(lines'[f]) \/ HandedBack(p, f),
           \A f \in Files : HandedBack(p, f)' /\ ~HandedBack(p, f) =>
             \A e \in Range(lines[f]) : Kept(e)',
           \A e \in Dropping(mem[p]) : Kept(e)',
           \A e \in written' \ written : Kept(e)'
    PROVE  \A e \in written' : Kept(e)'
  <1> SUFFICES ASSUME NEW e \in written
               PROVE  Kept(e)'
    OBVIOUS
  <1>1. Kept(e) /\ \A q \in Processes \ {p} : mem'[q] = mem[q]
    BY DEF LossInv, ShapeStep, Frame
  <1>2. CASE e \in Settled
    BY <1>2 DEF LossFrame, Kept
  <1>3. ASSUME NEW f \in Files, Shows(f, e)
        PROVE  Kept(e)'
    <2>1. ~HandedBack(p, f) /\ e \in Range(lines[f]) /\ \A q \in Processes : ~HandedBack(q, f)
      BY <1>3 DEF Shows, Doomed
    <2>2. e \in Range(lines'[f])
      BY <2>1
    <2>3. CASE HandedBack(p, f)'
      BY <2>1, <2>3
    <2>4. CASE ~HandedBack(p, f)'
      <3>1. \A q \in Processes \ {p} : ~HandedBack(q, f)'
        BY <1>1, <2>1 DEF HandedBack
      <3>2. ~Doomed(f)'
        BY <2>4, <3>1 DEF Doomed
      <3>3. QED
        BY <2>2, <3>2 DEF Kept, Shows
    <2>5. QED
      BY <2>3, <2>4
  <1>4. ASSUME NEW q \in Processes, e \in Dropping(mem[q])
        PROVE  Kept(e)'
    <2>1. CASE q = p
      BY <1>4, <2>1
    <2>2. CASE q # p
      <3>1. PICK m : m = mem[q] /\ mem'[q] = m
        BY <1>1, <2>2
      <3>2. m.op = "drop"
        BY <1>4, <3>1 DEF Dropping
      <3>3. q \in running
        BY <3>1, <3>2 DEF Shape, Phases, Blank
      <3>4. m \in Memories /\ Phase(m) /\ Holds(q, m)
        BY <3>1, <3>3, ActorFacts DEF Fit
      <3>5. m.seized \in Files /\ m.mark \in Nat /\ m.seized # 0
        BY <3>2, <3>4, FieldTypes DEF Phase, Compacting
      <3>6. place[m.seized] = q /\ m.mark <= Len(lines[m.seized])
        BY <3>2, <3>4, <3>5 DEF Holds, Compacting
      <3>7. PICK t \in Seq(Events) : lines'[m.seized] = lines[m.seized] \o t
        BY <2>2, <3>3, <3>5, <3>6 DEF ShapeStep, Frame
      <3>8. Range(First(lines'[m.seized], m.mark)) = Range(First(lines[m.seized], m.mark))
        BY <3>5, <3>6, <3>7, CutOfJoin DEF Shape, OutboxTypes
      <3>9. Dropping(m)' = Dropping(m)
        BY <3>8 DEF Dropping
      <3>10. e \in Dropping(mem[q])'
        BY <1>4, <3>1, <3>9 DEF Dropping
      <3>11. QED
        BY <3>10 DEF Kept
    <2>3. QED
      BY <2>1, <2>2
  <1>5. QED
    BY <1>1, <1>2, <1>3, <1>4 DEF Kept

(***************************************************************************)
(* A step that keeps what the process itself carries.                      *)
(***************************************************************************)
LEMMA LossFromStep ==
    ASSUME Shape, NEW p \in Processes, ShapeStep(p), LossInv, LossFrame(p),
           p \in running' => Carries(mem[p])',
           \A e \in written' : Kept(e)'
    PROVE  LossInv'
  <1>1. ASSUME NEW q \in running'
        PROVE  Carries(mem[q])'
    <2>1. CASE q = p
      BY <1>1, <2>1
    <2>2. CASE q # p
      BY <1>1, <2>2, OthersCarry DEF ShapeStep, Frame
    <2>3. QED
      BY <2>1, <2>2
  <1>2. QED
    BY <1>1 DEF LossInv

(***************************************************************************)
(* A step that adds to no file, and after which the process is not about   *)
(* to delete a file it was not about to delete before.                     *)
(***************************************************************************)
LEMMA QuietLoss ==
    ASSUME Shape, NEW p \in Processes, ShapeStep(p), LossInv,
           UNCHANGED lines, Settled \subseteq Settled', strayed \subseteq strayed', written' = written,
           \A f \in Files : HandedBack(p, f)' => Range(lines[f]) \subseteq Settled' \cup Dropping(mem[p])',
           mem[p].op # "drop", p \in running' => Carries(mem[p])'
    PROVE  LossInv'
  <1>1. LossFrame(p)
    BY DEF LossFrame
  <1>2. ASSUME NEW f \in Files, HandedBack(p, f)', NEW e \in Range(lines[f])
        PROVE  Kept(e)'
    BY <1>2 DEF Kept
  <1>3. \A e \in Dropping(mem[p]) : Kept(e)'
    BY DEF Dropping
  <1>4. \A f \in Files : Range(lines[f]) \subseteq Range(lines'[f])
    OBVIOUS
  <1>5. \A e \in written' : Kept(e)'
    BY <1>1, <1>2, <1>3, <1>4, StaysKept
  <1>6. QED
    BY <1>1, <1>5, LossFromStep

(***************************************************************************)
(* A step that changes nothing of what the process carries.                *)
(***************************************************************************)
LEMMA PlainLoss ==
    ASSUME Shape, NEW p \in Processes, ShapeStep(p), LossInv,
           UNCHANGED lines, Settled \subseteq Settled', UNCHANGED strayed, written' = written,
           NEW n, mem'[p] = n, mem[p].op # "drop", n.op \notin {"drop", "remove"},
           n.op \in {"reopen", "restore"} =>
             /\ p \in running /\ mem[p].op \in {"reopen", "restore"}
             /\ n.seized = mem[p].seized /\ n.mark = mem[p].mark /\ n.kept = mem[p].kept,
           \/ n.consumed = {}
           \/ p \in running /\ n.consumed = mem[p].consumed /\ n.unsent = mem[p].unsent,
           \/ n.carried = {}
           \/ /\ p \in running /\ n.carried = mem[p].carried /\ n.batch = mem[p].batch
              /\ mem[p].op \notin {"tails", "remove"} /\ n.op # "tails"
    PROVE  LossInv'
  <1>1. PICK m : m = mem[p]
    OBVIOUS
  <1>2. p \in running => Carries(m)
    BY <1>1 DEF LossInv
  <1>3. n.op \in {"reopen", "restore"} =>
          Range(From(lines'[n.seized], n.mark)) \subseteq Range(n.kept) \cup strayed'
    BY <1>1, <1>2 DEF Carries
  <1>4. \A c \in n.consumed :
          Range(First(lines'[c.file], c.bytes)) \subseteq Range(n.unsent) \cup Settled'
    BY <1>1, <1>2 DEF Carries
  <1>5. /\ n.op = "tails" => \A f \in n.carried : Range(lines'[f]) \subseteq Range(n.unsent) \cup Settled'
        /\ n.op \notin {"tails", "remove"} =>
             \A f \in n.carried : Range(lines'[f]) \subseteq Range(n.batch) \cup Settled'
    BY <1>1, <1>2 DEF Carries
  <1>6. Carries(mem[p])'
    BY <1>3, <1>4, <1>5 DEF Carries
  <1>7. \A f \in Files : ~HandedBack(p, f)'
    BY DEF HandedBack
  <1>8. QED
    BY <1>6, <1>7, QuietLoss

(***************************************************************************)
(* What is settled stays so after a POST.                                  *)
(***************************************************************************)
LEMMA PostSettles ==
    ASSUME Shape, NEW events, NEW outcome, Post(events, outcome)
    PROVE  /\ Settled \subseteq Settled' /\ UNCHANGED <<disk, strayed, written>>
           /\ outcome # "failed" => Range(events) \cap Events \subseteq Settled'
  <1>1. /\ UNCHANGED <<disk, forgone, strayed, written>>
        /\ \A e \in Events : sent'[e] = IF outcome # "failed" /\ e \in Range(events)
                                     THEN sent[e] + 1 ELSE sent[e]
    BY PostFacts DEF Shape
  <1>2. \A e \in Events : sent[e] \in Nat
    BY DEF Shape, OutboxTypes
  <1>3. \A e \in Events : sent[e] > 0 => sent'[e] > 0
    BY <1>1, <1>2
  <1>4. outcome # "failed" => \A e \in Range(events) \cap Events : sent'[e] > 0
    BY <1>1, <1>2
  <1>5. QED
    BY <1>1, <1>3, <1>4 DEF Settled

(***************************************************************************)
(* The steps that change nothing of what a process carries.                *)
(***************************************************************************)
LEMMA PlainSteps ==
    ASSUME Shape, NEW p \in Processes, ShapeStep(p), LossInv,
           \/ Starts(p) \/ ListClaims(p) \/ TakeClaim(p) \/ TakeLive(p) \/ Released(p)
           \/ Record(p) \/ Flush(p) \/ FlushEnds(p) \/ ShutsDown(p)
           \/ Stat(p) \/ Open(p) \/ Seize(p) \/ Inspect(p)
    PROVE  LossInv'
  <1>1. PICK m, n : m = mem[p] /\ n = mem'[p]
    OBVIOUS
  <1>2. p \in running => m \in Memories /\ Phase(m)
    BY <1>1, ActorFacts DEF Fit
  <1>3. CASE Starts(p)
    <2>1. /\ m = Blank /\ n.op = "list" /\ n.consumed = {} /\ n.carried = {}
          /\ UNCHANGED <<disk, strayed, written, forgone, sent>>
      BY <1>1, <1>3, StartsEffect
    <2>2. m.op # "drop"
      BY <2>1 DEF Blank
    <2>3. UNCHANGED lines /\ Settled' = Settled
      BY <2>1 DEF disk, Settled
    <2>4. QED
      BY <1>1, <2>1, <2>2, <2>3, PlainLoss
  <1>4. CASE ListClaims(p) \/ TakeClaim(p) \/ TakeLive(p) \/ Released(p)
    <2>1. /\ p \in running /\ UNCHANGED <<lines, ghosts>> /\ Alike(m, n)
          /\ m.op \in {"list", "take", "remove"} /\ n.op \in {"take", "read", "none"}
          /\ m.op = "remove" => m.carried = {}
      BY <1>1, <1>4, ListClaimsEffect, TakeClaimEffect, TakeLiveEffect, ReleasedEffect
    <2>2. m.carried = {} /\ UNCHANGED <<strayed, written>> /\ Settled' = Settled
      BY <1>2, <2>1 DEF Phase, ghosts, Settled
    <2>3. n.consumed = m.consumed /\ n.unsent = m.unsent /\ n.carried = {}
      BY <2>1, <2>2 DEF Alike
    <2>4. QED
      BY <1>1, <2>1, <2>2, <2>3, PlainLoss
  <1>5. CASE Record(p) \/ Flush(p) \/ ShutsDown(p)
    <2>1. /\ p \in running /\ UNCHANGED <<lines, strayed, written, forgone, sent>> /\ SameDrain(m, n)
          /\ m.op = "none" /\ n.op \in {"none", "stat"}
      BY <1>1, <1>5, RecordEffect, FlushEffect, ShutsDownEffect DEF Begins, disk, ghosts
    <2>2. m.carried = {} /\ Settled' = Settled
      BY <1>2, <2>1 DEF Phase, Settled
    <2>3. n.consumed = m.consumed /\ n.unsent = m.unsent /\ n.carried = {}
      BY <2>1, <2>2 DEF SameDrain
    <2>4. QED
      BY <1>1, <2>1, <2>2, <2>3, PlainLoss
  <1>6. CASE FlushEnds(p)
    <2>1. /\ p \in running /\ SameDrain(m, n) /\ m.op = "none" /\ n.op \in {"none", "stat"}
      BY <1>1, <1>6, FlushEndsEffect DEF Begins, Answers
    <2>2. PICK b, outcome : Post(b, outcome)
      BY <1>1, <1>6, FlushEndsEffect
    <2>3. Settled \subseteq Settled' /\ UNCHANGED <<lines, strayed, written>>
      BY <2>2, PostSettles DEF disk
    <2>4. n.consumed = m.consumed /\ n.unsent = m.unsent /\ n.carried = {}
      BY <1>2, <2>1 DEF Phase, SameDrain
    <2>5. QED
      BY <1>1, <2>1, <2>3, <2>4, PlainLoss
  <1>7. CASE Stat(p) \/ Open(p) \/ Seize(p) \/ Inspect(p)
    <2>1. /\ p \in running /\ UNCHANGED <<lines, ghosts>> /\ Alike(m, n)
          /\ m.op \in {"stat", "open", "reopen", "seize", "inspect"}
          /\ n.op \in {"seize", "open", "write", "restore", "inspect", "tail"}
      BY <1>1, <1>7, StatEffect, OpenEffect, SeizeEffect, InspectEffect
    <2>2. n.op = "restore" => /\ m.op = "reopen"
                              /\ n.seized = m.seized /\ n.mark = m.mark /\ n.kept = m.kept
      <3>1. CASE Open(p)
        BY <1>1, <3>1, OpenEffect
      <3>2. CASE Stat(p) \/ Seize(p) \/ Inspect(p)
        BY <1>1, <3>2, StatEffect, SeizeEffect, InspectEffect
      <3>3. QED
        BY <1>7, <3>1, <3>2
    <2>3. UNCHANGED <<strayed, written>> /\ Settled' = Settled
      BY <2>1 DEF ghosts, Settled
    <2>4. /\ n.consumed = m.consumed /\ n.unsent = m.unsent
          /\ n.carried = m.carried /\ n.batch = m.batch
      BY <2>1 DEF Alike
    <2>5. QED
      BY <1>1, <2>1, <2>2, <2>3, <2>4, PlainLoss
  <1>8. QED
    BY <1>3, <1>4, <1>5, <1>6, <1>7

(***************************************************************************)
(* What a drain reads stays in its memory, until it is counted or sent.    *)
(***************************************************************************)
LEMMA ReadClaimLoss ==
    ASSUME Shape, NEW p \in Processes, ShapeStep(p), LossInv, ReadClaim(p)
    PROVE  LossInv'
  <1>1. PICK m, n : m = mem[p] /\ n = mem'[p]
    OBVIOUS
  <1>2. PICK f : f = Head(m.claimed)
    OBVIOUS
  <1>3. /\ p \in running /\ UNCHANGED <<disk, ghosts>> /\ m.op = "read" /\ n.op = "read"
        /\ m.claimed # <<>> /\ n.consumed = m.consumed \cup {[file |-> f, bytes |-> Len(lines[f])]}
        /\ n.unsent = m.unsent \o lines[f] /\ n.carried = m.carried
    BY <1>1, <1>2, ReadClaimEffect, ZenonT(40)
  <1>4. m \in Memories /\ Phase(m) /\ Carries(m)
    BY <1>1, <1>3, ActorFacts DEF Fit, LossInv
  <1>5. m.unsent \in Seq(Events) /\ f \in Files /\ lines[f] \in Seq(Events)
    BY <1>2, <1>3, <1>4, FieldTypes, TailFacts DEF Shape, OutboxTypes
  <1>6. Range(n.unsent) = Range(m.unsent) \cup Range(lines[f]) /\ First(lines[f], Len(lines[f])) = lines[f]
    BY <1>3, <1>5, JoinFacts, WholeFacts
  <1>7. UNCHANGED <<lines, strayed, written>> /\ Settled' = Settled
    BY <1>3 DEF disk, ghosts, Settled
  <1>8. \A c \in n.consumed : Range(First(lines[c.file], c.bytes)) \subseteq Range(n.unsent) \cup Settled
    <2>1. \A c \in m.consumed : Range(First(lines[c.file], c.bytes)) \subseteq Range(n.unsent) \cup Settled
      BY <1>4, <1>6 DEF Carries
    <2>2. QED
      BY <2>1, <1>3, <1>6
  <1>9. n.carried = {}
    BY <1>3, <1>4 DEF Phase
  <1>10. Carries(mem[p])'
    BY <1>1, <1>3, <1>7, <1>8, <1>9 DEF Carries
  <1>11. \A g \in Files : ~HandedBack(p, g)'
    BY <1>1, <1>3 DEF HandedBack
  <1>12. QED
    BY <1>1, <1>3, <1>7, <1>10, <1>11, QuietLoss

(***************************************************************************)
(* What a drain no longer holds as undelivered is settled.                 *)
(***************************************************************************)
LEMMA LessUnsent ==
    ASSUME Shape, NEW p \in Processes, ShapeStep(p), LossInv,
           NEW m, m = mem[p], NEW n, n = mem'[p], p \in running, m.drain # "releasing",
           n.op \in {"none", "tails"}, n.consumed = m.consumed, n.carried = m.carried,
           m.op # "drop",
           UNCHANGED <<lines, strayed, written>>, Settled \subseteq Settled',
           Range(m.unsent) \subseteq Range(n.unsent) \cup Settled'
    PROVE  LossInv'
  <1>1. Phase(m) /\ Carries(m)
    BY ActorFacts DEF Fit, LossInv
  <1>2. n.carried = {}
    BY <1>1 DEF Phase
  <1>3. \A c \in n.consumed : Range(First(lines[c.file], c.bytes)) \subseteq Range(n.unsent) \cup Settled'
    BY <1>1 DEF Carries
  <1>4. Carries(mem[p])'
    BY <1>2, <1>3 DEF Carries
  <1>5. \A g \in Files : ~HandedBack(p, g)'
    BY DEF HandedBack
  <1>6. QED
    BY <1>4, <1>5, QuietLoss

(***************************************************************************)
(* What is beyond the bound of a drain is forgone.                         *)
(***************************************************************************)
LEMMA BoundLoss ==
    ASSUME Shape, NEW p \in Processes, ShapeStep(p), LossInv, Bound(p)
    PROVE  LossInv'
  <1>1. PICK m, n : m = mem[p] /\ n = mem'[p]
    OBVIOUS
  <1>2. /\ p \in running /\ UNCHANGED <<disk, written, sent, strayed>>
        /\ m.op = "read" /\ n.op \in {"none", "tails"}
        /\ n.consumed = m.consumed /\ n.carried = m.carried
        /\ forgone' = forgone \cup (Range(m.unsent) \ Range(n.unsent))
    BY <1>1, BoundEffect
  <1>3. UNCHANGED lines /\ Settled \subseteq Settled' /\ forgone' \subseteq Settled'
    BY <1>2 DEF disk, Settled
  <1>4. m.drain # "releasing"
    BY <1>1, <1>2, ActorFacts DEF Fit, Phase
  <1>5. Range(m.unsent) \subseteq Range(n.unsent) \cup Settled'
    BY <1>2, <1>3
  <1>6. QED
    BY <1>1, <1>2, <1>3, <1>4, <1>5, LessUnsent

(***************************************************************************)
(* What is answered was sent; the rest stays with the drain.               *)
(***************************************************************************)
LEMMA DrainSendsLoss ==
    ASSUME Shape, NEW p \in Processes, ShapeStep(p), LossInv, DrainSends(p)
    PROVE  LossInv'
  <1>1. PICK m, n : m = mem[p] /\ n = mem'[p]
    OBVIOUS
  <1>2. /\ p \in running /\ m.op = "none" /\ n.op \in {"none", "tails"}
        /\ n.consumed = m.consumed /\ n.carried = m.carried
    BY <1>1, DrainSendsEffect
  <1>3. PICK outcome :
          /\ Post(First(m.unsent, BatchSize), outcome)
          /\ outcome \in {"answered", "unanswered", "failed"}
          /\ n.unsent = IF outcome = "answered" THEN From(m.unsent, BatchSize) ELSE m.unsent
    BY <1>1, DrainSendsEffect
  <1>4. m \in Memories /\ Phase(m)
    BY <1>1, <1>2, ActorFacts DEF Fit
  <1>5. m.unsent \in Seq(Events) /\ BatchSize \in Nat
    BY <1>4, FieldTypes, OutboxAssumption
  <1>6. /\ \A e : e \in Range(m.unsent) <=> \/ e \in Range(First(m.unsent, BatchSize))
                                             \/ e \in Range(From(m.unsent, BatchSize))
        /\ Range(First(m.unsent, BatchSize)) \subseteq Events
    BY <1>5, CutEvents
  <1>7. /\ Settled \subseteq Settled' /\ UNCHANGED <<lines, strayed, written>>
        /\ outcome # "failed" => Range(First(m.unsent, BatchSize)) \cap Events \subseteq Settled'
    BY <1>3, PostSettles DEF disk
  <1>8. Range(m.unsent) \subseteq Range(n.unsent) \cup Settled'
    BY <1>3, <1>6, <1>7
  <1>9. m.drain # "releasing"
    BY <1>2, <1>4 DEF Phase
  <1>10. QED
    BY <1>1, <1>2, <1>7, <1>8, <1>9, LessUnsent

(***************************************************************************)
(* What the tail of a claim holds joins what was not delivered.            *)
(***************************************************************************)
LEMMA CarryTailLoss ==
    ASSUME Shape, NEW p \in Processes, ShapeStep(p), LossInv, CarryTail(p)
    PROVE  LossInv'
  <1>1. PICK m, n : m = mem[p] /\ n = mem'[p]
    OBVIOUS
  <1>2. p \in running /\ UNCHANGED <<disk, ghosts>> /\ m.op = "tails" /\ n.op = "tails"
    BY <1>1, CarryTailEffect
  <1>3. PICK c \in m.consumed : TakesOver(m, n, c)
    BY <1>1, CarryTailEffect
  <1>4. m \in Memories /\ Carries(m)
    BY <1>1, <1>2, ActorFacts DEF Fit, LossInv
  <1>5. m.unsent \in Seq(Events) /\ c.file \in Files /\ c.bytes \in Nat /\ lines[c.file] \in Seq(Events)
    BY <1>3, <1>4, FieldTypes DEF Shape, OutboxTypes
  <1>6. /\ From(lines[c.file], c.bytes) \in Seq(Events)
        /\ \A e : e \in Range(lines[c.file]) <=> \/ e \in Range(First(lines[c.file], c.bytes))
                                                 \/ e \in Range(From(lines[c.file], c.bytes))
    BY <1>5, CutEvents
  <1>7. Range(n.unsent) = Range(m.unsent) \cup Range(From(lines[c.file], c.bytes))
    BY <1>3, <1>5, <1>6, JoinFacts DEF TakesOver
  <1>8. UNCHANGED <<lines, strayed, written>> /\ Settled' = Settled
    BY <1>2 DEF disk, ghosts, Settled
  <1>9. \A d \in n.consumed : Range(First(lines[d.file], d.bytes)) \subseteq Range(n.unsent) \cup Settled
    BY <1>3, <1>4, <1>7 DEF Carries, TakesOver
  <1>10. \A f \in n.carried : Range(lines[f]) \subseteq Range(n.unsent) \cup Settled
    <2>1. Range(lines[c.file]) \subseteq Range(n.unsent) \cup Settled
      BY <1>3, <1>4, <1>6, <1>7 DEF Carries
    <2>2. \A f \in m.carried : Range(lines[f]) \subseteq Range(n.unsent) \cup Settled
      BY <1>2, <1>4, <1>7 DEF Carries
    <2>3. QED
      BY <2>1, <2>2, <1>3 DEF TakesOver
  <1>11. Carries(mem[p])'
    BY <1>1, <1>2, <1>8, <1>9, <1>10 DEF Carries
  <1>12. \A g \in Files : ~HandedBack(p, g)'
    BY <1>1, <1>2 DEF HandedBack
  <1>13. QED
    BY <1>1, <1>2, <1>8, <1>11, <1>12, QuietLoss

(***************************************************************************)
(* What a drain hands back is carried by the append that begins.           *)
(***************************************************************************)
LEMMA HandBackLoss ==
    ASSUME Shape, NEW p \in Processes, ShapeStep(p), LossInv, HandBack(p)
    PROVE  LossInv'
  <1>1. PICK m, n : m = mem[p] /\ n = mem'[p]
    OBVIOUS
  <1>2. /\ p \in running /\ UNCHANGED <<disk, ghosts>> /\ m.op = "tails"
        /\ n.op = (IF m.unsent = <<>> THEN "remove" ELSE "stat")
        /\ n.consumed = {} /\ n.carried = m.carried /\ n.batch = m.unsent
    BY <1>1, HandBackEffect
  <1>3. m \in Memories /\ Carries(m)
    BY <1>1, <1>2, ActorFacts DEF Fit, LossInv
  <1>4. m.unsent \in Seq(Events) /\ (m.unsent = <<>> => Range(m.unsent) = {})
    BY <1>3, FieldTypes, SeqFacts
  <1>5. UNCHANGED <<lines, strayed, written>> /\ Settled' = Settled
    BY <1>2 DEF disk, ghosts, Settled
  <1>6. \A f \in m.carried : Range(lines[f]) \subseteq Range(m.unsent) \cup Settled
    BY <1>2, <1>3 DEF Carries
  <1>7. Carries(mem[p])'
    BY <1>1, <1>2, <1>5, <1>6 DEF Carries
  <1>8. \A f \in Files : HandedBack(p, f)' => Range(lines[f]) \subseteq Settled'
    <2> SUFFICES ASSUME NEW f \in Files, HandedBack(p, f)'
                 PROVE  Range(lines[f]) \subseteq Settled'
      OBVIOUS
    <2>1. n.op = "remove" /\ f \in m.carried
      BY <1>1, <1>2 DEF HandedBack
    <2>2. QED
      BY <2>1, <1>2, <1>4, <1>5, <1>6
  <1>9. QED
    BY <1>1, <1>2, <1>5, <1>7, <1>8, QuietLoss

(***************************************************************************)
(* A write that fails is counted.                                          *)
(***************************************************************************)
LEMMA WriteFailsLoss ==
    ASSUME Shape, NEW p \in Processes, ShapeStep(p), LossInv, WriteFails(p)
    PROVE  LossInv'
  <1>1. PICK m, n : m = mem[p] /\ n = mem'[p]
    OBVIOUS
  <1>2. /\ p \in running /\ Alike(m, n) /\ UNCHANGED <<disk, written, sent, strayed>>
        /\ \/ m.op = "write" /\ n.op = Releasing(m) /\ forgone' = forgone \cup Range(m.batch)
           \/ m.op = "restore" /\ n.op \in {"open", "write"} /\ forgone' = forgone
    BY <1>1, WriteFailsEffect
  <1>3. /\ n.batch = m.batch /\ n.consumed = m.consumed /\ n.carried = m.carried
        /\ n.unsent = m.unsent
    BY <1>2 DEF Alike
  <1>4. UNCHANGED lines /\ Settled \subseteq Settled' /\ forgone' \subseteq Settled'
    BY <1>2 DEF disk, Settled
  <1>5. CASE m.op = "restore"
    BY <1>1, <1>2, <1>3, <1>4, <1>5, PlainLoss
  <1>6. CASE m.op = "write"
    <2>1. n.op = Releasing(m) /\ forgone' = forgone \cup Range(m.batch)
      BY <1>2, <1>6
    <2>2. Phase(m) /\ Carries(m)
      BY <1>1, <1>2, ActorFacts DEF Fit, LossInv
    <2>3. /\ \A f \in m.carried : Range(lines[f]) \subseteq Range(m.batch) \cup Settled
          /\ \A c \in m.consumed : Range(First(lines[c.file], c.bytes)) \subseteq Range(m.unsent) \cup Settled
      BY <2>2, <1>6 DEF Carries
    <2>4. n.op \in {"none", "remove"} /\ (n.op = "none" => m.carried = {})
      BY <2>1, <2>2 DEF Releasing, Phase
    <2>5. Carries(mem[p])'
      BY <1>1, <1>3, <1>4, <2>3, <2>4 DEF Carries
    <2>6. \A f \in Files : HandedBack(p, f)' => Range(lines[f]) \subseteq Settled'
      BY <1>1, <1>3, <1>4, <2>1, <2>3, <2>4 DEF HandedBack
    <2>7. QED
      BY <1>1, <1>2, <1>4, <1>6, <2>5, <2>6, QuietLoss
  <1>7. QED
    BY <1>2, <1>5, <1>6

(***************************************************************************)
(* A compaction keeps what was written to its claim before the last        *)
(* reading, and counts what it drops.                                      *)
(***************************************************************************)
LEMMA ReadTailLoss ==
    ASSUME Shape, NEW p \in Processes, ShapeStep(p), LossInv, ReadTail(p)
    PROVE  LossInv'
  <1>1. PICK m, n : m = mem[p] /\ n = mem'[p]
    OBVIOUS
  <1>2. /\ p \in running /\ UNCHANGED <<lines, ghosts>> /\ Alike(m, n)
        /\ m.op = "tail" /\ n.op \in {"drop", "reopen", "restore"}
        /\ n.seized = m.seized /\ n.mark = m.mark
        /\ n.kept = m.kept \o From(lines[m.seized], m.mark) /\ (n.op = "drop" => n.kept = <<>>)
    BY <1>1, ReadTailEffect
  <1>3. m \in Memories /\ Phase(m) /\ Carries(m)
    BY <1>1, <1>2, ActorFacts DEF Fit, LossInv
  <1>4. m.seized \in Files /\ m.mark \in Nat /\ m.kept \in Seq(Events) /\ lines[m.seized] \in Seq(Events)
    BY <1>2, <1>3, FieldTypes DEF Phase, Compacting, Shape, OutboxTypes
  <1>5. /\ From(lines[m.seized], m.mark) \in Seq(Events)
        /\ \A e : e \in Range(lines[m.seized]) <=> \/ e \in Range(First(lines[m.seized], m.mark))
                                                   \/ e \in Range(From(lines[m.seized], m.mark))
    BY <1>4, CutEvents
  <1>6. n.kept \in Seq(Events) /\ Range(n.kept) = Range(m.kept) \cup Range(From(lines[m.seized], m.mark))
    BY <1>2, <1>4, <1>5, JoinFacts
  <1>7. UNCHANGED <<strayed, written>> /\ Settled' = Settled
    BY <1>2 DEF ghosts, Settled
  <1>8. /\ n.batch = m.batch /\ n.consumed = m.consumed /\ n.carried = m.carried
        /\ n.unsent = m.unsent
    BY <1>2 DEF Alike
  <1>9. /\ \A f \in m.carried : Range(lines[f]) \subseteq Range(m.batch) \cup Settled
        /\ \A c \in m.consumed : Range(First(lines[c.file], c.bytes)) \subseteq Range(m.unsent) \cup Settled
    BY <1>2, <1>3 DEF Carries
  <1>10. Range(From(lines[n.seized], n.mark)) \subseteq Range(n.kept)
    BY <1>2, <1>6
  <1>11. Carries(mem[p])'
    BY <1>1, <1>2, <1>7, <1>8, <1>9, <1>10 DEF Carries
  <1>12. \A f \in Files : HandedBack(p, f)' => Range(lines[f]) \subseteq Settled' \cup Dropping(mem[p])'
    <2> SUFFICES ASSUME NEW f \in Files, HandedBack(p, f)'
                 PROVE  Range(lines[f]) \subseteq Dropping(mem[p])'
      OBVIOUS
    <2>1. n.op = "drop" /\ f = m.seized
      BY <1>1, <1>2 DEF HandedBack
    <2>2. Range(n.kept) = {}
      BY <2>1, <1>2, <1>6, SeqFacts
    <2>3. Range(lines[f]) \subseteq Range(First(lines[m.seized], m.mark))
      BY <2>1, <2>2, <1>5, <1>6
    <2>4. Dropping(mem[p])' = Range(First(lines[m.seized], m.mark)) \ Range(n.kept)
      BY <1>1, <1>2, <2>1 DEF Dropping
    <2>5. QED
      BY <2>2, <2>3, <2>4
  <1>13. QED
    BY <1>1, <1>2, <1>7, <1>11, <1>12, QuietLoss

(***************************************************************************)
(* What an append adds can be read later, or strayed.                      *)
(***************************************************************************)
LEMMA AppendLoss ==
    ASSUME Shape, NEW p \in running, ShapeStep(p), LossInv,
           NEW events \in Seq(Events), NEW next, AppendTo(p, events, next),
           NEW m, m = mem[p], NEW n, n = mem'[p],
           \/ /\ m.op = "write" /\ next = Releasing(m) /\ events = m.batch
           \/ /\ m.op = "restore" /\ next = "drop" /\ events = m.kept
    PROVE  LossInv'
  <1>1. PICK f \in Target(p) : Grows(p, f, events) /\ Counts(p, f, events)
    BY Zenon, AppendToFacts
  <1>2. /\ f \in Files /\ place[f] # p /\ (m.handle = 0 => f \in Outbox)
        /\ \A g \in Files : place'[g] = place[g] \/ (g = f /\ f \in Outbox /\ place'[f] = "live")
        /\ \A g \in Files : lines'[g] = lines[g] \/ (g = f /\ lines'[f] = lines[f] \o events)
        /\ place'[f] # "gone" => lines'[f] = lines[f] \o events
    BY <1>1, GrowsFacts
  <1>3. written' = written \cup Range(events) /\ UNCHANGED <<forgone, sent>>
    BY Zenon, AppendToFacts
  <1>4. Alike(m, n) /\ n.op = next /\ n.seized = m.seized /\ n.mark = m.mark /\ n.kept = m.kept
    BY AppendToEffect
  <1>5. m \in Memories /\ Phase(m) /\ Holds(p, m) /\ Carries(m) /\ p \in Processes
    BY ActorFacts DEF Fit, LossInv
  <1>6. \A g \in Files : lines[g] \in Seq(Events)
    BY DEF Shape, OutboxTypes
  <1>7. Settled \subseteq Settled' /\ strayed \subseteq strayed' /\ strayed' \subseteq Settled'
    BY <1>1, <1>3 DEF Settled, Counts
  <1>8. f \in Outbox => place[f] \in {"live", "gone"} /\ place[f] \notin Processes
    <2>1. f \in Outbox => place[f] \in {"live", "gone"}
      BY OutboxFacts
    <2>2. QED
      BY <2>1, OutboxAssumption
  <1>9. PastTail(f) => Range(events) \subseteq strayed'
    <2> SUFFICES ASSUME PastTail(f)
                 PROVE  Strays(p, f)
      BY <1>1 DEF Counts
    <2>1. place[f] \in running /\ running \subseteq Processes
      BY DEF PastTail, Shape, OutboxTypes
    <2>2. m.handle # 0
      BY <1>2, <1>8, <2>1
    <2>3. QED
      BY <2>2 DEF Strays
  <1>10. LossFrame(p)
    <2>1. \A g \in Files : place[g] \in running \ {p} =>
            \/ lines'[g] = lines[g]
            \/ \E t \in Seq(Events) :
                 lines'[g] = lines[g] \o t /\ (PastTail(g) => Range(t) \subseteq strayed')
      BY <1>2, <1>9
    <2>2. QED
      BY <1>7, <2>1 DEF LossFrame
  <1>11. ASSUME NEW e \in Range(events)
         PROVE  Kept(e)'
    <2>1. CASE Strays(p, f)
      BY <1>1, <1>7, <1>11, <2>1 DEF Kept, Counts
    <2>2. CASE ~Strays(p, f)
      <3>1. place'[f] # "gone"
        <4>1. CASE m.handle # 0
          <5>1. place[f] # "gone"
            BY <4>1, <2>2 DEF Strays
          <5>2. place' = place
            BY <1>1, <4>1 DEF Grows
          <5>3. QED
            BY <5>1, <5>2
        <4>2. CASE m.handle = 0
          <5>1. place' = [place EXCEPT ![f] = "live"]
            BY <1>1, <4>2 DEF Grows
          <5>2. place'[f] = "live"
            BY <5>1, <1>2 DEF Shape, OutboxTypes
          <5>3. QED
            BY <5>2
        <4>3. QED
          BY <4>1, <4>2
      <3>2. e \in Range(lines'[f])
        BY <3>1, <1>2, <1>6, <1>11, JoinEvents
      <3>3. ~PastTail(f)
        <4> SUFFICES ASSUME PastTail(f)
                     PROVE  FALSE
          OBVIOUS
        <4>1. place[f] \in running /\ running \subseteq Processes
          BY DEF PastTail, Shape, OutboxTypes
        <4>2. m.handle # 0
          BY <1>2, <1>8, <4>1
        <4>3. QED
          BY <4>2, <2>2 DEF Strays
      <3>4. ASSUME NEW q \in Processes, HandedBack(q, f)'
            PROVE  FALSE
        <4>1. CASE q = p
          <5>1. \/ n.op = "drop" /\ f = n.seized
                \/ n.op = "remove" /\ f \in n.carried
            BY <3>4, <4>1 DEF HandedBack
          <5>2. CASE n.op = "drop" /\ f = n.seized
            <6>1. m.op = "restore" /\ m.seized # 0 /\ f = m.seized
              BY <5>2, <1>2, <1>4, OutboxAssumption DEF Releasing
            <6>2. QED
              BY <6>1, <1>2, <1>5 DEF Holds
          <5>3. CASE n.op = "remove" /\ f \in n.carried
            BY <5>3, <1>2, <1>4, <1>5 DEF Alike, Holds, Claims
          <5>4. QED
            BY <5>1, <5>2, <5>3
        <4>2. CASE q # p
          <5>1. HandedBack(q, f)
            BY <3>4, <4>2 DEF ShapeStep, Frame, HandedBack
          <5>2. QED
            BY <5>1, <1>2, <3>3, DoomedFacts
        <4>3. QED
          BY <4>1, <4>2
      <3>5. ~Doomed(f)'
        BY <3>4 DEF Doomed
      <3>6. QED
        BY <1>2, <3>2, <3>5 DEF Kept, Shows
    <2>3. QED
      BY <2>1, <2>2
  <1>12. \A g \in Files : Range(lines[g]) \subseteq Range(lines'[g])
    BY <1>2, <1>6, JoinEvents
  <1>13. ASSUME NEW g \in Files, HandedBack(p, g)', NEW e \in Range(lines[g])
         PROVE  Kept(e)'
    <2>1. \/ next = "drop" /\ g = n.seized
          \/ next = "remove" /\ g \in n.carried
      BY <1>4, <1>13 DEF HandedBack
    <2>2. CASE next = "remove" /\ g \in n.carried
      <3>1. m.op = "write" /\ events = m.batch /\ g \in m.carried
        BY <2>2, <1>4 DEF Alike
      <3>2. e \in Range(events) \/ e \in Settled
        BY <3>1, <1>5, <1>13 DEF Carries
      <3>3. QED
        BY <3>2, <1>7, <1>11 DEF Kept
    <2>3. CASE next = "drop" /\ g = n.seized
      <3>1. m.op = "restore" /\ events = m.kept /\ g = m.seized /\ n.op = "drop"
        BY <2>3, <1>4 DEF Releasing
      <3>2. place[g] = p /\ m.mark \in Nat /\ g # f
        BY <3>1, <1>2, <1>5, FieldTypes, OutboxAssumption DEF Holds
      <3>3. lines'[g] = lines[g]
        BY <3>2, <1>2
      <3>4. e \in Range(First(lines[g], m.mark)) \/ e \in Range(From(lines[g], m.mark))
        BY <3>2, <1>6, <1>13, CutEvents
      <3>5. CASE e \in Range(m.kept)
        BY <3>1, <3>5, <1>11
      <3>6. CASE e \in Range(From(lines[g], m.mark)) /\ e \notin Range(m.kept)
        <4>1. e \in strayed
          BY <3>1, <3>6, <1>5 DEF Carries
        <4>2. QED
          BY <4>1, <1>7 DEF Kept
      <3>7. CASE e \in Range(First(lines[g], m.mark)) /\ e \notin Range(m.kept)
        <4>1. e \in Range(First(lines'[n.seized], n.mark)) \ Range(n.kept)
          BY <3>1, <3>3, <3>7, <1>4
        <4>2. e \in Dropping(mem[p])'
          BY <3>1, <4>1 DEF Dropping
        <4>3. QED
          BY <4>2, <1>5 DEF Kept
      <3>8. QED
        BY <3>4, <3>5, <3>6, <3>7
    <2>4. QED
      BY <2>1, <2>2, <2>3
  <1>14. \A e \in Dropping(mem[p]) : Kept(e)'
    BY DEF Dropping
  <1>15. \A e \in written' : Kept(e)'
    <2>1. \A e \in written' \ written : Kept(e)'
      BY <1>3, <1>11
    <2>2. \A g \in Files : HandedBack(p, g)' /\ ~HandedBack(p, g) => \A e \in Range(lines[g]) : Kept(e)'
      BY <1>13
    <2>3. QED
      BY <1>5, <1>10, <1>12, <1>14, <2>1, <2>2, StaysKept
  <1>16. Carries(mem[p])'
    <2>1. /\ n.consumed = m.consumed /\ n.carried = m.carried /\ n.unsent = m.unsent
          /\ n.batch = m.batch
      BY <1>4 DEF Alike
    <2>2. \A g \in Files : place[g] = p => lines'[g] = lines[g]
      BY <1>2
    <2>3. \A c \in m.consumed : c.file \in Files /\ place[c.file] = p
      BY <1>5, FieldTypes DEF Holds, Claims
    <2>4. \A g \in m.carried : g \in Files /\ place[g] = p
      BY <1>5, FieldTypes DEF Holds, Claims
    <2>5. \A c \in n.consumed : Range(First(lines'[c.file], c.bytes)) \subseteq Range(n.unsent) \cup Settled'
      BY <2>1, <2>2, <2>3, <1>5, <1>7 DEF Carries
    <2>6. \A g \in m.carried : Range(lines'[g]) \subseteq Range(m.batch) \cup Settled'
      BY <2>2, <2>4, <1>5, <1>7 DEF Carries
    <2>7. n.op \in {"none", "remove", "drop"}
      BY <1>4 DEF Releasing
    <2>8. QED
      BY <2>1, <2>5, <2>6, <2>7 DEF Carries
  <1>17. QED
    BY <1>5, <1>10, <1>15, <1>16, LossFromStep

(***************************************************************************)
(* A compaction deletes what it has counted or written back.               *)
(***************************************************************************)
LEMMA DropLoss ==
    ASSUME Shape, NEW p \in Processes, ShapeStep(p), LossInv, Drop(p)
    PROVE  LossInv'
  <1>1. PICK m, n : m = mem[p] /\ n = mem'[p]
    OBVIOUS
  <1>2. /\ p \in running /\ Alike(m, n) /\ m.op = "drop" /\ n.op \in {"open", "write"}
        /\ UNCHANGED <<written, sent, strayed>> /\ lines' = [lines EXCEPT ![m.seized] = <<>>]
        /\ forgone' = forgone \cup (Range(First(lines[m.seized], m.mark)) \ Range(m.kept))
    BY <1>1, DropEffect
  <1>3. m \in Memories /\ Phase(m) /\ Holds(p, m) /\ Carries(m)
    BY <1>1, <1>2, ActorFacts DEF Fit, LossInv
  <1>4. m.seized \in Files /\ place[m.seized] = p /\ m.seized \notin Claims(m)
    BY <1>2, <1>3, FieldTypes DEF Phase, Compacting, Holds
  <1>5. \A g \in Files \ {m.seized} : lines'[g] = lines[g]
    BY <1>2 DEF Shape, OutboxTypes
  <1>6. Settled \subseteq Settled' /\ forgone' \subseteq Settled'
    BY <1>2 DEF Settled
  <1>7. LossFrame(p)
    <2>1. \A g \in Files : place[g] \in running \ {p} => lines'[g] = lines[g]
      BY <1>4, <1>5
    <2>2. QED
      BY <1>2, <1>6, <2>1 DEF LossFrame
  <1>8. \A g \in Files : Range(lines[g]) \subseteq Range(lines'[g]) \/ HandedBack(p, g)
    BY <1>1, <1>2, <1>5 DEF HandedBack
  <1>9. \A g \in Files : ~HandedBack(p, g)'
    BY <1>1, <1>2 DEF HandedBack
  <1>10. \A e \in Dropping(mem[p]) : Kept(e)'
    BY <1>1, <1>2, <1>6 DEF Dropping, Kept
  <1>11. \A e \in written' : Kept(e)'
    BY <1>2, <1>7, <1>8, <1>9, <1>10, StaysKept
  <1>12. Carries(mem[p])'
    <2>1. /\ n.consumed = m.consumed /\ n.carried = m.carried /\ n.unsent = m.unsent
          /\ n.batch = m.batch
      BY <1>2 DEF Alike
    <2>2. \A c \in m.consumed : c.file \in Files \ {m.seized}
      BY <1>3, <1>4, FieldTypes DEF Claims
    <2>3. \A g \in m.carried : g \in Files \ {m.seized}
      BY <1>3, <1>4, FieldTypes DEF Claims
    <2>4. \A c \in n.consumed : Range(First(lines'[c.file], c.bytes)) \subseteq Range(n.unsent) \cup Settled'
      BY <2>1, <2>2, <1>3, <1>5, <1>6 DEF Carries
    <2>5. \A g \in n.carried : Range(lines'[g]) \subseteq Range(n.batch) \cup Settled'
      BY <2>1, <2>3, <1>2, <1>3, <1>5, <1>6 DEF Carries
    <2>6. QED
      BY <1>1, <1>2, <2>4, <2>5 DEF Carries
  <1>13. QED
    BY <1>7, <1>11, <1>12, LossFromStep

(***************************************************************************)
(* What was in a claim that is deleted was handed back or sent.            *)
(***************************************************************************)
LEMMA RemoveClaimLoss ==
    ASSUME Shape, NEW p \in Processes, ShapeStep(p), LossInv, RemoveClaim(p)
    PROVE  LossInv'
  <1>1. PICK m, n : m = mem[p] /\ n = mem'[p]
    OBVIOUS
  <1>2. /\ p \in running /\ UNCHANGED ghosts /\ m.op = "remove" /\ n.op = "remove"
        /\ n.consumed = m.consumed
    BY <1>1, RemoveClaimEffect
  <1>3. PICK f \in m.carried : Deletes(m, n, f)
    BY <1>1, RemoveClaimEffect
  <1>4. m \in Memories /\ Phase(m) /\ Holds(p, m)
    BY <1>1, <1>2, ActorFacts DEF Fit
  <1>5. f \in Files /\ place[f] = p
    BY <1>3, <1>4, FieldTypes DEF Holds, Claims
  <1>6. \A g \in Files \ {f} : lines'[g] = lines[g]
    BY <1>3 DEF Shape, OutboxTypes, Deletes
  <1>7. UNCHANGED <<written, strayed>> /\ Settled' = Settled
    BY <1>2 DEF Settled, ghosts
  <1>8. LossFrame(p)
    <2>1. \A g \in Files : place[g] \in running \ {p} => lines'[g] = lines[g]
      BY <1>5, <1>6
    <2>2. QED
      BY <1>7, <2>1 DEF LossFrame
  <1>9. \A g \in Files : Range(lines[g]) \subseteq Range(lines'[g]) \/ HandedBack(p, g)
    BY <1>1, <1>2, <1>3, <1>6 DEF HandedBack
  <1>10. \A g \in Files : HandedBack(p, g)' => HandedBack(p, g)
    BY <1>1, <1>2, <1>3 DEF HandedBack, Deletes
  <1>11. \A e \in Dropping(mem[p]) : Kept(e)'
    BY <1>1, <1>2 DEF Dropping
  <1>12. \A e \in written' : Kept(e)'
    BY <1>7, <1>8, <1>9, <1>10, <1>11, StaysKept
  <1>13. n.consumed = {}
    BY <1>2, <1>4 DEF Phase
  <1>14. Carries(mem[p])'
    BY <1>1, <1>2, <1>13 DEF Carries
  <1>15. QED
    BY <1>8, <1>12, <1>14, LossFromStep

(***************************************************************************)
(* The claims of a process that ends stay where they are.                  *)
(***************************************************************************)
LEMMA EndsLoss ==
    ASSUME Shape, NEW p \in running, ShapeStep(p), LossInv, Ends(p)
    PROVE  LossInv'
  <1>1. /\ mem'[p] = Blank /\ running' = running \ {p} /\ p \in Processes
        /\ UNCHANGED <<disk, written, forgone, sent, strayed>>
    BY EndsEffect
  <1>2. UNCHANGED lines /\ Settled' = Settled
    BY <1>1 DEF disk, Settled
  <1>3. LossFrame(p)
    BY <1>1, <1>2 DEF LossFrame
  <1>4. \A g \in Files : ~HandedBack(p, g)'
    BY <1>1 DEF HandedBack, Blank
  <1>5. ASSUME NEW e \in Dropping(mem[p])
        PROVE  Kept(e)'
    <2>1. PICK m : m = mem[p]
      OBVIOUS
    <2>2. m \in Memories /\ Phase(m) /\ Holds(p, m)
      BY <2>1, ActorFacts DEF Fit
    <2>3. m.op = "drop" /\ e \in Range(First(lines[m.seized], m.mark))
      BY <1>5, <2>1 DEF Dropping
    <2>4. m.seized \in Files /\ m.mark \in Nat /\ place[m.seized] = p
      BY <2>2, <2>3, FieldTypes DEF Phase, Compacting, Holds
    <2>5. lines[m.seized] \in Seq(Events)
      BY <2>4 DEF Shape, OutboxTypes
    <2>6. e \in Range(lines'[m.seized])
      BY <2>3, <2>4, <2>5, <1>2, CutEvents
    <2>7. ASSUME NEW q \in Processes, HandedBack(q, m.seized)'
          PROVE  FALSE
      <3>1. q # p
        BY <1>4, <2>4, <2>7
      <3>2. HandedBack(q, m.seized)
        BY <2>7, <3>1 DEF ShapeStep, Frame, HandedBack
      <3>3. QED
        BY <2>4, <3>1, <3>2, DoomedFacts
    <2>8. Shows(m.seized, e)'
      BY <2>6, <2>7 DEF Shows, Doomed
    <2>9. QED
      BY <2>4, <2>8 DEF Kept
  <1>6. \A g \in Files : Range(lines[g]) \subseteq Range(lines'[g])
    BY <1>2
  <1>7. \A e \in written' : Kept(e)'
    BY <1>1, <1>3, <1>4, <1>5, <1>6, StaysKept
  <1>8. QED
    BY <1>1, <1>3, <1>7, LossFromStep

(***************************************************************************)
(* Every step keeps LossInv.                                               *)
(***************************************************************************)
LEMMA LossNext ==
    ASSUME Shape, LossInv, NEW p \in Processes,
           \/ Starts(p) \/ ListClaims(p) \/ TakeClaim(p) \/ TakeLive(p) \/ ReadClaim(p) \/ Bound(p)
           \/ DrainSends(p) \/ CarryTail(p) \/ HandBack(p) \/ RemoveClaim(p) \/ Released(p)
           \/ Record(p) \/ Flush(p) \/ FlushEnds(p)
           \/ Stat(p) \/ Open(p) \/ Write(p) \/ Restore(p) \/ WriteFails(p)
           \/ Seize(p) \/ Inspect(p) \/ ReadTail(p) \/ Drop(p)
           \/ ShutsDown(p) \/ Leaves(p) \/ IsKilled(p)
    PROVE  LossInv'
  <1>1. ShapeStep(p)
    BY ShapeNext
  <1>2. CASE \/ Starts(p) \/ ListClaims(p) \/ TakeClaim(p) \/ TakeLive(p) \/ Released(p)
             \/ Record(p) \/ Flush(p) \/ FlushEnds(p) \/ ShutsDown(p)
             \/ Stat(p) \/ Open(p) \/ Seize(p) \/ Inspect(p)
    BY <1>1, <1>2, PlainSteps
  <1>3. CASE ReadClaim(p) \/ Bound(p) \/ DrainSends(p) \/ CarryTail(p) \/ HandBack(p) \/ RemoveClaim(p)
    BY <1>1, <1>3, ReadClaimLoss, BoundLoss, DrainSendsLoss, CarryTailLoss, HandBackLoss,
       RemoveClaimLoss
  <1>4. CASE WriteFails(p) \/ ReadTail(p) \/ Drop(p)
    BY <1>1, <1>4, WriteFailsLoss, ReadTailLoss, DropLoss
  <1>5. CASE Write(p)
    <2>1. PICK m, n : m = mem[p] /\ n = mem'[p]
      OBVIOUS
    <2>2. p \in running /\ m.op = "write" /\ AppendTo(p, m.batch, Releasing(m))
      BY <1>5, <2>1 DEF Write, Doing
    <2>3. m.batch \in Seq(Events)
      BY <2>1, <2>2, ActorFacts, FieldTypes DEF Fit
    <2>4. QED
      BY <1>1, <2>1, <2>2, <2>3, AppendLoss
  <1>6. CASE Restore(p)
    <2>1. PICK m, n : m = mem[p] /\ n = mem'[p]
      OBVIOUS
    <2>2. p \in running /\ m.op = "restore" /\ AppendTo(p, m.kept, "drop")
      BY <1>6, <2>1 DEF Restore, Doing
    <2>3. m.kept \in Seq(Events)
      BY <2>1, <2>2, ActorFacts, FieldTypes DEF Fit
    <2>4. QED
      BY <1>1, <2>1, <2>2, <2>3, AppendLoss
  <1>7. CASE Leaves(p) \/ IsKilled(p)
    <2>1. p \in running /\ Ends(p)
      BY <1>7 DEF Leaves, IsKilled, Idle, Doing
    <2>2. QED
      BY <1>1, <2>1, EndsLoss
  <1>8. QED
    BY <1>2, <1>3, <1>4, <1>5, <1>6, <1>7

(***************************************************************************)
(* What earlier processes left is on disk when the behaviour begins.       *)
(***************************************************************************)
LEMMA InitLoss ==
    ASSUME OutboxInit
    PROVE  LossInv
  <1>1. /\ running = {} /\ mem = [p \in Processes |-> Blank] /\ written = Range(Left)
        /\ lines = [f \in Files |-> IF f = 1 THEN Left ELSE <<>>]
    BY DEF OutboxInit
  <1>2. 1 \in Files /\ lines[1] = Left
    BY <1>1, OutboxAssumption
  <1>3. \A q \in Processes : ~HandedBack(q, 1)
    BY <1>1 DEF HandedBack, Blank
  <1>4. \A e \in written : Kept(e)
    BY <1>1, <1>2, <1>3 DEF Kept, Shows, Doomed
  <1>5. QED
    BY <1>1, <1>4 DEF LossInv

(***************************************************************************)
(* The invariants imply that nothing written is lost.                      *)
(***************************************************************************)
LEMMA LossCounts ==
    ASSUME Shape, LossInv
    PROVE  NothingWrittenIsLost
  <1> SUFFICES ASSUME NEW e \in written \ strayed
               PROVE  Accounted(e)
    BY DEF NothingWrittenIsLost
  <1>1. Kept(e)
    BY DEF LossInv
  <1>2. CASE e \in Settled
    BY <1>2 DEF Settled, Accounted
  <1>3. ASSUME NEW f \in Files, Shows(f, e)
        PROVE  Accounted(e)
    BY <1>3 DEF Shows, Accounted, OnDisk
  <1>4. ASSUME NEW q \in Processes, e \in Dropping(mem[q])
        PROVE  Accounted(e)
    <2>1. PICK m : m = mem[q]
      OBVIOUS
    <2>2. m.op = "drop" /\ e \in Range(First(lines[m.seized], m.mark))
      BY <1>4, <2>1 DEF Dropping
    <2>3. q \in running
      BY <2>1, <2>2 DEF Shape, Phases, Blank
    <2>4. m \in Memories /\ Phase(m)
      BY <2>1, <2>3, ActorFacts DEF Fit
    <2>5. m.seized \in Files /\ m.mark \in Nat
      BY <2>2, <2>4, FieldTypes DEF Phase, Compacting
    <2>6. e \in Range(lines[m.seized])
      BY <2>2, <2>5, CutEvents DEF Shape, OutboxTypes
    <2>7. QED
      BY <2>5, <2>6 DEF Accounted, OnDisk
  <1>5. QED
    BY <1>1, <1>2, <1>3, <1>4 DEF Kept

(***************************************************************************)
(* An event that was once appended is never lost, whoever dies where.      *)
(***************************************************************************)
THEOREM NothingIsLost == OutboxSpec => []NothingWrittenIsLost
  <1>1. OutboxInit => Shape /\ LossInv
    BY InitFacts, InitLoss
  <1>2. Shape /\ LossInv /\ [OutboxNext]_outboxVars => LossInv'
    <2> SUFFICES ASSUME Shape, LossInv, [OutboxNext]_outboxVars
                 PROVE  LossInv'
      OBVIOUS
    <2>1. CASE OutboxNext
      BY <2>1, LossNext DEF OutboxNext
    <2>2. CASE UNCHANGED outboxVars
      <3>1. UNCHANGED <<running, mem, lines, written, forgone, sent, strayed>>
        BY <2>2 DEF outboxVars, disk, ghosts
      <3>2. QED
        BY <3>1 DEF LossInv, Carries, Kept, Shows, Doomed, HandedBack, Dropping, Settled
    <2>3. QED
      BY <2>1, <2>2
  <1>3. Shape /\ LossInv => NothingWrittenIsLost
    BY LossCounts
  <1>4. QED
    BY <1>1, <1>2, <1>3, OutboxShape, PTL DEF OutboxSpec

(***************************************************************************)
(* A sequence without an event has it once at most.                        *)
(***************************************************************************)
LEMMA SingleAbsent ==
    ASSUME NEW s \in Seq(Events), NEW e, e \notin Range(s)
    PROVE  Single(s, e)
  BY DEF Single, Range

(***************************************************************************)
(* A part of a sequence has an event once if the sequence has.             *)
(***************************************************************************)
LEMMA SingleBetween ==
    ASSUME NEW s \in Seq(Events), NEW e, Single(s, e),
           NEW a \in Nat \ {0}, NEW b \in Nat, b <= Len(s)
    PROVE  Single(SubSeq(s, a, b), e)
  <1> DEFINE t == SubSeq(s, a, b)
  <1>1. /\ Len(s) \in Nat /\ DOMAIN s = 1 .. Len(s)
        /\ \A i \in 1 .. Len(s) : s[i] \in Events
    BY SeqFacts, LenProperties
  <1>2. /\ t \in Seq(Events)
        /\ Len(t) = IF a <= b THEN b - a + 1 ELSE 0
        /\ \A i \in 1 .. b - a + 1 : t[i] = s[a + i - 1]
    BY <1>1, SubSeqProperties
  <1> HIDE DEF t
  <1>3. DOMAIN t = 1 .. Len(t)
    BY <1>2, LenProperties
  <1>4. ASSUME NEW i \in DOMAIN t
        PROVE  i \in Nat /\ a + i - 1 \in DOMAIN s /\ t[i] = s[a + i - 1]
    <2>1. i \in 1 .. b - a + 1
      BY <1>2, <1>3
    <2>2. i \in Nat /\ a + i - 1 \in 1 .. Len(s)
      BY <2>1, <1>1
    <2>3. QED
      BY <2>1, <2>2, <1>1, <1>2
  <1>5. \A i, j \in DOMAIN t : t[i] = e /\ t[j] = e => i = j
    <2> SUFFICES ASSUME NEW i \in DOMAIN t, NEW j \in DOMAIN t, t[i] = e, t[j] = e
                 PROVE  i = j
      OBVIOUS
    <2>1. /\ i \in Nat /\ a + i - 1 \in DOMAIN s /\ s[a + i - 1] = e
          /\ j \in Nat /\ a + j - 1 \in DOMAIN s /\ s[a + j - 1] = e
      BY <1>4
    <2>2. a + i - 1 = a + j - 1
      BY <2>1 DEF Single
    <2>3. QED
      BY <2>1, <2>2
  <1>6. QED
    BY <1>5 DEF t, Single

(***************************************************************************)
(* So do its newest elements.                                              *)
(***************************************************************************)
LEMMA SingleNewest ==
    ASSUME NEW s \in Seq(Events), NEW e, Single(s, e), NEW n \in Nat
    PROVE  Single(Newest(s, n), e)
  <1>1. Len(s) \in Nat
    BY SeqFacts
  <1>2. CASE Len(s) <= n
    BY <1>2 DEF Newest
  <1>3. CASE ~(Len(s) <= n)
    <2>1. Len(s) - n + 1 \in Nat \ {0} /\ Len(s) <= Len(s)
      BY <1>1, <1>3
    <2>2. Single(SubSeq(s, Len(s) - n + 1, Len(s)), e)
      BY <1>1, <2>1, SingleBetween
    <2>3. QED
      BY <2>2, <1>3 DEF Newest
  <1>4. QED
    BY <1>2, <1>3

(***************************************************************************)
(* A cut of a sequence has it in one of the halves.                        *)
(***************************************************************************)
LEMMA SingleCut ==
    ASSUME NEW s \in Seq(Events), NEW e, Single(s, e), NEW n \in Nat
    PROVE  /\ Single(First(s, n), e) /\ Single(From(s, n), e)
           /\ ~(e \in Range(First(s, n)) /\ e \in Range(From(s, n)))
  <1>1. Len(s) \in Nat /\ DOMAIN s = 1 .. Len(s)
    BY SeqFacts, LenProperties
  <1>2. Single(First(s, n), e)
    <2>1. CASE n < Len(s)
      <3>1. 1 \in Nat \ {0} /\ n <= Len(s)
        BY <1>1, <2>1
      <3>2. Single(SubSeq(s, 1, n), e)
        BY <3>1, SingleBetween
      <3>3. QED
        BY <3>2, <2>1 DEF First
    <2>2. CASE ~(n < Len(s))
      BY <2>2 DEF First
    <2>3. QED
      BY <2>1, <2>2
  <1>3. Single(From(s, n), e)
    <2>1. n + 1 \in Nat \ {0} /\ Len(s) <= Len(s)
      BY <1>1
    <2>2. Single(SubSeq(s, n + 1, Len(s)), e)
      BY <1>1, <2>1, SingleBetween
    <2>3. QED
      BY <2>2 DEF From
  <1>4. ASSUME e \in Range(First(s, n)), e \in Range(From(s, n))
        PROVE  FALSE
    <2>1. \A x \in Range(First(s, n)) : x \in UpTo(s, n)
      BY CutFacts
    <2>2. \A x \in Range(From(s, n)) : x \in Beyond(s, n)
      BY CutFacts
    <2>3. PICK i \in 1 .. Len(s) : i <= n /\ s[i] = e
      BY <1>4, <2>1 DEF UpTo
    <2>4. PICK j \in 1 .. Len(s) : j > n /\ s[j] = e
      BY <1>4, <2>2 DEF Beyond
    <2>5. i = j
      BY <1>1, <2>3, <2>4 DEF Single
    <2>6. QED
      BY <2>3, <2>4, <2>5
  <1>5. QED
    BY <1>2, <1>3, <1>4

(***************************************************************************)
(* A joined sequence has it once when only one of the two has it, once.    *)
(***************************************************************************)
LEMMA SingleJoin ==
    ASSUME NEW s \in Seq(Events), NEW t \in Seq(Events), NEW e, Single(s, e), Single(t, e),
           ~(e \in Range(s) /\ e \in Range(t))
    PROVE  Single(s \o t, e)
  <1>1. /\ Len(s) \in Nat /\ DOMAIN s = 1 .. Len(s) /\ Len(t) \in Nat /\ DOMAIN t = 1 .. Len(t)
    BY SeqFacts, LenProperties
  <1> DEFINE u == s \o t
  <1>2. /\ u \in Seq(Events) /\ Len(u) = Len(s) + Len(t)
        /\ \A i \in 1 .. Len(s) + Len(t) : u[i] = IF i <= Len(s) THEN s[i] ELSE t[i - Len(s)]
    BY ConcatProperties
  <1> HIDE DEF u
  <1>3. DOMAIN u = 1 .. Len(s) + Len(t)
    BY <1>2, LenProperties
  <1>4. \A i \in DOMAIN u : i <= Len(s) => i \in DOMAIN s /\ u[i] = s[i]
    BY <1>1, <1>2, <1>3
  <1>5. \A i \in DOMAIN u : ~(i <= Len(s)) => i - Len(s) \in DOMAIN t /\ u[i] = t[i - Len(s)]
    BY <1>1, <1>2, <1>3
  <1>6. /\ \A i \in DOMAIN s : s[i] \in Range(s)
        /\ \A i \in DOMAIN t : t[i] \in Range(t)
    BY DEF Range
  <1>7. ASSUME NEW i \in DOMAIN u, NEW j \in DOMAIN u, u[i] = e, u[j] = e
        PROVE  i = j
    <2>1. i \in Nat /\ j \in Nat
      BY <1>1, <1>3
    <2>2. CASE i <= Len(s) /\ j <= Len(s)
      BY <2>2, <1>4, <1>7 DEF Single
    <2>3. CASE ~(i <= Len(s)) /\ ~(j <= Len(s))
      <3>1. i - Len(s) = j - Len(s)
        BY <2>3, <1>5, <1>7 DEF Single
      <3>2. QED
        BY <3>1, <2>1, <1>1
    <2>4. CASE i <= Len(s) /\ ~(j <= Len(s))
      BY <2>4, <1>4, <1>5, <1>6, <1>7
    <2>5. CASE ~(i <= Len(s)) /\ j <= Len(s)
      BY <2>5, <1>4, <1>5, <1>6, <1>7
    <2>6. QED
      BY <2>2, <2>3, <2>4, <2>5
  <1>8. QED
    BY <1>7 DEF u, Single

(***************************************************************************)
(* A sequence has an event once still when it is appended to, if it was    *)
(* not in it.                                                              *)
(***************************************************************************)
LEMMA SingleOne ==
    ASSUME NEW s \in Seq(Events), NEW x \in Events, NEW e, Single(s, e), x = e => e \notin Range(s)
    PROVE  Single(Append(s, x), e)
  <1> DEFINE u == Append(s, x)
  <1>1. Len(s) \in Nat /\ DOMAIN s = 1 .. Len(s) /\ \A i \in DOMAIN s : s[i] \in Range(s)
    BY SeqFacts, LenProperties DEF Range
  <1>2. /\ u \in Seq(Events) /\ Len(u) = Len(s) + 1 /\ u[Len(s) + 1] = x
        /\ \A i \in 1 .. Len(s) : u[i] = s[i]
    BY AppendProperties
  <1> HIDE DEF u
  <1>3. DOMAIN u = 1 .. Len(s) + 1
    BY <1>2, LenProperties
  <1>4. ASSUME NEW i \in DOMAIN u, NEW j \in DOMAIN u, u[i] = e, u[j] = e
        PROVE  i = j
    <2>1. CASE i \in DOMAIN s /\ j \in DOMAIN s
      BY <2>1, <1>1, <1>2, <1>4 DEF Single
    <2>2. CASE i = Len(s) + 1 /\ j = Len(s) + 1
      BY <2>2
    <2>3. CASE i \in DOMAIN s /\ j = Len(s) + 1
      BY <2>3, <1>1, <1>2, <1>4
    <2>4. CASE i = Len(s) + 1 /\ j \in DOMAIN s
      BY <2>4, <1>1, <1>2, <1>4
    <2>5. QED
      BY <2>1, <2>2, <2>3, <2>4, <1>1, <1>3
  <1>5. QED
    BY <1>4 DEF u, Single


(***************************************************************************)
(* The claims that another process has in memory only grow, after what it  *)
(* has read of them, and hold at least that.                               *)
(***************************************************************************)
LEMMA OthersGrow ==
    ASSUME Shape, NEW p \in Processes, ShapeStep(p), NEW q \in running, q # p
    PROVE  /\ q \in Processes /\ q \in running' /\ mem'[q] = mem[q] /\ mem[q] \in Memories
           /\ \A f \in Claims(mem[q]) : Range(lines[f]) \subseteq Range(lines'[f])
           /\ \A c \in mem[q].consumed :
                Range(First(lines'[c.file], c.bytes)) = Range(First(lines[c.file], c.bytes))
           /\ mem[q].seized # 0 => Range(lines[mem[q].seized]) \subseteq Range(lines'[mem[q].seized])
           /\ mem[q].op = "tail" =>
                Range(First(lines'[mem[q].seized], mem[q].mark))
                  = Range(First(lines[mem[q].seized], mem[q].mark))
  <1>1. /\ q \in Processes /\ mem'[q] = mem[q] /\ q \in running' /\ Fit(q, mem[q])
        /\ \A f \in Files : place[f] = q => \E t \in Seq(Events) : lines'[f] = lines[f] \o t
    BY ActorFacts DEF ShapeStep, Frame
  <1>2. \A f \in Files : lines[f] \in Seq(Events)
    BY DEF Shape, OutboxTypes
  <1>3. \A f \in Files, k \in Nat : place[f] = q /\ k <= Len(lines[f]) =>
          Range(First(lines'[f], k)) = Range(First(lines[f], k))
    <2> SUFFICES ASSUME NEW f \in Files, NEW k \in Nat, place[f] = q, k <= Len(lines[f])
                 PROVE  Range(First(lines'[f], k)) = Range(First(lines[f], k))
      OBVIOUS
    <2>1. PICK s, t \in Seq(Events) : s = lines[f] /\ lines'[f] = s \o t
      BY <1>1, <1>2
    <2>2. Range(First(s \o t, k)) = Range(First(s, k))
      BY <2>1, CutOfJoin
    <2>3. QED
      BY <2>1, <2>2
  <1>4. \A f \in Files : place[f] = q => Range(lines[f]) \subseteq Range(lines'[f])
    <2> SUFFICES ASSUME NEW f \in Files, place[f] = q
                 PROVE  Range(lines[f]) \subseteq Range(lines'[f])
      OBVIOUS
    <2>1. PICK s, t \in Seq(Events) : s = lines[f] /\ lines'[f] = s \o t
      BY <1>1, <1>2
    <2>2. \A e : e \in Range(s \o t) <=> e \in Range(s) \/ e \in Range(t)
      BY JoinEvents
    <2>3. QED
      BY <2>1, <2>2
  <1>5. /\ \A f \in Claims(mem[q]) : f \in Files /\ place[f] = q
        /\ \A c \in mem[q].consumed : /\ c.file \in Files /\ c.bytes \in Nat /\ place[c.file] = q
                                      /\ c.bytes <= Len(lines[c.file])
        /\ mem[q].seized # 0 => mem[q].seized \in Files /\ place[mem[q].seized] = q
        /\ mem[q].op = "tail" => /\ mem[q].seized # 0 /\ mem[q].mark \in Nat
                                 /\ mem[q].mark <= Len(lines[mem[q].seized])
    <2>1. mem[q] \in Memories /\ Phase(mem[q]) /\ Holds(q, mem[q])
      BY <1>1 DEF Fit
    <2>2. /\ Range(mem[q].claimed) \subseteq Files /\ mem[q].carried \subseteq Files
          /\ \A c \in mem[q].consumed : c.file \in Files /\ c.bytes \in Nat
          /\ mem[q].mark \in Nat /\ mem[q].seized \in Files \cup {0}
      BY <2>1, FieldTypes, SeqFacts
    <2>3. \A f \in Claims(mem[q]) : f \in Files /\ place[f] = q
      BY <2>1, <2>2 DEF Holds, Claims
    <2>4. \A c \in mem[q].consumed : c.file \in Claims(mem[q]) /\ c.bytes <= Len(lines[c.file])
      BY <2>1 DEF Holds, Claims
    <2>5. mem[q].seized # 0 => mem[q].seized \in Files /\ place[mem[q].seized] = q
      BY <2>1, <2>2 DEF Holds
    <2>6. mem[q].op = "tail" => mem[q].seized # 0 /\ mem[q].mark <= Len(lines[mem[q].seized])
      BY <2>1 DEF Holds, Phase, Compacting
    <2>7. QED
      BY <2>2, <2>3, <2>4, <2>5, <2>6
  <1>6. mem[q] \in Memories
    BY <1>1 DEF Fit
  <1>7. QED
    BY <1>1, <1>3, <1>4, <1>5, <1>6

(***************************************************************************)
(* What another process has read is still in the files it read.            *)
(***************************************************************************)
LEMMA OthersRead ==
    ASSUME Shape, NEW p \in Processes, ShapeStep(p), NEW q \in running, q # p, Reads(mem[q])
    PROVE  Reads(mem[q])'
  <1>1. PICK m : m = mem[q]
    OBVIOUS
  <1>2. /\ mem'[q] = m
        /\ \A f \in Claims(m) : Range(lines[f]) \subseteq Range(lines'[f])
        /\ \A c \in m.consumed :
             Range(First(lines'[c.file], c.bytes)) = Range(First(lines[c.file], c.bytes))
        /\ m.seized # 0 => Range(lines[m.seized]) \subseteq Range(lines'[m.seized])
        /\ m.op = "tail" =>
             Range(First(lines'[m.seized], m.mark)) = Range(First(lines[m.seized], m.mark))
    BY <1>1, OthersGrow
  <1>3. m.op \in {"reopen", "restore"} => m.seized # 0
    BY <1>1, ActorFacts DEF Fit, Phase, Compacting
  <1>4. m.carried \subseteq Claims(m)
    BY DEF Claims
  <1>5. \A e \in Range(m.unsent) :
          \/ \E c \in m.consumed : e \in Range(First(lines'[c.file], c.bytes))
          \/ \E f \in m.carried : e \in Range(lines'[f])
    BY <1>1, <1>2, <1>4 DEF Reads
  <1>6. /\ m.op = "tail" => Range(m.kept) \subseteq Range(First(lines'[m.seized], m.mark))
        /\ m.op \in {"reopen", "restore"} => Range(m.kept) \subseteq Range(lines'[m.seized])
    BY <1>1, <1>2, <1>3 DEF Reads
  <1>7. QED
    BY <1>2, <1>5, <1>6 DEF Reads

(***************************************************************************)
(* A claim of another process that shows an event sent still does.         *)
(***************************************************************************)
LEMMA OthersSent ==
    ASSUME Shape, NEW p \in Processes, ShapeStep(p), NEW q \in running, q # p,
           NEW f, NEW e, SentFrom(mem[q], f, e)
    PROVE  q \in running' /\ SentFrom(mem[q], f, e)'
  <1>1. PICK m : m = mem[q]
    OBVIOUS
  <1>2. /\ q \in running' /\ mem'[q] = m
        /\ \A c \in m.consumed :
             Range(First(lines'[c.file], c.bytes)) = Range(First(lines[c.file], c.bytes))
    BY <1>1, OthersGrow
  <1>3. QED
    BY <1>1, <1>2 DEF SentFrom

(***************************************************************************)
(* What a process has sent or read is in its claims.                       *)
(***************************************************************************)
LEMMA SentFacts ==
    ASSUME Shape, NEW q \in running, NEW f, NEW e, SentFrom(mem[q], f, e)
    PROVE  f \in Files /\ place[f] = q /\ f \in Claims(mem[q])
  <1>1. f \in Claims(mem[q])
    BY DEF SentFrom, Claims
  <1>2. mem[q] \in Memories /\ Holds(q, mem[q])
    BY ActorFacts DEF Fit
  <1>3. f \in Files
    <2>1. mem[q].carried \subseteq Files /\ \A c \in mem[q].consumed : c.file \in Files
      BY <1>2, FieldTypes
    <2>2. QED
      BY <2>1 DEF SentFrom
  <1>4. QED
    BY <1>1, <1>2, <1>3 DEF Holds

(***************************************************************************)
(* OnceInv after a step, from what the step does to the memory of its      *)
(* process and to each event.                                              *)
(***************************************************************************)
LEMMA OnceFromStep ==
    ASSUME Shape, NEW p \in Processes, ShapeStep(p), OnceInv,
           p \in running' => Reads(mem[p])',
           \A e \in Events \ doubtful' : Once(e)'
    PROVE  OnceInv'
  <1>1. ASSUME NEW q \in running'
        PROVE  Reads(mem[q])'
    <2>1. CASE q = p
      BY <2>1, <1>1
    <2>2. CASE q # p
      <3>1. q \in running
        BY <2>2, <1>1 DEF ShapeStep, Frame
      <3>2. QED
        BY <3>1, <2>2, OthersRead DEF OnceInv
    <2>3. QED
      BY <2>1, <2>2
  <1>2. QED
    BY <1>1 DEF OnceInv

(***************************************************************************)
(* An event stays in order in a step that puts it nowhere it was not.      *)
(***************************************************************************)
LEMMA OnceLess ==
    ASSUME Shape, NEW p \in Processes, ShapeStep(p), NEW e \in Events, Once(e),
           NEW m, m = mem[p], NEW n, n = mem'[p],
           \A f \in Files : Shows(f, e)' => Shows(f, e),
           \A f \in Files : ~Doomed(f)' => Single(lines'[f], e),
           \A f \in Files : e \in Range(lines'[f]) => e \in Range(lines[f]),
           OnceInMemory(n, e), Pending(n, e) => Pending(m, e),
           e \in Range(Batch(n)) =>
             Pending(m, e) \/ (e \in Range(Batch(m)) /\ m.carried \subseteq n.carried),
           sent'[e] = sent[e], recorded \subseteq recorded',
           \A f \in Files : Shows(f, e)' /\ sent[e] = 1 /\ p \in running /\ SentFrom(mem[p], f, e) =>
             p \in running' /\ SentFrom(mem[p], f, e)'
    PROVE  Once(e)'
  <1>1. \A q \in Processes \ {p} : mem'[q] = mem[q]
    BY DEF ShapeStep, Frame
  <1>2. \A q \in Processes : OnceInMemory(mem'[q], e)
    BY <1>1 DEF Once
  <1>3. InMemory(n, e) => InMemory(m, e)
    BY DEF InMemory
  <1>4. \A q \in Processes : InMemory(mem'[q], e) => InMemory(mem[q], e)
    BY <1>1, <1>3
  <1>5. OnceOnDisk(e)'
    BY DEF Once, OnceOnDisk
  <1>6. Apart(e)'
    <2>1. \A q, r \in Processes : InMemory(mem'[q], e) /\ InMemory(mem'[r], e) => q = r
      BY <1>4 DEF Once, Apart
    <2>2. ASSUME NEW f \in Files, NEW q \in Processes, Shows(f, e)'
          PROVE  ~Pending(mem'[q], e) /\ (e \in Range(Batch(mem'[q])) => f \in mem'[q].carried)
      <3>1. ~Pending(mem[q], e) /\ (e \in Range(Batch(mem[q])) => f \in mem[q].carried)
        BY <2>2 DEF Once, Apart
      <3>2. CASE q = p
        BY <3>1, <3>2
      <3>3. CASE q # p
        BY <3>1, <3>3, <1>1
      <3>4. QED
        BY <3>2, <3>3
    <2>3. QED
      BY <2>1, <2>2 DEF Apart
  <1>7. SentOnce(e)'
    <2>1. sent'[e] <= 1
      BY DEF Once, SentOnce
    <2>2. sent[e] = 1 => \A q \in Processes : ~InMemory(mem'[q], e)
      BY <1>4 DEF Once, SentOnce
    <2>3. ASSUME sent[e] = 1, NEW f \in Files, Shows(f, e)'
          PROVE  \E q \in running' : SentFrom(mem[q], f, e)'
      <3>1. PICK q \in running : SentFrom(mem[q], f, e)
        BY <2>3 DEF Once, SentOnce
      <3>2. q \in running' /\ SentFrom(mem[q], f, e)'
        <4>1. CASE q = p
          BY <4>1, <3>1, <2>3
        <4>2. CASE q # p
          BY <4>2, <3>1, OthersSent
        <4>3. QED
          BY <4>1, <4>2
      <3>3. QED
        BY <3>2
    <2>4. QED
      BY <2>1, <2>2, <2>3 DEF SentOnce
  <1>8. NotYet(e)'
    BY <1>4 DEF Once, NotYet
  <1>9. QED
    BY <1>2, <1>5, <1>6, <1>7, <1>8 DEF Once

(***************************************************************************)
(* A file in the claims of a running process, or seized by it, is handed   *)
(* back by that process or not at all.                                     *)
(***************************************************************************)
LEMMA OwnDoomed ==
    ASSUME Shape, NEW p \in running, NEW f \in Files, place[f] = p, Doomed(f)
    PROVE  HandedBack(p, f)
  <1>1. PICK q \in Processes : HandedBack(q, f)
    BY DEF Doomed
  <1>2. place[f] = q
    BY <1>1, DoomedFacts
  <1>3. QED
    BY <1>1, <1>2

(***************************************************************************)
(* The files a process holds.                                              *)
(***************************************************************************)
LEMMA OwnFiles ==
    ASSUME Shape, NEW p \in running
    PROVE  /\ \A f \in Claims(mem[p]) : f \in Files /\ place[f] = p
           /\ \A c \in mem[p].consumed : /\ c.file \in Files /\ c.bytes \in Nat /\ place[c.file] = p
                                         /\ c.bytes <= Len(lines[c.file])
           /\ mem[p].seized # 0 => /\ mem[p].seized \in Files /\ place[mem[p].seized] = p
                                   /\ mem[p].seized \notin Claims(mem[p])
           /\ mem[p].op \in Compacting => mem[p].seized # 0
  <1>1. mem[p] \in Memories /\ Phase(mem[p]) /\ Holds(p, mem[p])
    BY ActorFacts DEF Fit
  <1>2. /\ Range(mem[p].claimed) \subseteq Files /\ mem[p].carried \subseteq Files
        /\ \A c \in mem[p].consumed : c.file \in Files /\ c.bytes \in Nat
        /\ mem[p].seized \in Files \cup {0}
    BY <1>1, FieldTypes, SeqFacts
  <1>3. \A f \in Claims(mem[p]) : f \in Files /\ place[f] = p
    BY <1>1, <1>2 DEF Holds, Claims
  <1>4. \A c \in mem[p].consumed : c.file \in Claims(mem[p]) /\ c.bytes <= Len(lines[c.file])
    BY <1>1 DEF Holds, Claims
  <1>5. mem[p].seized # 0 => /\ mem[p].seized \in Files /\ place[mem[p].seized] = p
                             /\ mem[p].seized \notin Claims(mem[p])
    BY <1>1, <1>2 DEF Holds
  <1>6. mem[p].op \in Compacting => mem[p].seized # 0
    BY <1>1 DEF Phase
  <1>7. QED
    BY <1>2, <1>3, <1>4, <1>5, <1>6

(***************************************************************************)
(* What a process has read is still in the files it read, when it has read *)
(* no more and its claims are as they were.                                *)
(***************************************************************************)
LEMMA ReadsLess ==
    ASSUME Shape, NEW p \in running, Reads(mem[p]), NEW m, m = mem[p], NEW n, n = mem'[p],
           n.consumed = m.consumed, n.carried = m.carried, Range(n.unsent) \subseteq Range(m.unsent),
           \A f \in Claims(m) : lines'[f] = lines[f],
           n.op = "tail" => Range(n.kept) \subseteq Range(First(lines'[n.seized], n.mark)),
           n.op \in {"reopen", "restore"} => Range(n.kept) \subseteq Range(lines'[n.seized])
    PROVE  Reads(mem[p])'
  <1>1. \A c \in m.consumed : lines'[c.file] = lines[c.file]
    BY DEF Claims
  <1>2. \A f \in m.carried : lines'[f] = lines[f]
    BY DEF Claims
  <1>3. \A e \in Range(n.unsent) :
          \/ \E c \in n.consumed : e \in Range(First(lines'[c.file], c.bytes))
          \/ \E f \in n.carried : e \in Range(lines'[f])
    BY <1>1, <1>2 DEF Reads
  <1>4. QED
    BY <1>3 DEF Reads

(***************************************************************************)
(* Steps that move no event: the files are as they were, and in memory an  *)
(* append may have ended.                                                  *)
(***************************************************************************)
LEMMA QuietOnce ==
    ASSUME Shape, NEW p \in Processes, ShapeStep(p), NEW e \in Events, Once(e),
           NEW m, m = mem[p], NEW n, n = mem'[p], p \in running => p \in running',
           UNCHANGED <<lines, sent>>, recorded \subseteq recorded',
           m.op # "drop", m.op = "remove" => m.carried = {},
           Alike(m, n), n.op \in AppendOps => m.op \in AppendOps,
           n.op \in {"tail", "reopen", "restore"} => Single(n.kept, e)
    PROVE  Once(e)'
  <1>1. \A q \in Processes \ {p} : mem'[q] = mem[q]
    BY DEF ShapeStep, Frame
  <1>2. \A f \in Files : ~HandedBack(p, f)
    BY DEF HandedBack
  <1>3. \A f \in Files : Doomed(f) => Doomed(f)'
    BY <1>1, <1>2 DEF Doomed, HandedBack
  <1>4. \A f \in Files : Shows(f, e)' => Shows(f, e)
    BY <1>3 DEF Shows
  <1>5. \A f \in Files : ~Doomed(f)' => Single(lines'[f], e)
    BY <1>3 DEF Once, OnceOnDisk
  <1>6. Batch(n) = Batch(m) \/ Batch(n) = <<>>
    BY DEF Batch, Alike
  <1>7. Range(<<>>) = {} /\ Single(<<>>, e)
    BY EmptySeq, SeqFacts, SingleAbsent
  <1>8. e \in Range(Batch(n)) => e \in Range(Batch(m))
    BY <1>6, <1>7
  <1>9. OnceInMemory(m, e)
    BY DEF Once
  <1>10. Pending(n, e) <=> Pending(m, e)
    BY DEF Pending, InFlight, Alike
  <1>11. Single(Batch(n), e)
    BY <1>6, <1>7, <1>9 DEF OnceInMemory
  <1>12. OnceInMemory(n, e)
    BY <1>8, <1>9, <1>10, <1>11 DEF OnceInMemory, InFlight, Alike
  <1>13. \A f \in Files : SentFrom(mem[p], f, e) => SentFrom(mem[p], f, e)'
    BY DEF SentFrom, Alike
  <1>14. QED
    BY <1>4, <1>5, <1>8, <1>10, <1>12, <1>13, OnceLess DEF Alike

(***************************************************************************)
(* The invariant after such a step.                                        *)
(***************************************************************************)
LEMMA QuietInv ==
    ASSUME Shape, NEW p \in running, ShapeStep(p), OnceInv,
           NEW m, m = mem[p], NEW n, n = mem'[p],
           UNCHANGED <<running, lines, sent, recorded, doubtful>>,
           m.op # "drop", m.op = "remove" => m.carried = {},
           Alike(m, n), n.op \in AppendOps => m.op \in AppendOps,
           n.op = "tail" => Range(n.kept) \subseteq Range(First(lines[n.seized], n.mark)),
           n.op \in {"reopen", "restore"} => Range(n.kept) \subseteq Range(lines[n.seized]),
           n.op \in {"tail", "reopen", "restore"} => \A e \in Events \ doubtful : Single(n.kept, e)
    PROVE  OnceInv'
  <1>1. p \in Processes
    BY ActorFacts
  <1>2. Reads(mem[p])'
    BY ReadsLess DEF OnceInv, Alike
  <1>3. ASSUME NEW e \in Events \ doubtful
        PROVE  Once(e)'
    BY <1>1, <1>3, QuietOnce DEF OnceInv
  <1>4. QED
    BY <1>1, <1>2, <1>3, OnceFromStep

(***************************************************************************)
(* What a compaction keeps of the file it has seized.                      *)
(***************************************************************************)
LEMMA InspectOnce ==
    ASSUME Shape, NEW p \in Processes, ShapeStep(p), OnceInv, Inspect(p)
    PROVE  OnceInv'
  <1>1. PICK m, n : m = mem[p] /\ n = mem'[p]
    OBVIOUS
  <1>2. /\ p \in running /\ UNCHANGED <<running, lines, sent, recorded, doubtful>>
        /\ m.op = "inspect" /\ n.op = "tail" /\ Alike(m, n)
        /\ n.seized = m.seized /\ n.mark = Len(lines[m.seized])
    BY <1>1, InspectEffect DEF ghosts
  <1>3. PICK k \in Nat : n.kept = Newest(Newest(lines[m.seized], MaxEvents), k)
    BY <1>1, InspectEffect
  <1>4. PICK s \in Seq(Events) : s = lines[m.seized] /\ m.seized \in Files /\ place[m.seized] = p
    BY <1>1, <1>2, OwnFiles DEF Compacting, Shape, OutboxTypes
  <1>5. MaxEvents \in Nat
    BY OutboxAssumption
  <1>6. Newest(s, MaxEvents) \in Seq(Events) /\ Range(n.kept) \subseteq Range(s)
    BY <1>3, <1>4, <1>5, NewestFacts
  <1>7. First(s, n.mark) = s
    BY <1>2, <1>4, WholeFacts
  <1>8. ~Doomed(m.seized)
    <2>1. ~HandedBack(p, m.seized)
      BY <1>1, <1>2 DEF HandedBack
    <2>2. QED
      BY <1>2, <1>4, <2>1, OwnDoomed
  <1>9. ASSUME NEW e \in Events \ doubtful
        PROVE  Single(n.kept, e)
    <2>1. Single(s, e)
      BY <1>4, <1>8, <1>9 DEF OnceInv, Once, OnceOnDisk
    <2>2. Single(Newest(s, MaxEvents), e)
      BY <2>1, <1>5, SingleNewest
    <2>3. QED
      BY <2>2, <1>3, <1>4, <1>6, SingleNewest
  <1>10. QED
    BY <1>1, <1>2, <1>4, <1>6, <1>7, <1>9, QuietInv DEF AppendOps

(***************************************************************************)
(* The tail that joins what a compaction keeps.                            *)
(***************************************************************************)
LEMMA ReadTailOnce ==
    ASSUME Shape, NEW p \in Processes, ShapeStep(p), OnceInv, ReadTail(p)
    PROVE  OnceInv'
  <1>1. PICK m, n : m = mem[p] /\ n = mem'[p]
    OBVIOUS
  <1>2. /\ p \in running /\ UNCHANGED <<running, lines, sent, recorded, doubtful>>
        /\ m.op = "tail" /\ n.op \in {"drop", "reopen", "restore"} /\ Alike(m, n)
        /\ n.seized = m.seized /\ n.mark = m.mark
        /\ n.kept = m.kept \o From(lines[m.seized], m.mark)
    BY <1>1, ReadTailEffect DEF ghosts
  <1>3. PICK s \in Seq(Events) : s = lines[m.seized] /\ m.seized \in Files /\ place[m.seized] = p
    BY <1>1, <1>2, OwnFiles DEF Compacting, Shape, OutboxTypes
  <1>4. m.kept \in Seq(Events) /\ m.mark \in Nat
    BY <1>1, <1>2, ActorFacts, FieldTypes DEF Fit
  <1>5. /\ From(s, m.mark) \in Seq(Events)
        /\ \A e : e \in Range(s) <=> e \in Range(First(s, m.mark)) \/ e \in Range(From(s, m.mark))
    BY <1>3, <1>4, CutEvents
  <1>6. Range(m.kept) \subseteq Range(First(s, m.mark))
    BY <1>1, <1>2, <1>3 DEF OnceInv, Reads
  <1>7. Range(n.kept) \subseteq Range(s)
    <2>1. \A e : e \in Range(n.kept) <=> e \in Range(m.kept) \/ e \in Range(From(s, m.mark))
      BY <1>2, <1>3, <1>4, <1>5, JoinEvents
    <2>2. QED
      BY <2>1, <1>5, <1>6
  <1>8. ~Doomed(m.seized)
    <2>1. ~HandedBack(p, m.seized)
      BY <1>1, <1>2 DEF HandedBack
    <2>2. QED
      BY <1>2, <1>3, <2>1, OwnDoomed
  <1>9. ASSUME NEW e \in Events \ doubtful
        PROVE  Single(n.kept, e)
    <2>1. Single(s, e)
      BY <1>3, <1>8, <1>9 DEF OnceInv, Once, OnceOnDisk
    <2>2. Single(m.kept, e)
      BY <1>1, <1>2, <1>9, ActorFacts DEF OnceInv, Once, OnceInMemory
    <2>3. Single(From(s, m.mark), e) /\ ~(e \in Range(First(s, m.mark)) /\ e \in Range(From(s, m.mark)))
      BY <2>1, <1>4, SingleCut
    <2>4. QED
      BY <2>2, <2>3, <1>2, <1>3, <1>4, <1>5, <1>6, SingleJoin
  <1>10. QED
    BY <1>1, <1>2, <1>3, <1>7, <1>9, QuietInv DEF AppendOps

(***************************************************************************)
(* A process starts with nothing in its memory.                            *)
(***************************************************************************)
LEMMA StartsOnce ==
    ASSUME Shape, NEW p \in Processes, ShapeStep(p), OnceInv, Starts(p)
    PROVE  OnceInv'
  <1>1. PICK m, n : m = mem[p] /\ n = mem'[p]
    OBVIOUS
  <1>2. /\ p \notin running /\ m = Blank
        /\ UNCHANGED <<lines, sent, recorded, doubtful>>
        /\ n.op = "list" /\ n.queue = <<>> /\ n.flights = {} /\ n.batch = <<>>
        /\ n.consumed = {} /\ n.carried = {} /\ n.unsent = <<>>
    BY <1>1, StartsEffect DEF disk
  <1>3. /\ Alike(m, n) /\ m.op = "none"
    BY <1>2 DEF Alike, Blank
  <1>4. Reads(mem[p])'
    <2>1. Range(n.unsent) = {}
      BY <1>2, EmptySeq, SeqFacts
    <2>2. QED
      BY <2>1, <1>1, <1>2 DEF Reads
  <1>5. ASSUME NEW e \in Events \ doubtful
        PROVE  Once(e)'
    BY <1>1, <1>2, <1>3, <1>5, QuietOnce DEF OnceInv, AppendOps
  <1>6. QED
    BY <1>2, <1>4, <1>5, OnceFromStep

(***************************************************************************)
(* Steps that find a file, claim it or fail to write to it.                *)
(***************************************************************************)
LEMMA QuietStepsOnce ==
    ASSUME Shape, NEW p \in Processes, ShapeStep(p), OnceInv,
           \/ ListClaims(p) \/ TakeClaim(p) \/ TakeLive(p) \/ Released(p)
           \/ Stat(p) \/ Open(p) \/ Seize(p) \/ WriteFails(p)
    PROVE  OnceInv'
  <1>1. PICK m, n : m = mem[p] /\ n = mem'[p]
    OBVIOUS
  <1>2. CASE ListClaims(p) \/ TakeClaim(p) \/ TakeLive(p) \/ Released(p)
    <2>1. /\ p \in running /\ UNCHANGED <<running, lines, sent, recorded, doubtful>>
          /\ m.op \in {"list", "take", "remove"} /\ n.op \in {"take", "read", "none"} /\ Alike(m, n)
          /\ m.op = "remove" => m.carried = {}
      BY <1>1, <1>2, ListClaimsEffect, TakeClaimEffect, TakeLiveEffect, ReleasedEffect DEF ghosts
    <2>2. QED
      BY <1>1, <2>1, QuietInv DEF AppendOps
  <1>3. CASE Stat(p) \/ Seize(p)
    <2>1. /\ p \in running /\ UNCHANGED <<running, lines, sent, recorded, doubtful>>
          /\ m.op \in {"stat", "seize"} /\ n.op \in {"seize", "open", "write", "inspect"} /\ Alike(m, n)
      BY <1>1, <1>3, StatEffect, SeizeEffect DEF ghosts
    <2>2. QED
      BY <1>1, <2>1, QuietInv DEF AppendOps
  <1>4. CASE WriteFails(p)
    <2>1. /\ p \in running /\ Alike(m, n) /\ UNCHANGED <<running, lines, recorded, sent, doubtful>>
          /\ m.op \in {"write", "restore"} /\ n.op \in {"none", "remove", "open", "write"}
      BY <1>1, <1>4, WriteFailsEffect DEF disk, Releasing
    <2>2. QED
      BY <1>1, <2>1, QuietInv DEF AppendOps
  <1>5. CASE Open(p)
    <2>1. /\ p \in running /\ UNCHANGED <<running, lines, sent, recorded, doubtful>>
          /\ m.op \in {"open", "reopen"} /\ n.op = (IF m.op = "open" THEN "write" ELSE "restore")
          /\ Alike(m, n) /\ n.seized = m.seized /\ n.mark = m.mark /\ n.kept = m.kept
      BY <1>1, <1>5, OpenEffect DEF ghosts
    <2>2. n.op # "tail" /\ (n.op \in {"reopen", "restore"} => m.op = "reopen")
      BY <2>1
    <2>3. m.op = "reopen" => /\ Range(m.kept) \subseteq Range(lines[m.seized])
                             /\ \A e \in Events \ doubtful : Single(m.kept, e)
      BY <1>1, <2>1 DEF OnceInv, Reads, Once, OnceInMemory
    <2>4. QED
      BY <1>1, <2>1, <2>2, <2>3, QuietInv DEF AppendOps
  <1>6. QED
    BY <1>2, <1>3, <1>4, <1>5

(***************************************************************************)
(* What a drain has read and not delivered is in one of its claims, which  *)
(* is not about to be deleted.                                             *)
(***************************************************************************)
LEMMA UnsentShown ==
    ASSUME Shape, NEW p \in running, Reads(mem[p]), NEW m, m = mem[p],
           m.op \in {"read", "none", "tails"}, NEW e \in Range(m.unsent)
    PROVE  \E f \in Claims(m) :
             /\ f \in Files /\ place[f] = p /\ Shows(f, e)
             /\ \/ f \in m.carried
                \/ \E c \in m.consumed : c.file = f /\ e \in Range(First(lines[f], c.bytes))
  <1>1. PICK f : /\ f \in Claims(m)
                 /\ \/ f \in m.carried /\ e \in Range(lines[f])
                    \/ \E c \in m.consumed : c.file = f /\ e \in Range(First(lines[f], c.bytes))
    BY DEF Reads, Claims
  <1>2. f \in Files /\ place[f] = p /\ lines[f] \in Seq(Events)
    BY <1>1, OwnFiles DEF Shape, OutboxTypes
  <1>3. ~Doomed(f)
    <2>1. ~HandedBack(p, f)
      BY DEF HandedBack
    <2>2. QED
      BY <1>2, <2>1, OwnDoomed
  <1>4. e \in Range(lines[f])
    <2>1. CASE f \in m.carried /\ e \in Range(lines[f])
      BY <2>1
    <2>2. CASE \E c \in m.consumed : c.file = f /\ e \in Range(First(lines[f], c.bytes))
      <3>1. PICK c \in m.consumed : c.file = f /\ e \in Range(First(lines[f], c.bytes))
        BY <2>2
      <3>2. c.bytes \in Nat
        BY <3>1, OwnFiles
      <3>3. QED
        BY <3>1, <3>2, <1>2, CutEvents
    <2>3. QED
      BY <1>1, <2>1, <2>2
  <1>5. QED
    BY <1>1, <1>2, <1>3, <1>4 DEF Shows

(***************************************************************************)
(* An event that a drain has not delivered has not been sent, and no       *)
(* process has it in memory as its own.                                    *)
(***************************************************************************)
LEMMA UnsentNotSent ==
    ASSUME Shape, NEW p \in running, Reads(mem[p]), NEW m, m = mem[p],
           m.op \in {"read", "none", "tails"}, NEW e \in Range(m.unsent), e \in Events, Once(e)
    PROVE  /\ sent[e] = 0 /\ \A q \in Processes : ~InMemory(mem[q], e)
           /\ e \in recorded
  <1>1. PICK f \in Files : f \in Claims(m) /\ place[f] = p /\ Shows(f, e)
    BY UnsentShown
  <1>2. ASSUME NEW q \in Processes
        PROVE  ~InMemory(mem[q], e)
    <2>1. ~Pending(mem[q], e)
      BY <1>1 DEF Once, Apart
    <2>2. ASSUME e \in Range(Batch(mem[q]))
          PROVE  FALSE
      <3>1. f \in mem[q].carried
        BY <1>1, <2>2 DEF Once, Apart
      <3>2. q \in running
        BY <3>1 DEF Shape, Phases, Blank
      <3>3. q = p
        BY <1>1, <3>1, <3>2, OwnFiles DEF Claims
      <3>4. Batch(m) = <<>>
        BY DEF Batch, AppendOps
      <3>5. QED
        BY <2>2, <3>3, <3>4, EmptySeq, SeqFacts
    <2>3. QED
      BY <2>1, <2>2 DEF InMemory
  <1>3. sent[e] # 1
    <2>1. SUFFICES ASSUME sent[e] = 1
                   PROVE  FALSE
      OBVIOUS
    <2>2. PICK q \in running : SentFrom(mem[q], f, e)
      BY <2>1, <1>1 DEF Once, SentOnce
    <2>3. q = p
      BY <2>2, <1>1, SentFacts
    <2>4. QED
      BY <2>2, <2>3 DEF SentFrom
  <1>4. sent[e] \in Nat /\ sent[e] <= 1
    BY DEF Once, SentOnce, Shape, OutboxTypes
  <1>5. e \in recorded
    BY <1>1 DEF Once, NotYet, Shows
  <1>6. QED
    BY <1>2, <1>3, <1>4, <1>5

(***************************************************************************)
(* A step of a drain that sends nothing.                                   *)
(***************************************************************************)
LEMMA DrainOnce ==
    ASSUME Shape, NEW p \in running, ShapeStep(p), NEW e \in Events, Once(e),
           NEW m, m = mem[p], NEW n, n = mem'[p],
           UNCHANGED <<running, lines, recorded>>, sent'[e] = sent[e],
           m.op \in {"read", "none", "tails"}, n.op \in {"read", "none", "tails"},
           SameOwn(m, n), Single(n.unsent, e),
           \A f \in Files : Shows(f, e) /\ SentFrom(mem[p], f, e) => SentFrom(mem[p], f, e)'
    PROVE  Once(e)'
  <1>1. \A q \in Processes \ {p} : mem'[q] = mem[q]
    BY DEF ShapeStep, Frame
  <1>2. \A f \in Files : ~HandedBack(p, f)
    BY DEF HandedBack
  <1>3. \A f \in Files : Doomed(f) => Doomed(f)'
    BY <1>1, <1>2 DEF Doomed, HandedBack
  <1>4. \A f \in Files : Shows(f, e)' => Shows(f, e)
    BY <1>3 DEF Shows
  <1>5. \A f \in Files : ~Doomed(f)' => Single(lines'[f], e)
    BY <1>3 DEF Once, OnceOnDisk
  <1>6. Batch(n) = <<>> /\ Range(<<>>) = {} /\ Single(<<>>, e)
    BY EmptySeq, SeqFacts, SingleAbsent DEF Batch, AppendOps
  <1>7. p \in Processes /\ OnceInMemory(m, e)
    BY ActorFacts DEF Once
  <1>8. Pending(n, e) <=> Pending(m, e)
    BY DEF Pending, InFlight, SameOwn
  <1>9. OnceInMemory(n, e)
    BY <1>6, <1>7, <1>8 DEF OnceInMemory, InFlight, SameOwn
  <1>10. QED
    BY <1>4, <1>5, <1>6, <1>7, <1>8, <1>9, OnceLess

(***************************************************************************)
(* What has been read of a claim.                                          *)
(***************************************************************************)
LEMMA ReadClaimOnce ==
    ASSUME Shape, NEW p \in Processes, ShapeStep(p), OnceInv, ReadClaim(p)
    PROVE  OnceInv'
  <1>1. PICK m, n : m = mem[p] /\ n = mem'[p]
    OBVIOUS
  <1>2. PICK f : f = Head(m.claimed)
    OBVIOUS
  <1>3. /\ p \in running /\ UNCHANGED <<running, lines, sent, recorded, doubtful>>
        /\ m.op = "read" /\ m.claimed # <<>> /\ n.op = "read" /\ SameOwn(m, n)
        /\ n.consumed = m.consumed \cup {[file |-> f, bytes |-> Len(lines[f])]}
        /\ n.unsent = m.unsent \o lines[f] /\ n.carried = m.carried
    BY <1>1, <1>2, ReadClaimEffect, ZenonT(40) DEF disk, ghosts
  <1>4. m \in Memories /\ Phase(m) /\ Holds(p, m) /\ Reads(m)
    BY <1>1, <1>3, ActorFacts DEF Fit, OnceInv
  <1>5. /\ m.unsent \in Seq(Events) /\ f \in Files /\ lines[f] \in Seq(Events)
        /\ f \in Range(m.claimed)
    BY <1>2, <1>3, <1>4, FieldTypes, TailFacts DEF Shape, OutboxTypes
  <1>6. /\ place[f] = p /\ m.carried = {}
        /\ \A c \in m.consumed : c.file # f
    BY <1>3, <1>4, <1>5 DEF Holds, Claims, Phase
  <1>7. First(lines[f], Len(lines[f])) = lines[f]
    BY <1>5, WholeFacts
  <1>8. \A e : e \in Range(n.unsent) <=> e \in Range(m.unsent) \/ e \in Range(lines[f])
    BY <1>3, <1>5, JoinEvents
  <1>9. ~Doomed(f)
    <2>1. ~HandedBack(p, f)
      BY <1>1, <1>3 DEF HandedBack
    <2>2. QED
      BY <1>3, <1>5, <1>6, <2>1, OwnDoomed
  <1>10. Reads(mem[p])'
    <2>1. \A e \in Range(n.unsent) :
            \/ \E c \in n.consumed : e \in Range(First(lines[c.file], c.bytes))
            \/ \E g \in n.carried : e \in Range(lines[g])
      <3>1. \A e \in Range(m.unsent) :
              \/ \E c \in n.consumed : e \in Range(First(lines[c.file], c.bytes))
              \/ \E g \in n.carried : e \in Range(lines[g])
        BY <1>3, <1>4 DEF Reads
      <3>2. \E c \in n.consumed : c.file = f /\ c.bytes = Len(lines[f])
        <4>1. PICK c : c = [file |-> f, bytes |-> Len(lines[f])]
          OBVIOUS
        <4>2. c.file = f /\ c.bytes = Len(lines[f])
          BY <4>1
        <4>3. c \in n.consumed
          BY <4>1, <1>3
        <4>4. QED
          BY <4>2, <4>3
      <3>3. QED
        BY <3>1, <3>2, <1>7, <1>8
    <2>2. QED
      BY <2>1, <1>1, <1>3 DEF Reads
  <1>11. ASSUME NEW e \in Events \ doubtful
         PROVE  Once(e)'
    <2>1. Once(e) /\ Single(m.unsent, e) /\ Single(lines[f], e)
      BY <1>1, <1>5, <1>9, <1>11, <1>3 DEF OnceInv, Once, OnceInMemory, OnceOnDisk
    <2>2. \A g \in Files : Shows(g, e) /\ e \in Range(lines[f]) => g = f
      BY <2>1, <1>5, <1>9 DEF Shows, Once, OnceOnDisk
    <2>3. ~(e \in Range(m.unsent) /\ e \in Range(lines[f]))
      <3>1. SUFFICES ASSUME e \in Range(m.unsent), e \in Range(lines[f])
                     PROVE  FALSE
        OBVIOUS
      <3>2. PICK g \in Files : Shows(g, e) /\ \E c \in m.consumed : c.file = g
        BY <3>1, <1>1, <1>3, <1>4, <1>6, UnsentShown
      <3>3. QED
        BY <3>1, <3>2, <2>2, <1>6
    <2>4. Single(n.unsent, e)
      BY <2>1, <2>3, <1>3, <1>5, SingleJoin
    <2>5. ASSUME NEW g \in Files, Shows(g, e), SentFrom(mem[p], g, e)
          PROVE  SentFrom(mem[p], g, e)'
      <3>1. /\ e \notin Range(m.unsent)
            /\ \E c \in m.consumed : c.file = g /\ e \in Range(First(lines[g], c.bytes))
        BY <2>5, <1>1, <1>6 DEF SentFrom
      <3>2. e \notin Range(lines[f])
        BY <3>1, <2>2, <2>5, <1>6
      <3>3. e \notin Range(n.unsent)
        BY <3>1, <3>2, <1>8
      <3>4. QED
        BY <3>1, <3>3, <1>1, <1>3 DEF SentFrom
    <2>6. QED
      BY <2>1, <2>4, <2>5, <1>1, <1>3, <1>11, DrainOnce
  <1>12. QED
    BY <1>3, <1>10, <1>11, OnceFromStep

(***************************************************************************)
(* Counting the oldest events beyond the bound.                            *)
(***************************************************************************)
LEMMA BoundOnce ==
    ASSUME Shape, NEW p \in Processes, ShapeStep(p), OnceInv, Bound(p)
    PROVE  OnceInv'
  <1>1. PICK m, n : m = mem[p] /\ n = mem'[p]
    OBVIOUS
  <1>2. /\ p \in running /\ UNCHANGED <<running, lines, sent, recorded, doubtful>>
        /\ m.op = "read" /\ n.op \in {"none", "tails"} /\ SameOwn(m, n)
        /\ n.consumed = m.consumed /\ n.carried = m.carried
        /\ n.unsent = <<>> \/ n.unsent = Newest(m.unsent, MaxEvents)
    BY <1>1, BoundEffect DEF disk
  <1>3. m.unsent \in Seq(Events) /\ MaxEvents \in Nat
    BY <1>1, <1>2, ActorFacts, FieldTypes, OutboxAssumption DEF Fit
  <1>4. Range(n.unsent) \subseteq Range(m.unsent)
    <2>1. Range(<<>>) = {}
      BY EmptySeq, SeqFacts
    <2>2. QED
      BY <2>1, <1>2, <1>3, NewestFacts
  <1>5. Reads(mem[p])'
    BY <1>1, <1>2, <1>4, ReadsLess DEF OnceInv
  <1>6. ASSUME NEW e \in Events \ doubtful
        PROVE  Once(e)'
    <2>1. Once(e) /\ Single(m.unsent, e)
      BY <1>1, <1>6, <1>2 DEF OnceInv, Once, OnceInMemory
    <2>2. Single(n.unsent, e)
      <3>1. Single(<<>>, e)
        BY EmptySeq, SeqFacts, SingleAbsent
      <3>2. QED
        BY <3>1, <2>1, <1>2, <1>3, SingleNewest
    <2>3. \A g \in Files : SentFrom(mem[p], g, e) => SentFrom(mem[p], g, e)'
      BY <1>1, <1>2, <1>4 DEF SentFrom
    <2>4. QED
      BY <2>1, <2>2, <2>3, <1>1, <1>2, <1>6, DrainOnce
  <1>7. QED
    BY <1>2, <1>5, <1>6, OnceFromStep

(***************************************************************************)
(* An event reaches the server that is in the memory of no process.        *)
(***************************************************************************)
LEMMA ArrivesOnce ==
    ASSUME Shape, NEW p \in running, ShapeStep(p), NEW e \in Events, Once(e),
           sent[e] = 0, sent'[e] = 1, e \in recorded, recorded' = recorded,
           UNCHANGED <<running, lines>>, mem[p].op \notin {"drop", "remove"},
           \A q \in Processes : OnceInMemory(mem'[q], e) /\ ~InMemory(mem'[q], e),
           \A f \in Files : Shows(f, e) => SentFrom(mem[p], f, e)'
    PROVE  Once(e)'
  <1>1. \A q \in Processes \ {p} : mem'[q] = mem[q]
    BY DEF ShapeStep, Frame
  <1>2. \A f \in Files : ~HandedBack(p, f)
    BY DEF HandedBack
  <1>3. \A f \in Files : Doomed(f) => Doomed(f)'
    BY <1>1, <1>2 DEF Doomed, HandedBack
  <1>4. \A f \in Files : Shows(f, e)' => Shows(f, e)
    BY <1>3 DEF Shows
  <1>5. OnceOnDisk(e)'
    BY <1>3, <1>4 DEF Once, OnceOnDisk
  <1>6. \A q \in Processes : OnceInMemory(mem[q], e)' /\ ~InMemory(mem[q], e)'
    BY DEF OnceInMemory, InMemory, Pending, InFlight, Batch
  <1>7. Apart(e)'
    BY <1>6 DEF Apart, InMemory
  <1>8. SentOnce(e)'
    BY <1>4, <1>6 DEF SentOnce
  <1>9. NotYet(e)'
    BY DEF NotYet
  <1>10. QED
    BY <1>5, <1>6, <1>7, <1>8, <1>9 DEF Once

(***************************************************************************)
(* A drain sends a batch of what it has read.                              *)
(***************************************************************************)
LEMMA DrainSendsOnce ==
    ASSUME Shape, NEW p \in Processes, ShapeStep(p), OnceInv, DrainSends(p)
    PROVE  OnceInv'
  <1>1. PICK m, n : m = mem[p] /\ n = mem'[p]
    OBVIOUS
  <1>2. /\ p \in running /\ m.op = "none" /\ n.op \in {"none", "tails"} /\ SameOwn(m, n)
        /\ n.consumed = m.consumed /\ n.carried = m.carried
    BY <1>1, DrainSendsEffect
  <1>3. PICK batch, outcome :
          /\ batch = First(m.unsent, BatchSize) /\ Post(batch, outcome)
          /\ outcome \in {"answered", "unanswered", "failed"}
          /\ n.unsent = IF outcome = "answered" THEN From(m.unsent, BatchSize) ELSE m.unsent
    BY <1>1, DrainSendsEffect
  <1>4. m \in Memories /\ Phase(m) /\ Reads(m)
    BY <1>1, <1>2, ActorFacts DEF Fit, OnceInv
  <1>5. m.unsent \in Seq(Events) /\ BatchSize \in Nat
    BY <1>4, FieldTypes, OutboxAssumption
  <1>6. \A e : e \in Range(m.unsent) <=> e \in Range(batch) \/ e \in Range(From(m.unsent, BatchSize))
    BY <1>3, <1>5, CutEvents
  <1>7. /\ UNCHANGED <<running, lines, recorded>>
        /\ \A e \in Events : sent'[e] = IF outcome # "failed" /\ e \in Range(batch)
                                        THEN sent[e] + 1 ELSE sent[e]
        /\ doubtful' = IF outcome = "unanswered" THEN doubtful \cup Range(batch) ELSE doubtful
    BY <1>3, PostFacts DEF disk, Shape
  <1>8. Range(n.unsent) \subseteq Range(m.unsent) /\ m.carried = {}
    BY <1>2, <1>3, <1>4, <1>6 DEF Phase
  <1>9. Reads(mem[p])'
    BY <1>1, <1>2, <1>7, <1>8, ReadsLess DEF OnceInv
  <1>10. ASSUME NEW e \in Events \ doubtful'
         PROVE  Once(e)'
    <2>1. e \in Events \ doubtful
      BY <1>7
    <2>2. Once(e) /\ OnceInMemory(m, e)
      BY <2>1, <1>1 DEF OnceInv, Once
    <2>3. /\ Single(n.unsent, e)
          /\ ~(e \in Range(batch) /\ e \in Range(From(m.unsent, BatchSize)))
      BY <2>2, <1>3, <1>5, SingleCut DEF OnceInMemory
    <2>4. CASE outcome = "answered" /\ e \in Range(batch)
      <3>1. e \in Range(m.unsent) /\ e \notin Range(n.unsent)
        BY <2>3, <2>4, <1>3, <1>6
      <3>2. sent[e] = 0 /\ sent'[e] = 1
        BY <3>1, <2>2, <2>4, <1>1, <1>2, <1>4, <1>7, UnsentNotSent
      <3>3. e \in recorded /\ \A q \in Processes : ~InMemory(mem[q], e)
        BY <3>1, <2>2, <1>1, <1>2, <1>4, UnsentNotSent
      <3>4. Batch(n) = <<>> /\ Range(<<>>) = {} /\ Single(<<>>, e)
        BY <1>2, EmptySeq, SeqFacts, SingleAbsent DEF Batch, AppendOps
      <3>5. Pending(n, e) <=> Pending(m, e)
        BY <1>2 DEF Pending, InFlight, SameOwn
      <3>6. OnceInMemory(n, e) /\ ~InMemory(n, e)
        BY <1>1, <1>2, <2>2, <2>3, <3>3, <3>4, <3>5 DEF OnceInMemory, InFlight, InMemory, SameOwn
      <3>7. \A q \in Processes : OnceInMemory(mem'[q], e) /\ ~InMemory(mem'[q], e)
        <4>1. \A q \in Processes \ {p} : mem'[q] = mem[q]
          BY DEF ShapeStep, Frame
        <4>2. QED
          BY <4>1, <3>3, <3>6, <2>2, <1>1 DEF Once
      <3>8. PICK f \in Files : /\ Shows(f, e)
                               /\ \E c \in m.consumed : /\ c.file = f
                                                        /\ e \in Range(First(lines[f], c.bytes))
        BY <3>1, <1>1, <1>2, <1>4, <1>8, UnsentShown
      <3>9. \A g \in Files : Shows(g, e) => SentFrom(mem[p], g, e)'
        <4>1. \A g \in Files : Shows(g, e) => g = f
          BY <3>8, <2>2 DEF Once, OnceOnDisk
        <4>2. SentFrom(mem[p], f, e)'
          BY <3>1, <3>8, <1>1, <1>2, <1>7 DEF SentFrom
        <4>3. QED
          BY <4>1, <4>2
      <3>10. QED
        BY <3>2, <3>3, <3>7, <3>9, <2>1, <2>2, <1>1, <1>2, <1>7, ArrivesOnce
    <2>5. CASE ~(outcome = "answered" /\ e \in Range(batch))
      <3>1. sent'[e] = sent[e]
        BY <2>5, <1>3, <1>7, <1>10
      <3>2. \A g \in Files : SentFrom(mem[p], g, e) => SentFrom(mem[p], g, e)'
        BY <1>1, <1>2, <1>7, <1>8 DEF SentFrom
      <3>3. QED
        BY <3>1, <3>2, <2>1, <2>2, <2>3, <1>1, <1>2, <1>7, DrainOnce
    <2>6. QED
      BY <2>4, <2>5
  <1>11. doubtful \subseteq doubtful'
    BY <1>7
  <1>12. QED
    BY <1>2, <1>9, <1>10, OnceFromStep

(***************************************************************************)
(* The tail of a claim joins what was not delivered.                       *)
(***************************************************************************)
LEMMA CarryTailOnce ==
    ASSUME Shape, NEW p \in Processes, ShapeStep(p), OnceInv, CarryTail(p)
    PROVE  OnceInv'
  <1>1. PICK m, n : m = mem[p] /\ n = mem'[p]
    OBVIOUS
  <1>2. /\ p \in running /\ UNCHANGED <<running, lines, sent, recorded, doubtful>>
        /\ m.op = "tails" /\ n.op = "tails" /\ SameOwn(m, n)
    BY <1>1, CarryTailEffect DEF disk, ghosts
  <1>3. PICK c \in m.consumed : TakesOver(m, n, c)
    BY <1>1, CarryTailEffect
  <1>4. PICK f : f = c.file
    OBVIOUS
  <1>5. m \in Memories /\ Holds(p, m) /\ Reads(m)
    BY <1>1, <1>2, ActorFacts DEF Fit, OnceInv
  <1>6. /\ m.unsent \in Seq(Events) /\ f \in Files /\ c.bytes \in Nat /\ lines[f] \in Seq(Events)
        /\ place[f] = p
    <2>1. m.unsent \in Seq(Events)
      BY <1>5, FieldTypes
    <2>2. f \in Files /\ c.bytes \in Nat /\ place[f] = p
      BY <1>1, <1>2, <1>3, <1>4, OwnFiles
    <2>3. QED
      BY <2>1, <2>2 DEF Shape, OutboxTypes
  <1>7. /\ From(lines[f], c.bytes) \in Seq(Events)
        /\ \A e : e \in Range(lines[f]) <=> \/ e \in Range(First(lines[f], c.bytes))
                                            \/ e \in Range(From(lines[f], c.bytes))
    BY <1>6, CutEvents
  <1>8. \A e : e \in Range(n.unsent) <=> e \in Range(m.unsent) \/ e \in Range(From(lines[f], c.bytes))
    BY <1>3, <1>4, <1>6, <1>7, JoinEvents DEF TakesOver
  <1>9. /\ \A d \in m.consumed : d # c => d.file # f /\ d \in n.consumed
        /\ f \notin m.carried /\ f \in n.carried /\ m.carried \subseteq n.carried
    BY <1>3, <1>4, <1>5 DEF TakesOver, Holds
  <1>10. ~Doomed(f)
    <2>1. ~HandedBack(p, f)
      BY <1>1, <1>2 DEF HandedBack
    <2>2. QED
      BY <1>2, <1>6, <2>1, OwnDoomed
  <1>11. Reads(mem[p])'
    <2>1. ASSUME NEW e \in Range(n.unsent)
          PROVE  \/ \E d \in n.consumed : e \in Range(First(lines[d.file], d.bytes))
                 \/ \E g \in n.carried : e \in Range(lines[g])
      <3>1. CASE e \in Range(lines[f])
        BY <3>1, <1>9
      <3>2. CASE e \notin Range(lines[f])
        <4>1. e \in Range(m.unsent)
          BY <3>2, <2>1, <1>7, <1>8
        <4>2. \/ \E d \in m.consumed : e \in Range(First(lines[d.file], d.bytes))
              \/ \E g \in m.carried : e \in Range(lines[g])
          BY <4>1, <1>5 DEF Reads
        <4>3. e \notin Range(First(lines[c.file], c.bytes))
          BY <3>2, <1>4, <1>7
        <4>4. QED
          BY <4>2, <4>3, <1>9
      <3>3. QED
        BY <3>1, <3>2
    <2>2. QED
      BY <2>1, <1>1, <1>2 DEF Reads
  <1>12. ASSUME NEW e \in Events \ doubtful
         PROVE  Once(e)'
    <2>1. Once(e) /\ Single(m.unsent, e) /\ Single(lines[f], e)
      BY <1>1, <1>6, <1>10, <1>12 DEF OnceInv, Once, OnceInMemory, OnceOnDisk
    <2>2. \A g \in Files : Shows(g, e) /\ e \in Range(lines[f]) => g = f
      BY <2>1, <1>6, <1>10 DEF Shows, Once, OnceOnDisk
    <2>3. /\ Single(From(lines[f], c.bytes), e)
          /\ ~(e \in Range(First(lines[f], c.bytes)) /\ e \in Range(From(lines[f], c.bytes)))
      BY <2>1, <1>6, SingleCut
    <2>4. ~(e \in Range(m.unsent) /\ e \in Range(From(lines[f], c.bytes)))
      <3>1. SUFFICES ASSUME e \in Range(m.unsent), e \in Range(From(lines[f], c.bytes))
                     PROVE  FALSE
        OBVIOUS
      <3>2. PICK g \in Files :
              /\ Shows(g, e)
              /\ \/ g \in m.carried
                 \/ \E d \in m.consumed : d.file = g /\ e \in Range(First(lines[g], d.bytes))
        BY <3>1, <1>1, <1>2, <1>5, UnsentShown
      <3>3. g = f
        BY <3>1, <3>2, <2>2, <1>7
      <3>4. e \in Range(First(lines[f], c.bytes))
        BY <3>2, <3>3, <1>4, <1>9
      <3>5. QED
        BY <3>1, <3>4, <2>3
    <2>5. Single(n.unsent, e)
      BY <2>1, <2>3, <2>4, <1>3, <1>4, <1>6, <1>7, SingleJoin DEF TakesOver
    <2>6. ASSUME NEW g \in Files, Shows(g, e), SentFrom(mem[p], g, e)
          PROVE  SentFrom(mem[p], g, e)'
      <3>1. /\ e \notin Range(m.unsent)
            /\ \/ g \in m.carried
               \/ \E d \in m.consumed : d.file = g /\ e \in Range(First(lines[g], d.bytes))
        BY <2>6, <1>1 DEF SentFrom
      <3>2. e \notin Range(From(lines[f], c.bytes))
        <4>1. SUFFICES ASSUME e \in Range(From(lines[f], c.bytes))
                       PROVE  FALSE
          OBVIOUS
        <4>2. g = f
          BY <4>1, <2>2, <2>6, <1>7
        <4>3. e \in Range(First(lines[f], c.bytes))
          BY <4>2, <3>1, <1>4, <1>9
        <4>4. QED
          BY <4>1, <4>3, <2>3
      <3>3. e \notin Range(n.unsent)
        BY <3>1, <3>2, <1>8
      <3>4. \/ g \in n.carried
            \/ \E d \in n.consumed : d.file = g /\ e \in Range(First(lines[g], d.bytes))
        BY <3>1, <1>4, <1>9
      <3>5. QED
        BY <3>3, <3>4, <1>1, <1>2 DEF SentFrom
    <2>7. QED
      BY <2>1, <2>5, <2>6, <1>1, <1>2, <1>12, DrainOnce
  <1>13. QED
    BY <1>2, <1>11, <1>12, OnceFromStep

(***************************************************************************)
(* What was not delivered becomes the batch of an append.                  *)
(***************************************************************************)
LEMMA HandBackOnce ==
    ASSUME Shape, NEW p \in Processes, ShapeStep(p), OnceInv, HandBack(p)
    PROVE  OnceInv'
  <1>1. PICK m, n : m = mem[p] /\ n = mem'[p]
    OBVIOUS
  <1>2. /\ p \in running /\ UNCHANGED <<running, lines, sent, recorded, doubtful>>
        /\ m.op = "tails" /\ m.consumed = {}
        /\ n.queue = m.queue /\ n.flights = m.flights /\ n.batch = m.unsent
        /\ n.consumed = {} /\ n.carried = m.carried /\ n.unsent = <<>>
        /\ n.op = IF m.unsent = <<>> THEN "remove" ELSE "stat"
    <2>1. /\ p \in running /\ UNCHANGED <<running, disk, ghosts>>
          /\ m.op = "tails" /\ m.consumed = {}
      BY <1>1, HandBackEffect
    <2>2. /\ n.queue = m.queue /\ n.flights = m.flights /\ n.batch = m.unsent
          /\ n.consumed = {} /\ n.carried = m.carried /\ n.unsent = <<>>
          /\ n.op = IF m.unsent = <<>> THEN "remove" ELSE "stat"
      BY <1>1, HandBackEffect
    <2>3. UNCHANGED <<running, lines, sent, recorded, doubtful>>
      BY <2>1 DEF disk, ghosts
    <2>4. QED
      BY <2>1, <2>2, <2>3
  <1>3. Range(<<>>) = {} /\ \A e : Single(<<>>, e)
    BY EmptySeq, SeqFacts, SingleAbsent
  <1>4. Reads(mem[p])'
    BY <1>1, <1>2, <1>3, ReadsLess, ZenonT(40) DEF OnceInv
  <1>5. \A q \in Processes \ {p} : mem'[q] = mem[q]
    BY DEF ShapeStep, Frame
  <1>6. \A f \in Files : ~HandedBack(p, f)
    BY <1>1, <1>2 DEF HandedBack
  <1>7. \A f \in Files : Doomed(f) => Doomed(f)'
    BY <1>5, <1>6 DEF Doomed, HandedBack
  <1>8. Batch(m) = <<>> /\ Range(Batch(n)) = Range(m.unsent)
    BY <1>2, <1>3 DEF Batch, AppendOps
  <1>9. ASSUME NEW e \in Events \ doubtful
        PROVE  Once(e)'
    <2>1. Once(e) /\ OnceInMemory(m, e)
      BY <1>1, <1>9 DEF OnceInv, Once
    <2>2. \A f \in Files : Shows(f, e)' => Shows(f, e)
      BY <1>2, <1>7 DEF Shows
    <2>3. \A f \in Files : ~Doomed(f)' => Single(lines'[f], e)
      BY <2>1, <1>2, <1>7 DEF Once, OnceOnDisk
    <2>4. Pending(n, e) <=> Pending(m, e)
      BY <1>2 DEF Pending, InFlight
    <2>5. Single(Batch(n), e)
      BY <1>2, <1>3, <2>1 DEF Batch, OnceInMemory
    <2>6. CASE e \in Range(m.unsent)
      <3>1. /\ sent[e] = 0 /\ e \in recorded
            /\ \A q \in Processes : ~InMemory(mem[q], e)
        BY <2>1, <2>6, <1>1, <1>2, <1>9, UnsentNotSent DEF OnceInv
      <3>2. PICK f \in m.carried : f \in Files /\ Shows(f, e)
        BY <2>6, <1>1, <1>2, UnsentShown DEF OnceInv
      <3>3. OnceInMemory(n, e)
        BY <3>1, <2>1, <2>4, <2>5, <1>1, <1>2, <1>3 DEF OnceInMemory, InFlight, InMemory
      <3>4. ~Pending(n, e)
        BY <3>1, <2>4, <1>1 DEF InMemory
      <3>5. \A q \in Processes : OnceInMemory(mem[q], e)'
        <4>1. \A q \in Processes : OnceInMemory(mem'[q], e)
          BY <3>3, <2>1, <1>1, <1>5 DEF Once
        <4>2. QED
          BY <4>1 DEF OnceInMemory, Pending, InFlight, Batch
      <3>6. OnceOnDisk(e)'
        BY <2>1, <2>2, <2>3 DEF Once, OnceOnDisk
      <3>7. Apart(e)'
        <4>1. \A q, r \in Processes : InMemory(mem'[q], e) /\ InMemory(mem'[r], e) => q = r
          BY <3>1, <1>5
        <4>2. ASSUME NEW g \in Files, NEW q \in Processes, Shows(g, e)'
              PROVE  ~Pending(mem'[q], e) /\ (e \in Range(Batch(mem'[q])) => g \in mem'[q].carried)
          <5>1. g = f
            BY <4>2, <3>2, <2>1, <2>2 DEF Once, OnceOnDisk
          <5>2. CASE q = p
            BY <5>1, <5>2, <3>2, <3>4, <1>1, <1>2
          <5>3. CASE q # p
            BY <5>3, <3>1, <1>5 DEF InMemory
          <5>4. QED
            BY <5>2, <5>3
        <4>3. QED
          BY <4>1, <4>2 DEF Apart
      <3>8. SentOnce(e)'
        BY <3>1, <1>2 DEF SentOnce
      <3>9. NotYet(e)'
        BY <3>1, <1>2 DEF NotYet
      <3>10. QED
        BY <3>5, <3>6, <3>7, <3>8, <3>9 DEF Once
    <2>7. CASE e \notin Range(m.unsent)
      <3>1. e \notin Range(Batch(n))
        BY <2>7, <1>8
      <3>2. OnceInMemory(n, e)
        BY <3>1, <2>1, <2>4, <2>5, <1>2, <1>3 DEF OnceInMemory, InFlight
      <3>3. \A f \in Files : SentFrom(mem[p], f, e) => SentFrom(mem[p], f, e)'
        BY <1>1, <1>2, <1>3 DEF SentFrom
      <3>4. QED
        BY <3>1, <3>2, <3>3, <2>1, <2>2, <2>3, <2>4, <1>1, <1>2, OnceLess
    <2>8. QED
      BY <2>6, <2>7
  <1>10. QED
    BY <1>2, <1>4, <1>9, OnceFromStep

(***************************************************************************)
(* A claim that was handed back is deleted.                                *)
(***************************************************************************)
LEMMA RemoveClaimOnce ==
    ASSUME Shape, NEW p \in Processes, ShapeStep(p), OnceInv, RemoveClaim(p)
    PROVE  OnceInv'
  <1>1. PICK m, n : m = mem[p] /\ n = mem'[p]
    OBVIOUS
  <1>2. /\ p \in running /\ UNCHANGED <<running, sent, recorded, doubtful>>
        /\ m.op = "remove" /\ n.op = "remove" /\ SameOwn(m, n)
        /\ n.consumed = m.consumed /\ n.unsent = m.unsent
    BY <1>1, RemoveClaimEffect DEF ghosts
  <1>3. PICK f \in m.carried : Deletes(m, n, f)
    BY <1>1, RemoveClaimEffect
  <1>4. m.consumed = {} /\ m.unsent = <<>> /\ f \in Files
    BY <1>1, <1>2, <1>3, ActorFacts, FieldTypes DEF Fit, Phase
  <1>5. Range(<<>>) = {} /\ \A e : Single(<<>>, e)
    BY EmptySeq, SeqFacts, SingleAbsent
  <1>6. lines'[f] = <<>> /\ \A g \in Files \ {f} : lines'[g] = lines[g]
    BY <1>3, <1>4 DEF Deletes, Shape, OutboxTypes
  <1>7. Reads(mem[p])'
    BY <1>1, <1>2, <1>4, <1>5 DEF Reads
  <1>8. \A q \in Processes \ {p} : mem'[q] = mem[q]
    BY DEF ShapeStep, Frame
  <1>9. \A g \in Files \ {f} : Doomed(g) => Doomed(g)'
    <2>1. \A g \in Files \ {f} : HandedBack(p, g) => HandedBack(p, g)'
      BY <1>1, <1>2, <1>3 DEF HandedBack, Deletes
    <2>2. QED
      BY <2>1, <1>8 DEF Doomed, HandedBack
  <1>10. Batch(m) = <<>> /\ Batch(n) = <<>>
    BY <1>2 DEF Batch, AppendOps
  <1>11. ASSUME NEW e \in Events \ doubtful
         PROVE  Once(e)'
    <2>1. Once(e) /\ OnceInMemory(m, e)
      BY <1>1, <1>11 DEF OnceInv, Once
    <2>2. \A g \in Files : Shows(g, e)' => g # f /\ Shows(g, e)
      BY <1>5, <1>6, <1>9 DEF Shows
    <2>3. \A g \in Files : ~Doomed(g)' => Single(lines'[g], e)
      BY <2>1, <1>5, <1>6, <1>9 DEF Once, OnceOnDisk
    <2>4. \A g \in Files : e \in Range(lines'[g]) => e \in Range(lines[g])
      BY <1>5, <1>6
    <2>5. Pending(n, e) <=> Pending(m, e)
      BY <1>2 DEF Pending, InFlight, SameOwn
    <2>6. OnceInMemory(n, e)
      BY <2>1, <2>5, <1>2, <1>10 DEF OnceInMemory, InFlight, SameOwn
    <2>7. \A g \in Files : Shows(g, e)' /\ SentFrom(mem[p], g, e) => SentFrom(mem[p], g, e)'
      BY <2>2, <1>1, <1>2, <1>3, <1>4 DEF SentFrom, Deletes
    <2>8. QED
      BY <2>1, <2>2, <2>3, <2>4, <2>5, <2>6, <2>7, <1>1, <1>2, <1>5, <1>10, OnceLess
  <1>12. QED
    BY <1>2, <1>7, <1>11, OnceFromStep

(***************************************************************************)
(* A step of the process's own queue and batches that leaves the files and *)
(* the drain alone keeps the invariant.                                    *)
(***************************************************************************)
LEMMA OwnStep ==
    ASSUME Shape, NEW p \in running, ShapeStep(p), NEW e \in Events, Once(e),
           NEW m, m = mem[p], NEW n, n = mem'[p],
           UNCHANGED <<running, lines>>, sent'[e] = sent[e], recorded \subseteq recorded',
           m.op = "none", SameDrain(m, n), n.op \in {"none", "stat"},
           OnceInMemory(n, e), Pending(n, e) \/ e \in Range(Batch(n)) => Pending(m, e)
    PROVE  Once(e)'
  <1>1. \A q \in Processes \ {p} : mem'[q] = mem[q]
    BY DEF ShapeStep, Frame
  <1>2. \A f \in Files : ~HandedBack(p, f)
    BY DEF HandedBack
  <1>3. \A f \in Files : Doomed(f) => Doomed(f)'
    BY <1>1, <1>2 DEF Doomed, HandedBack
  <1>4. \A f \in Files : Shows(f, e)' => Shows(f, e)
    BY <1>3 DEF Shows
  <1>5. \A f \in Files : ~Doomed(f)' => Single(lines'[f], e)
    BY <1>3 DEF Once, OnceOnDisk
  <1>6. \A f \in Files : SentFrom(mem[p], f, e) => SentFrom(mem[p], f, e)'
    BY DEF SentFrom, SameDrain
  <1>7. p \in Processes
    BY ActorFacts
  <1>8. QED
    BY <1>4, <1>5, <1>6, <1>7, OnceLess

(***************************************************************************)
(* What the drain has read is not touched by such a step.                  *)
(***************************************************************************)
LEMMA OwnReads ==
    ASSUME Shape, NEW p \in running, OnceInv, NEW m, m = mem[p], NEW n, n = mem'[p],
           UNCHANGED lines, SameDrain(m, n), n.op \in {"none", "stat"}
    PROVE  Reads(mem[p])'
  BY ReadsLess DEF OnceInv, SameDrain

(***************************************************************************)
(* An event that was not recorded comes into the memory of one process.    *)
(***************************************************************************)
LEMMA NewOnce ==
    ASSUME Shape, NEW p \in running, ShapeStep(p), NEW e \in Events, Once(e), e \notin recorded,
           NEW n, n = mem'[p], UNCHANGED <<running, lines, sent>>, e \in recorded',
           OnceInMemory(n, e)
    PROVE  Once(e)'
  <1>1. \A q \in Processes \ {p} : mem'[q] = mem[q]
    BY DEF ShapeStep, Frame
  <1>2. /\ sent[e] = 0
        /\ \A q \in Processes : ~InMemory(mem[q], e)
        /\ \A f \in Files : e \notin Range(lines[f])
    BY DEF Once, NotYet
  <1>3. \A q \in Processes : OnceInMemory(mem[q], e)'
    <2>1. \A q \in Processes : OnceInMemory(mem'[q], e)
      BY <1>1 DEF Once
    <2>2. QED
      BY <2>1 DEF OnceInMemory, Pending, InFlight, Batch
  <1>4. \A f \in Files : ~Shows(f, e)' /\ Single(lines'[f], e)
    BY <1>2, SingleAbsent DEF Shows, Shape, OutboxTypes
  <1>5. OnceOnDisk(e)'
    BY <1>4 DEF OnceOnDisk
  <1>6. Apart(e)'
    <2>1. \A q, r \in Processes : InMemory(mem'[q], e) /\ InMemory(mem'[r], e) => q = r
      BY <1>1, <1>2
    <2>2. QED
      BY <2>1, <1>4 DEF Apart
  <1>7. SentOnce(e)'
    BY <1>2 DEF SentOnce
  <1>8. NotYet(e)'
    BY DEF NotYet
  <1>9. QED
    BY <1>3, <1>5, <1>6, <1>7, <1>8 DEF Once

(***************************************************************************)
(* What a queue that grows by an event, and its batches, hold of another.  *)
(***************************************************************************)
LEMMA QueuesOnce ==
    ASSUME NEW m \in Memories, NEW n, NEW e, NEW x \in Events, Queues(m, n, x),
           OnceInMemory(m, e), x = e => ~Pending(m, e),
           Batch(m) = <<>>, Batch(n) = <<>>, SameDrain(m, n), n.op = "none"
    PROVE  /\ OnceInMemory(n, e)
           /\ x # e => (Pending(n, e) => Pending(m, e))
  <1>1. PICK s \in Seq(Events) : s = m.queue
    BY FieldTypes
  <1>2. PICK t \in Seq(Events) : t = Append(s, x)
    BY <1>1, AppendFacts
  <1>3. \A y : y \in Range(t) <=> y \in Range(s) \/ y = x
    BY <1>1, <1>2, AppendFacts
  <1>4. /\ e \in Range(s) => ~InFlight(m, e)
        /\ \A b, d \in m.flights : e \in Range(b) /\ e \in Range(d) => b = d
        /\ \A b \in m.flights : Single(b, e)
        /\ Single(s, e) /\ Single(m.unsent, e)
    BY <1>1 DEF OnceInMemory
  <1>5. x = e => e \notin Range(s) /\ ~InFlight(m, e)
    BY <1>1 DEF Pending
  <1>6. Single(t, e)
    BY <1>1, <1>2, <1>4, <1>5, SingleOne
  <1>7. Range(<<>>) = {} /\ Single(<<>>, e)
    BY EmptySeq, SeqFacts, SingleAbsent
  <1>8. CASE n.queue = t /\ n.flights = m.flights
    <2>1. e \in Range(t) => ~InFlight(n, e)
      BY <1>3, <1>4, <1>5, <1>8 DEF InFlight
    <2>2. OnceInMemory(n, e)
      BY <2>1, <1>4, <1>6, <1>7, <1>8 DEF OnceInMemory, SameDrain
    <2>3. x # e => (Pending(n, e) => Pending(m, e))
      BY <1>1, <1>3, <1>8 DEF Pending, InFlight
    <2>4. QED
      BY <2>2, <2>3
  <1>9. CASE n.queue = <<>> /\ n.flights = m.flights \cup {t}
    <2>1. \A b \in n.flights : b = t \/ b \in m.flights
      BY <1>9
    <2>2. e \in Range(t) => \A b \in m.flights : e \notin Range(b)
      BY <1>3, <1>4, <1>5 DEF InFlight
    <2>3. \A b, d \in n.flights : e \in Range(b) /\ e \in Range(d) => b = d
      BY <2>1, <2>2, <1>4
    <2>4. \A b \in n.flights : Single(b, e)
      BY <2>1, <1>4, <1>6
    <2>5. OnceInMemory(n, e)
      BY <2>3, <2>4, <1>4, <1>7, <1>9 DEF OnceInMemory, SameDrain
    <2>6. x # e => (Pending(n, e) => Pending(m, e))
      BY <2>1, <1>1, <1>3, <1>7, <1>9 DEF Pending, InFlight
    <2>7. QED
      BY <2>5, <2>6
  <1>10. QED
    BY <1>1, <1>2, <1>8, <1>9 DEF Queues

(***************************************************************************)
(* An event is recorded.                                                   *)
(***************************************************************************)
LEMMA RecordOnce ==
    ASSUME Shape, NEW p \in Processes, ShapeStep(p), OnceInv, Record(p)
    PROVE  OnceInv'
  <1>1. PICK m, n : m = mem[p] /\ n = mem'[p]
    OBVIOUS
  <1>2. /\ p \in running /\ UNCHANGED <<running, lines, sent, doubtful>>
        /\ m.op = "none" /\ n.op = "none" /\ SameDrain(m, n)
    BY <1>1, RecordEffect DEF disk
  <1>3. PICK x \in Events \ recorded : recorded' = recorded \cup {x} /\ Queues(m, n, x)
    BY <1>1, RecordEffect
  <1>4. Reads(mem[p])'
    BY <1>1, <1>2, OwnReads
  <1>5. m \in Memories /\ Batch(m) = <<>> /\ Batch(n) = <<>> /\ Range(<<>>) = {}
    BY <1>1, <1>2, ActorFacts, EmptySeq, SeqFacts DEF Fit, Batch, AppendOps
  <1>6. ASSUME NEW e \in Events \ doubtful
        PROVE  Once(e)'
    <2>1. Once(e) /\ OnceInMemory(m, e)
      BY <1>1, <1>6 DEF OnceInv, Once
    <2>2. x = e => ~Pending(m, e)
      BY <2>1, <1>1, <1>3 DEF Once, NotYet, InMemory
    <2>3. OnceInMemory(n, e) /\ (x # e => (Pending(n, e) => Pending(m, e)))
      BY <2>1, <2>2, <1>2, <1>3, <1>5, QueuesOnce
    <2>4. CASE x = e
      BY <2>1, <2>3, <2>4, <1>1, <1>2, <1>3, NewOnce
    <2>5. CASE x # e
      <3>1. sent'[e] = sent[e] /\ recorded \subseteq recorded' /\ e \in Events
        BY <1>2, <1>3, <1>6
      <3>2. QED
        BY <3>1, <2>1, <2>3, <2>5, <1>1, <1>2, <1>5, OwnStep
    <2>6. QED
      BY <2>4, <2>5
  <1>7. QED
    BY <1>2, <1>4, <1>6, OnceFromStep

(***************************************************************************)
(* The queue becomes a batch on the network.                               *)
(***************************************************************************)
LEMMA FlushOnce ==
    ASSUME Shape, NEW p \in Processes, ShapeStep(p), OnceInv, Flush(p)
    PROVE  OnceInv'
  <1>1. PICK m, n : m = mem[p] /\ n = mem'[p]
    OBVIOUS
  <1>2. /\ p \in running /\ UNCHANGED <<running, lines, sent, recorded, doubtful>>
        /\ m.op = "none" /\ n.op = "none" /\ SameDrain(m, n)
        /\ n.queue = <<>> /\ n.flights = m.flights \cup {m.queue}
    BY <1>1, FlushEffect DEF disk, ghosts
  <1>3. Reads(mem[p])'
    BY <1>1, <1>2, OwnReads
  <1>4. Batch(n) = <<>> /\ Range(<<>>) = {} /\ \A e : Single(<<>>, e)
    BY <1>2, EmptySeq, SeqFacts, SingleAbsent, ZenonT(40) DEF Batch, AppendOps
  <1>5. ASSUME NEW e \in Events \ doubtful
        PROVE  Once(e)'
    <2>1. Once(e) /\ OnceInMemory(m, e)
      BY <1>1, <1>5 DEF OnceInv, Once
    <2>2. \A b \in n.flights : b = m.queue \/ b \in m.flights
      BY <1>2
    <2>3. \A b, d \in n.flights : e \in Range(b) /\ e \in Range(d) => b = d
      BY <2>1, <2>2 DEF OnceInMemory, InFlight
    <2>4. \A b \in n.flights : Single(b, e)
      BY <2>1, <2>2 DEF OnceInMemory
    <2>5. OnceInMemory(n, e)
      BY <2>1, <2>3, <2>4, <1>2, <1>4 DEF OnceInMemory, SameDrain
    <2>6. Pending(n, e) \/ e \in Range(Batch(n)) => Pending(m, e)
      BY <2>2, <1>2, <1>4 DEF Pending, InFlight
    <2>7. QED
      BY <2>1, <2>5, <2>6, <1>1, <1>2, <1>5, OwnStep
  <1>6. QED
    BY <1>2, <1>3, <1>5, OnceFromStep

(***************************************************************************)
(* The queue becomes the batch of an append.                               *)
(***************************************************************************)
LEMMA ShutsDownOnce ==
    ASSUME Shape, NEW p \in Processes, ShapeStep(p), OnceInv, ShutsDown(p)
    PROVE  OnceInv'
  <1>1. PICK m, n : m = mem[p] /\ n = mem'[p]
    OBVIOUS
  <1>2. /\ p \in running /\ UNCHANGED <<running, lines, sent, recorded, doubtful>>
        /\ m.op = "none" /\ SameDrain(m, n) /\ n.queue = <<>> /\ n.flights = m.flights
        /\ Begins(m, n, m.queue)
    BY <1>1, ShutsDownEffect DEF disk, ghosts
  <1>3. n.op \in {"none", "stat"}
    BY <1>2 DEF Begins
  <1>4. Reads(mem[p])'
    BY <1>1, <1>2, <1>3, OwnReads
  <1>5. Range(<<>>) = {} /\ \A e : Single(<<>>, e)
    BY EmptySeq, SeqFacts, SingleAbsent
  <1>6. Batch(n) = m.queue
    BY <1>2 DEF Begins, Batch, AppendOps
  <1>7. ASSUME NEW e \in Events \ doubtful
        PROVE  Once(e)'
    <2>1. Once(e) /\ OnceInMemory(m, e)
      BY <1>1, <1>7 DEF OnceInv, Once
    <2>2. OnceInMemory(n, e)
      BY <2>1, <1>2, <1>3, <1>5, <1>6 DEF OnceInMemory, SameDrain, Pending, InFlight
    <2>3. Pending(n, e) \/ e \in Range(Batch(n)) => Pending(m, e)
      BY <1>2, <1>5, <1>6 DEF Pending, InFlight
    <2>4. QED
      BY <2>1, <2>2, <2>3, <1>1, <1>2, <1>3, <1>7, OwnStep
  <1>8. QED
    BY <1>2, <1>4, <1>7, OnceFromStep

(***************************************************************************)
(* A batch on the network is answered, or becomes that of an append.       *)
(***************************************************************************)
LEMMA FlushEndsOnce ==
    ASSUME Shape, NEW p \in Processes, ShapeStep(p), OnceInv, FlushEnds(p)
    PROVE  OnceInv'
  <1>1. PICK m, n : m = mem[p] /\ n = mem'[p]
    OBVIOUS
  <1>2. p \in running /\ m.op = "none" /\ SameDrain(m, n) /\ n.queue = m.queue
    BY <1>1, FlushEndsEffect
  <1>3. PICK b \in m.flights, outcome \in {"answered", "unanswered", "failed"} :
          Post(b, outcome) /\ Answers(m, n, b, outcome)
    BY <1>1, FlushEndsEffect
  <1>4. /\ UNCHANGED <<running, lines, recorded>>
        /\ \A e \in Events : sent'[e] = IF outcome # "failed" /\ e \in Range(b)
                                        THEN sent[e] + 1 ELSE sent[e]
        /\ doubtful' = IF outcome = "unanswered" THEN doubtful \cup Range(b) ELSE doubtful
    BY <1>3, PostFacts DEF disk, Shape
  <1>5. n.op \in {"none", "stat"}
    BY <1>3 DEF Answers, Begins
  <1>6. Reads(mem[p])'
    BY <1>1, <1>2, <1>4, <1>5, OwnReads
  <1>7. Range(<<>>) = {} /\ \A e : Single(<<>>, e)
    BY EmptySeq, SeqFacts, SingleAbsent
  <1>8. Batch(n) = <<>> \/ (Batch(n) = b /\ outcome # "answered")
    BY <1>3, <1>5 DEF Answers, Begins, Batch, AppendOps
  <1>9. \A d : d \in n.flights <=> d \in m.flights /\ d # b
    BY <1>3 DEF Answers
  <1>10. ASSUME NEW e \in Events \ doubtful'
         PROVE  Once(e)'
    <2>1. e \in Events \ doubtful
      BY <1>4
    <2>2. Once(e) /\ OnceInMemory(m, e)
      BY <2>1, <1>1 DEF OnceInv, Once
    <2>3. Single(Batch(n), e)
      BY <2>2, <1>3, <1>7, <1>8 DEF OnceInMemory
    <2>4. e \in Range(b) => ~Pending(n, e) /\ Pending(m, e)
      BY <2>2, <1>2, <1>3, <1>9 DEF OnceInMemory, Pending, InFlight
    <2>5. Pending(n, e) => Pending(m, e)
      BY <1>2, <1>9 DEF Pending, InFlight
    <2>6. OnceInMemory(n, e)
      BY <2>2, <2>3, <2>4, <1>2, <1>5, <1>7, <1>8, <1>9
        DEF OnceInMemory, SameDrain, InFlight
    <2>7. CASE outcome = "answered" /\ e \in Range(b)
      <3>1. Pending(m, e) /\ ~InMemory(n, e)
        BY <2>4, <2>7, <1>7, <1>8 DEF InMemory
      <3>2. \A q \in Processes \ {p} : mem'[q] = mem[q] /\ ~InMemory(mem[q], e)
        BY <3>1, <2>2, <1>1, ActorFacts DEF ShapeStep, Frame, Once, Apart, InMemory
      <3>3. \A q \in Processes : OnceInMemory(mem'[q], e) /\ ~InMemory(mem'[q], e)
        BY <3>1, <3>2, <2>2, <2>6, <1>1 DEF Once
      <3>4. sent[e] = 0
        BY <3>1, <2>1, <2>2, <1>1 DEF Once, SentOnce, InMemory, Shape, OutboxTypes
      <3>5. sent'[e] = 1
        BY <3>4, <2>1, <2>7, <1>4
      <3>6. e \in recorded
        BY <3>1, <2>2, <1>1 DEF Once, NotYet, InMemory
      <3>7. \A f \in Files : ~Shows(f, e)
        BY <3>1, <2>2, <1>1 DEF Once, Apart
      <3>8. QED
        BY <3>3, <3>4, <3>5, <3>6, <3>7, <2>1, <2>2, <1>1, <1>2, <1>4, ArrivesOnce
    <2>8. CASE ~(outcome = "answered" /\ e \in Range(b))
      <3>1. sent'[e] = sent[e]
        BY <2>8, <1>3, <1>4, <1>10
      <3>2. Pending(n, e) \/ e \in Range(Batch(n)) => Pending(m, e)
        BY <2>4, <2>5, <1>7, <1>8
      <3>3. QED
        BY <3>1, <3>2, <2>1, <2>2, <2>6, <1>1, <1>2, <1>4, <1>5, OwnStep
    <2>9. QED
      BY <2>7, <2>8
  <1>11. QED
    BY <1>2, <1>6, <1>10, OnceFromStep

(***************************************************************************)
(* An event that is in no memory any more, and in no file but those about  *)
(* to be deleted, lands in a file.                                         *)
(***************************************************************************)
LEMMA LandsOnce ==
    ASSUME Shape, NEW p \in running, ShapeStep(p), NEW e \in Events, Once(e),
           NEW events \in Seq(Events), NEW f \in Target(p), Grows(p, f, events), Single(events, e),
           UNCHANGED <<running, recorded>>, sent'[e] = 0, e \in recorded,
           mem[p].op \notin {"drop", "remove"},
           \A g \in Files : Shows(g, e) => HandedBack(p, g)' /\ place[g] = p,
           \A q \in Processes : OnceInMemory(mem'[q], e) /\ ~InMemory(mem'[q], e)
    PROVE  Once(e)'
  <1>1. /\ f \in Files /\ place[f] # p
        /\ \A g \in Files : lines'[g] = lines[g] \/ (g = f /\ lines'[f] = lines[f] \o events)
    BY GrowsFacts
  <1>2. p \in Processes /\ \A g \in Files : lines[g] \in Seq(Events)
    BY ActorFacts DEF Shape, OutboxTypes
  <1>3. \A q \in Processes \ {p} : mem'[q] = mem[q]
    BY DEF ShapeStep, Frame
  <1>4. \A g \in Files : ~HandedBack(p, g)
    BY DEF HandedBack
  <1>5. \A g \in Files : Doomed(g) => Doomed(g)'
    BY <1>3, <1>4 DEF Doomed, HandedBack
  <1>6. \A g \in Files \ {f} : ~Shows(g, e)'
    <2>1. SUFFICES ASSUME NEW g \in Files \ {f}, Shows(g, e)'
                   PROVE  FALSE
      OBVIOUS
    <2>2. Shows(g, e)
      BY <2>1, <1>1, <1>5 DEF Shows
    <2>3. Doomed(g)'
      BY <2>2, <1>2 DEF Doomed
    <2>4. QED
      BY <2>1, <2>3 DEF Shows
  <1>7. ASSUME NEW g \in Files, ~Doomed(g)'
        PROVE  Single(lines'[g], e)
    <2>1. ~Doomed(g) /\ Single(lines[g], e)
      BY <1>5, <1>7 DEF Once, OnceOnDisk
    <2>2. CASE lines'[g] = lines[g]
      BY <2>1, <2>2
    <2>3. CASE g = f /\ lines'[f] = lines[f] \o events
      <3>1. e \notin Range(lines[f])
        BY <2>1, <2>3, <1>1 DEF Shows
      <3>2. Single(lines[f] \o events, e)
        BY <3>1, <2>1, <2>3, <1>1, <1>2, SingleJoin
      <3>3. QED
        BY <3>2, <2>3
    <2>4. QED
      BY <2>2, <2>3, <1>1
  <1>8. OnceOnDisk(e)'
    BY <1>6, <1>7 DEF OnceOnDisk
  <1>9. \A q \in Processes : OnceInMemory(mem[q], e)' /\ ~InMemory(mem[q], e)'
    BY DEF OnceInMemory, InMemory, Pending, InFlight, Batch
  <1>10. Apart(e)'
    BY <1>9 DEF Apart, InMemory
  <1>11. SentOnce(e)'
    BY DEF SentOnce
  <1>12. NotYet(e)'
    BY DEF NotYet
  <1>13. QED
    BY <1>8, <1>9, <1>10, <1>11, <1>12 DEF Once

(***************************************************************************)
(* The events that an append does not add stay in order.                   *)
(***************************************************************************)
LEMMA MissesOnce ==
    ASSUME Shape, NEW p \in running, ShapeStep(p), NEW e \in Events, Once(e),
           NEW m, m = mem[p], NEW n, n = mem'[p],
           NEW events \in Seq(Events), NEW f \in Target(p), Grows(p, f, events),
           e \notin Range(events), UNCHANGED <<running, recorded, sent>>,
           m.op \in {"write", "restore"}, n.op \in {"none", "remove", "drop"}, Alike(m, n)
    PROVE  Once(e)'
  <1>1. /\ f \in Files /\ place[f] # p
        /\ \A g \in Files : lines'[g] = lines[g] \/ (g = f /\ lines'[f] = lines[f] \o events)
    BY GrowsFacts
  <1>2. p \in Processes /\ \A g \in Files : lines[g] \in Seq(Events)
    BY ActorFacts DEF Shape, OutboxTypes
  <1>3. \A q \in Processes \ {p} : mem'[q] = mem[q]
    BY DEF ShapeStep, Frame
  <1>4. \A g \in Files : ~HandedBack(p, g)
    BY DEF HandedBack
  <1>5. \A g \in Files : Doomed(g) => Doomed(g)'
    BY <1>3, <1>4 DEF Doomed, HandedBack
  <1>6. \A g \in Files : e \in Range(lines'[g]) => e \in Range(lines[g])
    BY <1>1, <1>2, JoinEvents
  <1>7. \A g \in Files : Shows(g, e)' => Shows(g, e)
    BY <1>5, <1>6 DEF Shows
  <1>8. Single(events, e)
    BY SingleAbsent
  <1>9. ASSUME NEW g \in Files, ~Doomed(g)'
        PROVE  Single(lines'[g], e)
    <2>1. Single(lines[g], e)
      BY <1>5, <1>9 DEF Once, OnceOnDisk
    <2>2. CASE lines'[g] = lines[g]
      BY <2>1, <2>2
    <2>3. CASE g = f /\ lines'[f] = lines[f] \o events
      <3>1. Single(lines[f] \o events, e)
        BY <2>1, <2>3, <1>2, <1>8, SingleJoin
      <3>2. QED
        BY <3>1, <2>3
    <2>4. QED
      BY <2>2, <2>3, <1>1
  <1>10. Range(<<>>) = {} /\ Single(<<>>, e) /\ OnceInMemory(m, e)
    BY <1>2, EmptySeq, SeqFacts, SingleAbsent DEF Once
  <1>11. Batch(n) = Batch(m) \/ Batch(n) = <<>>
    BY DEF Batch, Alike, AppendOps
  <1>12. Pending(n, e) <=> Pending(m, e)
    BY DEF Pending, InFlight, Alike
  <1>13. e \in Range(Batch(n)) => e \in Range(Batch(m)) /\ m.carried \subseteq n.carried
    BY <1>10, <1>11 DEF Alike
  <1>14. OnceInMemory(n, e)
    BY <1>10, <1>11, <1>12, <1>13 DEF OnceInMemory, InFlight, Alike
  <1>15. ASSUME NEW g \in Files, SentFrom(mem[p], g, e)
         PROVE  SentFrom(mem[p], g, e)'
    <2>1. place[g] = p
      BY <1>15, SentFacts
    <2>2. lines'[g] = lines[g]
      BY <2>1, <1>1
    <2>3. QED
      BY <2>2, <1>15 DEF SentFrom, Alike
  <1>16. QED
    BY <1>2, <1>6, <1>7, <1>9, <1>12, <1>13, <1>14, <1>15, OnceLess

(***************************************************************************)
(* An append reads nothing.                                                *)
(***************************************************************************)
LEMMA AppendReads ==
    ASSUME Shape, NEW p \in running, OnceInv, NEW m, m = mem[p], NEW n, n = mem'[p],
           NEW events \in Seq(Events), NEW f \in Target(p), Grows(p, f, events),
           n.op \in {"none", "remove", "drop"}, Alike(m, n)
    PROVE  Reads(mem[p])'
  <1>1. /\ place[f] # p
        /\ \A g \in Files : lines'[g] = lines[g] \/ (g = f /\ lines'[f] = lines[f] \o events)
    BY GrowsFacts
  <1>2. \A g \in Claims(m) : lines'[g] = lines[g]
    BY <1>1, OwnFiles
  <1>3. QED
    BY <1>2, ReadsLess DEF OnceInv, Alike

(***************************************************************************)
(* A batch is written.                                                     *)
(***************************************************************************)
LEMMA WriteOnce ==
    ASSUME Shape, NEW p \in Processes, ShapeStep(p), OnceInv, Write(p)
    PROVE  OnceInv'
  <1>1. PICK m, n : m = mem[p] /\ n = mem'[p]
    OBVIOUS
  <1>2. p \in running /\ m.op = "write" /\ AppendTo(p, m.batch, Releasing(m))
    BY <1>1 DEF Write, Doing
  <1>3. PICK events : events = m.batch
    OBVIOUS
  <1>4. PICK f \in Target(p) : Grows(p, f, events)
    BY <1>2, <1>3, Zenon, AppendToFacts
  <1>5. UNCHANGED <<running, recorded, sent, doubtful>>
    BY <1>2, Zenon, AppendToFacts
  <1>6. Alike(m, n) /\ n.op = Releasing(m)
    BY <1>1, <1>2, AppendToEffect
  <1>7. m \in Memories /\ Phase(m) /\ events \in Seq(Events) /\ n.op \in {"none", "remove"}
    BY <1>1, <1>2, <1>3, <1>6, ActorFacts, FieldTypes DEF Fit, Releasing
  <1>8. Reads(mem[p])'
    BY <1>1, <1>2, <1>4, <1>6, <1>7, AppendReads
  <1>9. Batch(m) = events /\ Batch(n) = <<>>
    BY <1>2, <1>3, <1>7 DEF Batch, AppendOps
  <1>10. ASSUME NEW e \in Events \ doubtful
         PROVE  Once(e)'
    <2>1. Once(e) /\ OnceInMemory(m, e)
      BY <1>1, <1>10 DEF OnceInv, Once
    <2>2. CASE e \notin Range(events)
      BY <2>1, <2>2, <1>1, <1>2, <1>4, <1>5, <1>6, <1>7, <1>10, MissesOnce
    <2>3. CASE e \in Range(events)
      <3>1. InMemory(m, e) /\ ~Pending(m, e)
        BY <2>1, <2>3, <1>9 DEF InMemory, OnceInMemory
      <3>2. sent'[e] = 0 /\ e \in recorded
        BY <3>1, <2>1, <1>1, <1>5, <1>10 DEF Once, SentOnce, NotYet, Shape, OutboxTypes
      <3>3. Range(<<>>) = {} /\ Single(<<>>, e)
        BY EmptySeq, SeqFacts, SingleAbsent
      <3>4. Pending(n, e) <=> Pending(m, e)
        BY <1>6 DEF Pending, InFlight, Alike
      <3>5. OnceInMemory(n, e) /\ ~InMemory(n, e)
        BY <2>1, <3>1, <3>3, <3>4, <1>6, <1>7, <1>9 DEF OnceInMemory, InFlight, InMemory, Alike
      <3>6. \A q \in Processes \ {p} : mem'[q] = mem[q] /\ ~InMemory(mem[q], e)
        BY <3>1, <2>1, <1>1 DEF ShapeStep, Frame, Once, Apart
      <3>7. \A q \in Processes : OnceInMemory(mem'[q], e) /\ ~InMemory(mem'[q], e)
        BY <3>5, <3>6, <2>1, <1>1 DEF Once
      <3>8. ASSUME NEW g \in Files, Shows(g, e)
            PROVE  HandedBack(p, g)' /\ place[g] = p
        <4>1. g \in m.carried
          BY <3>8, <2>1, <2>3, <1>1, <1>9 DEF Once, Apart
        <4>2. place[g] = p
          BY <4>1, <1>1, <1>2, OwnFiles DEF Claims
        <4>3. n.op = "remove" /\ g \in n.carried
          BY <4>1, <1>6, <1>7 DEF Phase, Releasing, Alike
        <4>4. QED
          BY <4>2, <4>3, <1>1 DEF HandedBack
      <3>9. Single(events, e)
        BY <2>1, <1>9 DEF OnceInMemory
      <3>10. QED
        BY <3>2, <3>7, <3>8, <3>9, <2>1, <1>1, <1>2, <1>4, <1>5, <1>7, <1>10, LandsOnce
    <2>4. QED
      BY <2>2, <2>3
  <1>11. QED
    BY <1>5, <1>8, <1>10, OnceFromStep

(***************************************************************************)
(* What a compaction keeps is written.                                     *)
(***************************************************************************)
LEMMA RestoreOnce ==
    ASSUME Shape, NEW p \in Processes, ShapeStep(p), OnceInv, Restore(p)
    PROVE  OnceInv'
  <1>1. PICK m, n : m = mem[p] /\ n = mem'[p]
    OBVIOUS
  <1>2. p \in running /\ m.op = "restore" /\ AppendTo(p, m.kept, "drop")
    BY <1>1 DEF Restore, Doing
  <1>3. PICK events : events = m.kept
    OBVIOUS
  <1>4. PICK f \in Target(p) : Grows(p, f, events)
    BY <1>2, <1>3, Zenon, AppendToFacts
  <1>5. UNCHANGED <<running, recorded, sent, doubtful>>
    BY <1>2, Zenon, AppendToFacts
  <1>6. Alike(m, n) /\ n.op = "drop" /\ n.seized = m.seized
    BY <1>1, <1>2, AppendToEffect
  <1>7. m \in Memories /\ events \in Seq(Events)
    BY <1>1, <1>2, <1>3, ActorFacts, FieldTypes DEF Fit
  <1>8. PICK s \in Files : s = m.seized /\ place[s] = p /\ s \notin Claims(m)
    BY <1>1, <1>2, OwnFiles DEF Compacting
  <1>9. Reads(mem[p])'
    BY <1>1, <1>2, <1>4, <1>6, <1>7, AppendReads
  <1>10. ~Doomed(s)
    <2>1. ~HandedBack(p, s)
      BY <1>1, <1>2 DEF HandedBack
    <2>2. QED
      BY <2>1, <1>2, <1>8, OwnDoomed
  <1>11. Range(events) \subseteq Range(lines[s])
    BY <1>1, <1>2, <1>3, <1>8 DEF OnceInv, Reads
  <1>12. Batch(n) = Batch(m)
    BY <1>2, <1>6 DEF Batch, AppendOps, Alike
  <1>13. ASSUME NEW e \in Events \ doubtful
         PROVE  Once(e)'
    <2>1. Once(e) /\ OnceInMemory(m, e)
      BY <1>1, <1>13 DEF OnceInv, Once
    <2>2. CASE e \notin Range(events)
      BY <2>1, <2>2, <1>1, <1>2, <1>4, <1>5, <1>6, <1>7, <1>13, MissesOnce
    <2>3. CASE e \in Range(events)
      <3>1. Shows(s, e)
        BY <2>3, <1>10, <1>11 DEF Shows
      <3>2. \A q \in running : s \notin Claims(mem[q])
        <4>1. SUFFICES ASSUME NEW q \in running, s \in Claims(mem[q])
                       PROVE  FALSE
          OBVIOUS
        <4>2. q = p
          BY <4>1, <1>8, OwnFiles
        <4>3. QED
          BY <4>1, <4>2, <1>1, <1>8
      <3>3. ASSUME NEW q \in Processes
            PROVE  ~InMemory(mem[q], e)
        <4>1. ~Pending(mem[q], e) /\ (e \in Range(Batch(mem[q])) => s \in mem[q].carried)
          BY <3>1, <2>1 DEF Once, Apart
        <4>2. q \notin running => mem[q].carried = {}
          BY DEF Shape, Phases, Blank
        <4>3. s \notin mem[q].carried
          BY <4>2, <3>2 DEF Claims
        <4>4. QED
          BY <4>1, <4>3 DEF InMemory
      <3>4. sent[e] # 1
        <4>1. SUFFICES ASSUME sent[e] = 1
                       PROVE  FALSE
          OBVIOUS
        <4>2. PICK q \in running : SentFrom(mem[q], s, e)
          BY <4>1, <3>1, <2>1 DEF Once, SentOnce
        <4>3. QED
          BY <4>2, <3>2, SentFacts
      <3>5. sent'[e] = 0 /\ e \in recorded
        BY <3>1, <3>4, <2>1, <1>5, <1>13 DEF Once, SentOnce, NotYet, Shape, OutboxTypes, Shows
      <3>6. Pending(n, e) <=> Pending(m, e)
        BY <1>6 DEF Pending, InFlight, Alike
      <3>7. OnceInMemory(n, e) /\ ~InMemory(n, e)
        BY <2>1, <3>3, <3>6, <1>1, <1>6, <1>12 DEF OnceInMemory, InFlight, InMemory, Alike
      <3>8. \A q \in Processes : OnceInMemory(mem'[q], e) /\ ~InMemory(mem'[q], e)
        BY <3>3, <3>7, <2>1, <1>1 DEF Once, ShapeStep, Frame
      <3>9. ASSUME NEW g \in Files, Shows(g, e)
            PROVE  HandedBack(p, g)' /\ place[g] = p
        <4>1. g = s
          BY <3>1, <3>9, <2>1 DEF Once, OnceOnDisk
        <4>2. QED
          BY <4>1, <1>1, <1>6, <1>8 DEF HandedBack
      <3>10. Single(events, e)
        BY <2>1, <1>2, <1>3 DEF OnceInMemory
      <3>11. QED
        BY <3>5, <3>8, <3>9, <3>10, <2>1, <1>1, <1>2, <1>4, <1>5, <1>7, <1>13, LandsOnce
    <2>4. QED
      BY <2>2, <2>3
  <1>14. QED
    BY <1>5, <1>9, <1>13, OnceFromStep

(***************************************************************************)
(* A compaction drops its claim.                                           *)
(***************************************************************************)
LEMMA DropOnce ==
    ASSUME Shape, NEW p \in Processes, ShapeStep(p), OnceInv, Drop(p)
    PROVE  OnceInv'
  <1>1. PICK m, n : m = mem[p] /\ n = mem'[p]
    OBVIOUS
  <1>2. /\ p \in running /\ Alike(m, n) /\ m.op = "drop" /\ n.op \in {"open", "write"}
        /\ UNCHANGED <<running, recorded, sent, doubtful>>
        /\ lines' = [lines EXCEPT ![m.seized] = <<>>]
    BY <1>1, DropEffect
  <1>3. PICK s \in Files : s = m.seized /\ s \notin Claims(m)
    BY <1>1, <1>2, OwnFiles DEF Compacting
  <1>4. lines'[s] = <<>> /\ \A g \in Files \ {s} : lines'[g] = lines[g]
    BY <1>2, <1>3 DEF Shape, OutboxTypes
  <1>5. \A g \in Claims(m) : lines'[g] = lines[g]
    BY <1>1, <1>2, <1>3, <1>4, OwnFiles
  <1>6. Reads(mem[p])'
    BY <1>1, <1>2, <1>5, ReadsLess DEF OnceInv, Alike
  <1>7. \A q \in Processes \ {p} : mem'[q] = mem[q]
    BY DEF ShapeStep, Frame
  <1>8. \A g \in Files \ {s} : Doomed(g) => Doomed(g)'
    <2>1. \A g \in Files \ {s} : ~HandedBack(p, g)
      BY <1>1, <1>2, <1>3 DEF HandedBack
    <2>2. QED
      BY <2>1, <1>7 DEF Doomed, HandedBack
  <1>9. Range(<<>>) = {} /\ \A e : Single(<<>>, e)
    BY EmptySeq, SeqFacts, SingleAbsent
  <1>10. Batch(n) = Batch(m)
    BY <1>2 DEF Batch, AppendOps, Alike
  <1>11. ASSUME NEW e \in Events \ doubtful
         PROVE  Once(e)'
    <2>1. Once(e) /\ OnceInMemory(m, e)
      BY <1>1, <1>11 DEF OnceInv, Once
    <2>2. \A g \in Files : e \in Range(lines'[g]) => e \in Range(lines[g])
      BY <1>4, <1>9
    <2>3. \A g \in Files : Shows(g, e)' => Shows(g, e)
      BY <1>4, <1>8, <1>9 DEF Shows
    <2>4. \A g \in Files : ~Doomed(g)' => Single(lines'[g], e)
      BY <2>1, <1>4, <1>8, <1>9 DEF Once, OnceOnDisk
    <2>5. Pending(n, e) <=> Pending(m, e)
      BY <1>2 DEF Pending, InFlight, Alike
    <2>6. OnceInMemory(n, e)
      BY <2>1, <2>5, <1>2, <1>10 DEF OnceInMemory, InFlight, Alike
    <2>7. ASSUME NEW g \in Files, SentFrom(mem[p], g, e)
          PROVE  SentFrom(mem[p], g, e)'
      <3>1. lines'[g] = lines[g]
        BY <2>7, <1>1, <1>2, <1>5, SentFacts
      <3>2. QED
        BY <3>1, <2>7, <1>1, <1>2 DEF SentFrom, Alike
    <2>8. m.carried = n.carried
      BY <1>2 DEF Alike
    <2>9. QED
      BY <2>1, <2>2, <2>3, <2>4, <2>5, <2>6, <2>7, <2>8, <1>1, <1>2, <1>10, <1>11, OnceLess
  <1>12. QED
    BY <1>2, <1>6, <1>11, OnceFromStep

(***************************************************************************)
(* A process ends: what it had sent, or handed back, and not deleted is in *)
(* doubt.                                                                  *)
(***************************************************************************)
LEMMA EndsOnce ==
    ASSUME Shape, NEW p \in running, ShapeStep(p), OnceInv, Ends(p)
    PROVE  OnceInv'
  <1>1. /\ mem'[p] = Blank /\ running' = running \ {p} /\ p \in Processes
        /\ doubtful' = doubtful \cup LeftHalfDone(p)
        /\ UNCHANGED <<disk, recorded, sent>>
    BY EndsEffect
  <1>2. UNCHANGED lines /\ p \notin running'
    BY <1>1 DEF disk
  <1>3. PICK m, n : m = mem[p] /\ n = mem'[p]
    OBVIOUS
  <1>4. \A q \in Processes \ {p} : mem'[q] = mem[q]
    BY DEF ShapeStep, Frame
  <1>5. Range(<<>>) = {} /\ \A e : Single(<<>>, e)
    BY EmptySeq, SeqFacts, SingleAbsent
  <1>6. \A e : OnceInMemory(n, e) /\ ~Pending(n, e) /\ e \notin Range(Batch(n))
    BY <1>1, <1>3, <1>5 DEF OnceInMemory, Pending, InFlight, Batch, Blank, AppendOps
  <1>7. ASSUME NEW e \in Events \ doubtful'
        PROVE  Once(e)'
    <2>1. e \in Events \ doubtful /\ e \notin LeftHalfDone(p)
      BY <1>1
    <2>2. Once(e)
      BY <2>1 DEF OnceInv
    <2>3. \A f \in Files : place[f] = p /\ e \in Range(lines[f]) =>
            ~HandedBack(p, f) /\ ~(sent[e] > 0)
      BY <2>1 DEF LeftHalfDone, HeldBy
    <2>4. \A f \in Files : HandedBack(p, f) => e \notin Range(lines[f])
      BY <2>3, <1>1, DoomedFacts
    <2>5. \A f \in Files : Doomed(f) => Doomed(f)' \/ HandedBack(p, f)
      BY <1>4 DEF Doomed, HandedBack
    <2>6. \A f \in Files : Shows(f, e)' => Shows(f, e)
      BY <2>4, <2>5, <1>2 DEF Shows
    <2>7. ASSUME NEW f \in Files, ~Doomed(f)'
          PROVE  Single(lines'[f], e)
      <3>1. CASE HandedBack(p, f)
        BY <3>1, <2>4, <1>2, SingleAbsent DEF Shape, OutboxTypes
      <3>2. CASE ~HandedBack(p, f)
        BY <3>2, <2>2, <2>5, <2>7, <1>2 DEF Once, OnceOnDisk
      <3>3. QED
        BY <3>1, <3>2
    <2>8. \A f \in Files : ~(Shows(f, e)' /\ sent[e] = 1 /\ SentFrom(mem[p], f, e))
      <3>1. SUFFICES ASSUME NEW f \in Files, Shows(f, e)', sent[e] = 1, SentFrom(mem[p], f, e)
                     PROVE  FALSE
        OBVIOUS
      <3>2. place[f] = p /\ e \in Range(lines[f])
        BY <3>1, <2>6, SentFacts DEF Shows
      <3>3. QED
        BY <3>1, <3>2, <2>3
    <2>9. QED
      BY <2>1, <2>2, <2>6, <2>7, <2>8, <1>1, <1>2, <1>3, <1>6, OnceLess
  <1>8. QED
    BY <1>1, <1>2, <1>7, OnceFromStep

(***************************************************************************)
(* Every step of a process.                                                *)
(***************************************************************************)
LEMMA OnceNext ==
    ASSUME Shape, OnceInv, NEW p \in Processes,
           \/ Starts(p) \/ ListClaims(p) \/ TakeClaim(p) \/ TakeLive(p) \/ ReadClaim(p) \/ Bound(p)
           \/ DrainSends(p) \/ CarryTail(p) \/ HandBack(p) \/ RemoveClaim(p) \/ Released(p)
           \/ Record(p) \/ Flush(p) \/ FlushEnds(p)
           \/ Stat(p) \/ Open(p) \/ Write(p) \/ Restore(p) \/ WriteFails(p)
           \/ Seize(p) \/ Inspect(p) \/ ReadTail(p) \/ Drop(p)
           \/ ShutsDown(p) \/ Leaves(p) \/ IsKilled(p)
    PROVE  OnceInv'
  <1>1. ShapeStep(p)
    BY ShapeNext
  <1>2. CASE \/ ListClaims(p) \/ TakeClaim(p) \/ TakeLive(p) \/ Released(p)
             \/ Stat(p) \/ Open(p) \/ Seize(p) \/ WriteFails(p)
    BY <1>1, <1>2, QuietStepsOnce
  <1>3. CASE Starts(p) \/ Inspect(p) \/ ReadTail(p) \/ Drop(p)
    BY <1>1, <1>3, StartsOnce, InspectOnce, ReadTailOnce, DropOnce
  <1>4. CASE ReadClaim(p) \/ Bound(p) \/ DrainSends(p) \/ CarryTail(p)
    BY <1>1, <1>4, ReadClaimOnce, BoundOnce, DrainSendsOnce, CarryTailOnce
  <1>5. CASE HandBack(p) \/ RemoveClaim(p) \/ Write(p) \/ Restore(p)
    BY <1>1, <1>5, HandBackOnce, RemoveClaimOnce, WriteOnce, RestoreOnce
  <1>6. CASE Record(p) \/ Flush(p) \/ FlushEnds(p) \/ ShutsDown(p)
    BY <1>1, <1>6, RecordOnce, FlushOnce, FlushEndsOnce, ShutsDownOnce
  <1>7. CASE Leaves(p) \/ IsKilled(p)
    <2>1. p \in running /\ Ends(p)
      BY <1>7 DEF Leaves, Idle, Doing, IsKilled
    <2>2. QED
      BY <1>1, <2>1, EndsOnce
  <1>8. QED
    BY <1>2, <1>3, <1>4, <1>5, <1>6, <1>7

(***************************************************************************)
(* What an earlier process left is in one file, once.                      *)
(***************************************************************************)
LEMMA InitOnce ==
    ASSUME OutboxInit
    PROVE  OnceInv
  <1>1. /\ running = {} /\ mem = [q \in Processes |-> Blank]
        /\ lines = [f \in Files |-> IF f = 1 THEN Left ELSE <<>>]
        /\ recorded = Range(Left) /\ sent = [e \in Events |-> 0]
    BY DEF OutboxInit
  <1>2. Range(<<>>) = {} /\ \A e : Single(<<>>, e)
    BY EmptySeq, SeqFacts, SingleAbsent
  <1>3. \A e : Single(Left, e)
    BY OutboxAssumption DEF Single
  <1>4. \A f \in Files : \A e \in Range(lines[f]) : f = 1 /\ e \in recorded
    BY <1>1, <1>2
  <1>5. ASSUME NEW e \in Events
        PROVE  Once(e)
    <2>1. \A q \in Processes : OnceInMemory(mem[q], e) /\ ~InMemory(mem[q], e)
      BY <1>1, <1>2 DEF OnceInMemory, InMemory, Pending, InFlight, Batch, Blank, AppendOps
    <2>2. OnceOnDisk(e)
      BY <1>1, <1>2, <1>3, <1>4 DEF OnceOnDisk, Shows
    <2>3. Apart(e)
      <3>1. \A q \in Processes : ~Pending(mem[q], e) /\ e \notin Range(Batch(mem[q]))
        BY <2>1 DEF InMemory
      <3>2. QED
        BY <2>1, <3>1 DEF Apart
    <2>4. SentOnce(e) /\ NotYet(e)
      BY <2>1, <1>1, <1>4 DEF SentOnce, NotYet
    <2>5. QED
      BY <2>1, <2>2, <2>3, <2>4 DEF Once
  <1>6. QED
    BY <1>1, <1>5 DEF OnceInv

(***************************************************************************)
(* The invariants imply OutboxInv.                                         *)
(***************************************************************************)
LEMMA OnceCounts ==
    ASSUME Shape, OnceInv
    PROVE  OutboxInv
  <1>1. /\ running \subseteq pids /\ pids \subseteq Processes
        /\ place \in [Files -> Processes \cup {"live", "gone"}]
        /\ \A f \in Files : lines[f] \in Seq(Events)
        /\ \A f, g \in Live : f = g
        /\ \A f \in Files : place[f] = "gone" => lines[f] = <<>>
    BY DEF Shape, OutboxTypes, Disk
  <1>2. ASSUME NEW p \in running
        PROVE  /\ Claims(mem[p]) \cup ({mem[p].seized} \ {0}) \subseteq HeldBy(p)
               /\ Range(mem[p].unsent) \subseteq UNION {Range(lines[f]) : f \in HeldBy(p)}
    <2>1. PICK m : m = mem[p] /\ Reads(m)
      BY DEF OnceInv
    <2>2. \A f \in Claims(m) : f \in HeldBy(p)
      BY <2>1, OwnFiles DEF HeldBy
    <2>3. m.seized # 0 => m.seized \in HeldBy(p)
      BY <2>1, OwnFiles DEF HeldBy
    <2>4. ASSUME NEW e \in Range(m.unsent)
          PROVE  \E f \in HeldBy(p) : e \in Range(lines[f])
      <3>1. CASE \E f \in m.carried : e \in Range(lines[f])
        BY <3>1, <2>2 DEF Claims
      <3>2. CASE \E c \in m.consumed : e \in Range(First(lines[c.file], c.bytes))
        <4>1. PICK c \in m.consumed : e \in Range(First(lines[c.file], c.bytes))
          BY <3>2
        <4>2. c.file \in HeldBy(p) /\ c.file \in Files /\ c.bytes \in Nat
          BY <4>1, <2>1, OwnFiles DEF HeldBy
        <4>3. e \in Range(lines[c.file])
          BY <4>1, <4>2, <1>1, CutEvents
        <4>4. QED
          BY <4>2, <4>3
      <3>3. QED
        BY <3>1, <3>2, <2>1 DEF Reads
    <2>5. QED
      BY <2>1, <2>2, <2>3, <2>4
  <1>3. SentTwiceForAReason
    <2>1. \A e \in Events \ doubtful : sent[e] \in Nat /\ sent[e] <= 1
      BY DEF OnceInv, Once, SentOnce, Shape, OutboxTypes
    <2>2. QED
      BY <2>1 DEF SentTwiceForAReason
  <1>4. QED
    BY <1>1, <1>2, <1>3 DEF OutboxInv, OutboxTypeOK

(***************************************************************************)
(* The files and queues stay well formed, and no event is sent twice but   *)
(* when the answer to a POST was lost or its process ended halfway, for    *)
(* any processes, events and bounds.                                       *)
(***************************************************************************)
THEOREM NothingIsSentTwice == OutboxSpec => []OutboxInv
  <1>1. OutboxInit => OnceInv
    BY InitOnce
  <1>2. Shape /\ OnceInv /\ [OutboxNext]_outboxVars => OnceInv'
    <2> SUFFICES ASSUME Shape, OnceInv, [OutboxNext]_outboxVars
                 PROVE  OnceInv'
      OBVIOUS
    <2>1. CASE OutboxNext
      <3>1. PICK p \in Processes :
              \/ Starts(p) \/ ListClaims(p) \/ TakeClaim(p) \/ TakeLive(p) \/ ReadClaim(p) \/ Bound(p)
              \/ DrainSends(p) \/ CarryTail(p) \/ HandBack(p) \/ RemoveClaim(p) \/ Released(p)
              \/ Record(p) \/ Flush(p) \/ FlushEnds(p)
              \/ Stat(p) \/ Open(p) \/ Write(p) \/ Restore(p) \/ WriteFails(p)
              \/ Seize(p) \/ Inspect(p) \/ ReadTail(p) \/ Drop(p)
              \/ ShutsDown(p) \/ Leaves(p) \/ IsKilled(p)
        BY <2>1 DEF OutboxNext
      <3>2. QED
        BY <3>1, OnceNext
    <2>2. CASE UNCHANGED outboxVars
      <3>1. UNCHANGED <<running, mem, lines, recorded, sent, doubtful>>
        BY <2>2 DEF outboxVars, disk, ghosts
      <3>2. ASSUME NEW q \in running
            PROVE  Reads(mem[q])'
        BY <3>1 DEF OnceInv, Reads
      <3>3. ASSUME NEW e \in Events \ doubtful
            PROVE  Once(e)'
        <4>1. Once(e)
          BY DEF OnceInv
        <4>2. \A f \in Files : Shows(f, e)' <=> Shows(f, e)
          BY <3>1 DEF Shows, Doomed, HandedBack
        <4>3. \A q \in Processes : OnceInMemory(mem[q], e)'
          BY <3>1, <4>1 DEF Once, OnceInMemory, Pending, InFlight, Batch
        <4>4. OnceOnDisk(e)'
          BY <3>1, <4>1, <4>2 DEF Once, OnceOnDisk, Doomed, HandedBack
        <4>5. Apart(e)'
          BY <3>1, <4>1, <4>2 DEF Once, Apart, InMemory, Pending, InFlight, Batch
        <4>6. SentOnce(e)'
          BY <3>1, <4>1, <4>2 DEF Once, SentOnce, InMemory, Pending, InFlight, Batch, SentFrom
        <4>7. NotYet(e)'
          BY <3>1, <4>1 DEF Once, NotYet, InMemory, Pending, InFlight, Batch
        <4>8. QED
          BY <4>3, <4>4, <4>5, <4>6, <4>7 DEF Once
      <3>4. QED
        BY <3>1, <3>2, <3>3 DEF OnceInv
    <2>3. QED
      BY <2>1, <2>2
  <1>3. Shape /\ OnceInv => OutboxInv
    BY OnceCounts
  <1>4. QED
    BY OutboxShape, <1>1, <1>2, <1>3, PTL DEF OutboxSpec
=============================================================================
