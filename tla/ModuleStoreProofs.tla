------------------------- MODULE ModuleStoreProofs -------------------------
(***************************************************************************)
(* Proofs about ModuleStore, for any number of processes, versions, abis   *)
(* and mishaps.                                                            *)
(***************************************************************************)
EXTENDS ModuleStore, TLAPS

(***************************************************************************)
(* The inductive invariant.  A process is in synchronous code for its      *)
(* installation or for its boot, never for both; some of the file          *)
(* operations belong to one of them alone.                                 *)
(***************************************************************************)
Busy(p) ==
    /\ fs[p] # "idle" <=> job[p] = "installing" \/ at[p] = "loading"
    /\ ~(job[p] = "installing" /\ at[p] = "loading")
    /\ fs[p] \in {"place", "placeFailed", "clear", "clearFailed", "flip", "list", "prune"}
           => job[p] = "installing"
    /\ fs[p] \in {"verify", "compare"} => at[p] = "loading"
    /\ at[p] = "starting" => job[p] = "none"

(***************************************************************************)
(* It works on a version, and a boot that works on one has found a         *)
(* pointer, which is never taken away.                                     *)
(***************************************************************************)
Aims(p) ==
    /\ job[p] # "none" => goal[p] \in Versions
    /\ at[p] = "loading" => want[p] \in Versions
    /\ want[p] # 0 => pointer # 0

(***************************************************************************)
(* A session without a reason to skip its module runs one that fits.       *)
(***************************************************************************)
GateHolds(p) ==
    at[p] \in {"serving", "settled"} /\ skip[p] = "none" /\ want[p] # 0 => Fits(p, want[p])

(***************************************************************************)
(* A tree without a manifest was left by a prune or put back.              *)
(***************************************************************************)
BareIsKnown == \A v \in Versions : tree[v] = "bare" => v \in strays \cup returned

(***************************************************************************)
(* The version that the pointer names, or is about to name, leads          *)
(* somewhere.                                                              *)
(***************************************************************************)
PointerLeads == \A v \in Versions : pointer = v => LeadsSomewhere(v)

FlipLeads(p) ==
    \A v \in Versions : fs[p] \in {"clear", "flip"} /\ goal[p] = v => LeadsSomewhere(v)

(***************************************************************************)
(* While a boot swaps a tree, what it finds in its place is good, or its   *)
(* history says why not.                                                   *)
(***************************************************************************)
Gap == {"swap", "swapFailed", "restore"}

Good(v) == tree[v] \in {"absent", "whole"} \/ v \in strays \cup returned

SwapsGood(p) ==
    \A v \in Versions : at[p] = "loading" /\ fs[p] \in Gap /\ want[p] = v => Good(v)

ProcessInv(p) == Busy(p) /\ Aims(p) /\ GateHolds(p) /\ FlipLeads(p) /\ SwapsGood(p)

IInv == TypeOK /\ BareIsKnown /\ PointerLeads /\ \A p \in Pids : ProcessInv(p)

-----------------------------------------------------------------------------
(* What a step leaves as it is. *)

(***************************************************************************)
(* The same for process q before and after.                                *)
(***************************************************************************)
Same(q) ==
    /\ fs'[q] = fs[q] /\ at'[q] = at[q] /\ want'[q] = want[q]
    /\ job'[q] = job[q] /\ goal'[q] = goal[q] /\ skip'[q] = skip[q]

(***************************************************************************)
(* A step of p needs an argument only for p, if what led somewhere still   *)
(* does, and what was good still is.                                       *)
(***************************************************************************)
LEMMA ProcessStep ==
    ASSUME IInv, NEW p \in Pids, TypeOK', \A q \in Pids \ {p} : Same(q),
           BareIsKnown',
           \A v \in Versions : /\ LeadsSomewhere(v) => LeadsSomewhere(v)'
                               /\ Good(v) => Good(v)'
                               /\ pointer' = v => pointer = v \/ LeadsSomewhere(v)',
           pointer' = 0 => pointer = 0,
           ProcessInv(p)'
    PROVE  IInv'
<1>1. PointerLeads'
  BY DEF PointerLeads, IInv
<1>2. ASSUME NEW q \in Pids PROVE ProcessInv(q)'
  <2>1. CASE q = p
    BY <2>1
  <2>2. CASE q # p
    <3>1. Same(q) /\ ProcessInv(q)
      BY <2>2 DEF IInv
    <3>2. Busy(q)' /\ Aims(q)' /\ GateHolds(q)'
      BY <3>1 DEF Same, ProcessInv, Busy, Aims, GateHolds, Fits
    <3>3. ASSUME NEW v \in Versions, fs'[q] \in {"clear", "flip"}, goal'[q] = v
        PROVE  LeadsSomewhere(v)'
      BY <3>1, <3>3 DEF Same, ProcessInv, FlipLeads
    <3>4. ASSUME NEW v \in Versions, at'[q] = "loading", fs'[q] \in Gap, want'[q] = v
          PROVE  Good(v)'
      BY <3>1, <3>4 DEF Same, ProcessInv, SwapsGood
    <3>5. FlipLeads(q)' /\ SwapsGood(q)'
      BY <3>3, <3>4 DEF FlipLeads, SwapsGood
    <3>6. QED
      BY <3>2, <3>5 DEF ProcessInv
  <2>3. QED
    BY <2>1, <2>2
<1>3. QED
  BY <1>1, <1>2 DEF IInv

(***************************************************************************)
(* Who swaps version v still does, but for p.                              *)
(***************************************************************************)
LEMMA StillSwapping ==
    ASSUME NEW p \in Pids, \A q \in Pids \ {p} : Same(q), NEW v \in Versions,
           \E q \in Pids : Swapping(q, v)
    PROVE  Swapping(p, v) \/ (\E q \in Pids : Swapping(q, v))'
<1>1. PICK q \in Pids : Swapping(q, v)
  OBVIOUS
<1>2. CASE q = p
  BY <1>1, <1>2
<1>3. CASE q # p
  <2>1. Swapping(q, v)'
    BY <1>1, <1>3 DEF Same, Swapping, Subject
  <2>2. QED
    BY <2>1
<1>4. QED
  BY <1>2, <1>3

(***************************************************************************)
(* A version that led somewhere still does, if the step does not touch it  *)
(* and its process does not swap it.                                       *)
(***************************************************************************)
LEMMA LeadsKept ==
    ASSUME NEW p \in Pids, \A q \in Pids \ {p} : Same(q), NEW w \in Versions,
           LeadsSomewhere(w), ~Swapping(p, w), tree'[w] = tree[w],
           w \in strays \cup returned => w \in strays' \cup returned'
    PROVE  LeadsSomewhere(w)'
<1>1. CASE \E q \in Pids : Swapping(q, w)
  BY <1>1, StillSwapping DEF LeadsSomewhere
<1>2. CASE ~\E q \in Pids : Swapping(q, w)
  BY <1>2 DEF LeadsSomewhere
<1>3. QED
  BY <1>1, <1>2

(***************************************************************************)
(* A directory with a manifest in it leads somewhere; others are known.    *)
(***************************************************************************)
LEMMA TreeLeads ==
    ASSUME IInv, NEW v \in Versions, tree[v] # "absent", tree'[v] = tree[v],
           strays \subseteq strays', returned \subseteq returned'
    PROVE  LeadsSomewhere(v)'
  BY DEF LeadsSomewhere, IInv, BareIsKnown

(***************************************************************************)
(* Things go wrong no more often than the bound allows.                    *)
(***************************************************************************)
LEMMA MishapFacts ==
    ASSUME IInv, Mishap \/ UNCHANGED mishaps
    PROVE  mishaps' \in 0 .. MaxMishaps
  BY StoreAssumption DEF Mishap, IInv, TypeOK

(***************************************************************************)
(* A step of a process that has nothing renamed away, or keeps it so, and  *)
(* leaves the disk alone.                                                  *)
(***************************************************************************)
LEMMA DiskStays ==
    ASSUME IInv, NEW p \in Pids, TypeOK', \A q \in Pids \ {p} : Same(q),
           UNCHANGED <<pointer, tree, strays, returned>>,
           fs[p] \in Gap => fs'[p] \in Gap /\ Subject(p)' = Subject(p),
           Busy(p)', Aims(p)', GateHolds(p)',
           fs'[p] \notin {"clear", "flip"},
           at'[p] = "loading" /\ fs'[p] \in Gap =>
               fs[p] \in Gap /\ at[p] = "loading" /\ UNCHANGED want
    PROVE  IInv'
<1>1. BareIsKnown'
  BY DEF IInv, BareIsKnown
<1>2. ASSUME NEW v \in Versions, LeadsSomewhere(v) PROVE LeadsSomewhere(v)'
  <2>1. CASE \E q \in Pids : Swapping(q, v)
    <3>1. Swapping(p, v) => Swapping(p, v)'
      BY DEF Swapping, Gap
    <3>2. QED
      BY <2>1, <3>1, StillSwapping DEF LeadsSomewhere
  <2>2. CASE ~\E q \in Pids : Swapping(q, v)
    BY <1>2, <2>2 DEF LeadsSomewhere
  <2>3. QED
    BY <2>1, <2>2
<1>3. \A v \in Versions : Good(v) => Good(v)'
  BY DEF Good
<1>4. FlipLeads(p)'
  BY DEF FlipLeads
<1>5. ASSUME NEW v \in Versions, at'[p] = "loading", fs'[p] \in Gap, want'[p] = v PROVE Good(v)'
  BY <1>3, <1>5 DEF IInv, ProcessInv, SwapsGood
<1>6. ProcessInv(p)'
  BY <1>4, <1>5 DEF ProcessInv, SwapsGood
<1>7. QED
  BY <1>1, <1>2, <1>3, <1>6, ProcessStep

-----------------------------------------------------------------------------
(* The steps that leave the disk alone. *)

(***************************************************************************)
(* The installed version is the one that the pointer names.                *)
(***************************************************************************)
LEMMA InstalledFacts ==
    ASSUME TypeOK
    PROVE  /\ Installed \in 0 .. MaxVersion
           /\ Installed # 0 => Installed = pointer /\ Installed \in Versions
  BY StoreAssumption DEF TypeOK, Installed, Versions

(***************************************************************************)
(* A provisioning asks for what is published.                              *)
(***************************************************************************)
LEMMA AskFacts ==
    ASSUME TypeOK, NEW p \in Pids, NEW repair \in BOOLEAN, Ask(p, repair)
    PROVE  /\ job' \in [Pids -> Jobs] /\ goal' \in [Pids -> 0 .. MaxVersion]
           /\ force' \in [Pids -> BOOLEAN]
           /\ job'[p] = "asked" /\ goal'[p] \in Versions
           /\ \A q \in Pids \ {p} : job'[q] = job[q] /\ goal'[q] = goal[q]
  BY StoreAssumption DEF TypeOK, Ask, Jobs, Versions

(***************************************************************************)
(* A provisioning is over.                                                 *)
(***************************************************************************)
LEMMA JobOverFacts ==
    ASSUME TypeOK, NEW p \in Pids, JobOver(p)
    PROVE  /\ job' \in [Pids -> Jobs] /\ goal' \in [Pids -> 0 .. MaxVersion]
           /\ force' \in [Pids -> BOOLEAN]
           /\ job'[p] = "none"
           /\ \A q \in Pids \ {p} : job'[q] = job[q] /\ goal'[q] = goal[q]
  BY StoreAssumption DEF TypeOK, JobOver, Jobs

(***************************************************************************)
(* A boot that has located nothing says so, if there is a pointer.         *)
(***************************************************************************)
LEMMA NothingLocatedFacts ==
    ASSUME TypeOK, NEW p \in Pids, NothingLocated(p)
    PROVE  /\ at' \in [Pids -> Stages] /\ skip' \in [Pids -> {"none", "corrupt", "incompatible"}]
           /\ at'[p] = "serving" /\ (pointer # 0 => skip'[p] = "corrupt")
           /\ \A q \in Pids \ {p} : at'[q] = at[q] /\ skip'[q] = skip[q]
  BY DEF TypeOK, NothingLocated, Stages

(***************************************************************************)
(* A manifest arrives, or a fetch fails.                                   *)
(***************************************************************************)
LEMMA ProvisionStep ==
    ASSUME IInv, NEW p \in Pids, ManifestArrives(p) \/ FetchFails(p)
    PROVE  IInv'
<1>1. /\ UNCHANGED <<published, pointer, tree, at, want, judged, skip, fs, aside, todo, litter,
                     strays, returned>>
      /\ job[p] \in {"asked", "fetching"} /\ fs[p] = "idle" /\ mishaps' \in 0 .. MaxMishaps
  BY StoreAssumption
     DEF ManifestArrives, FetchFails, disk, boot, sync, past, Mishap, Free, IInv, TypeOK
<1>2. /\ job' \in [Pids -> Jobs] /\ goal' \in [Pids -> 0 .. MaxVersion]
      /\ force' \in [Pids -> BOOLEAN]
      /\ job'[p] \in {"none", "fetching"} /\ (job'[p] # "none" => goal'[p] = goal[p])
      /\ \A q \in Pids \ {p} : job'[q] = job[q] /\ goal'[q] = goal[q]
  <2>1. CASE JobOver(p)
    BY <2>1, JobOverFacts DEF IInv
  <2>2. CASE job' = [job EXCEPT ![p] = "fetching"] /\ UNCHANGED <<goal, force>>
    BY <2>2 DEF IInv, TypeOK, Jobs
  <2>3. QED
    BY <2>1, <2>2 DEF ManifestArrives, FetchFails
<1>3. TypeOK'
  BY <1>1, <1>2 DEF IInv, TypeOK
<1>4. ProcessInv(p)
  BY DEF IInv
<1>5. Busy(p)' /\ Aims(p)' /\ GateHolds(p)'
  BY <1>1, <1>2, <1>4 DEF ProcessInv, Busy, Aims, GateHolds, Fits
<1>6. \A q \in Pids \ {p} : Same(q)
  BY <1>1, <1>2 DEF Same
<1>7. QED
  BY <1>1, <1>3, <1>5, <1>6, DiskStays DEF Gap

(***************************************************************************)
(* An artifact arrives, and the synchronous code of the installation       *)
(* begins.                                                                 *)
(***************************************************************************)
LEMMA ArtifactStep == ASSUME IInv, NEW p \in Pids, ArtifactArrives(p) PROVE IInv'
<1>1. /\ UNCHANGED <<published, pointer, tree, at, want, judged, skip, goal, force, aside, todo, litter,
                     mishaps, strays, returned>>
      /\ job[p] = "fetching" /\ fs[p] = "idle" /\ job' = [job EXCEPT ![p] = "installing"]
  BY DEF ArtifactArrives, disk, boot, past, Free
<1>2. PICK place \in {"move", "place"} : fs' = [fs EXCEPT ![p] = place]
  BY DEF ArtifactArrives, Goes
<1>3. TypeOK'
  BY <1>1, <1>2 DEF IInv, TypeOK, Jobs, Places
<1>4. /\ job'[p] = "installing" /\ fs'[p] \in {"move", "place"}
      /\ \A q \in Pids \ {p} : Same(q)
  BY <1>1, <1>2 DEF IInv, TypeOK, Same
<1>5. ProcessInv(p)
  BY DEF IInv
<1>6. Busy(p)' /\ Aims(p)' /\ GateHolds(p)'
  BY <1>1, <1>4, <1>5 DEF ProcessInv, Busy, Aims, GateHolds, Fits
<1>7. QED
  BY <1>1, <1>3, <1>4, <1>6, DiskStays DEF Gap

(***************************************************************************)
(* A provisioning begins: from the command line, by a first unlock, as a   *)
(* cure, or to stay fresh.                                                 *)
(***************************************************************************)
LEMMA AskingStep ==
    ASSUME IInv, NEW p \in Pids, Repair(p) \/ FirstUnlock(p) \/ Cure(p) \/ Freshen(p)
    PROVE  IInv'
<1>1. ProcessInv(p)
  BY DEF IInv
<1>2. /\ UNCHANGED <<published, pointer, tree, want, judged, skip, fs, aside, todo, litter,
                     strays, returned>>
      /\ mishaps' \in 0 .. MaxMishaps
  <2>1. UNCHANGED <<published, pointer, tree, want, judged, skip, fs, aside, todo, litter,
                    strays, returned>>
    BY DEF Repair, FirstUnlock, Cure, Freshen, disk, boot, sync, past
  <2>2. Mishap \/ UNCHANGED mishaps
    BY DEF Repair, FirstUnlock, Cure, Freshen
  <2>3. QED
    BY <2>1, <2>2, StoreAssumption DEF Mishap, IInv, TypeOK
<1>3. job[p] = "none" /\ fs[p] = "idle"
  BY <1>1 DEF Repair, FirstUnlock, Cure, Freshen, ProcessInv, Busy
<1>4. PICK repair \in BOOLEAN : Ask(p, repair)
  <2>1. (skip[p] = "corrupt") \in BOOLEAN
    OBVIOUS
  <2>2. QED
    BY <2>1, Zenon DEF Repair, FirstUnlock, Cure, Freshen
<1>5. /\ job' \in [Pids -> Jobs] /\ goal' \in [Pids -> 0 .. MaxVersion]
      /\ force' \in [Pids -> BOOLEAN]
      /\ job'[p] = "asked" /\ goal'[p] \in Versions
      /\ \A q \in Pids \ {p} : job'[q] = job[q] /\ goal'[q] = goal[q]
  BY <1>4, AskFacts DEF IInv
<1>6. /\ at' \in [Pids -> Stages] /\ \A q \in Pids \ {p} : at'[q] = at[q]
      /\ \/ at'[p] = at[p] /\ at[p] = "off"
         \/ at'[p] = "waiting"
         \/ at'[p] = "settled" /\ at[p] = "serving"
  BY DEF Repair, FirstUnlock, Cure, Freshen, boot, IInv, TypeOK, Stages
<1>7. TypeOK'
  BY <1>2, <1>5, <1>6 DEF IInv, TypeOK
<1>8. \A q \in Pids \ {p} : Same(q)
  BY <1>2, <1>5, <1>6 DEF Same
<1>9. Busy(p)' /\ Aims(p)' /\ GateHolds(p)'
  BY <1>1, <1>2, <1>3, <1>5, <1>6 DEF ProcessInv, Busy, Aims, GateHolds, Fits
<1>10. QED
  BY <1>2, <1>3, <1>7, <1>8, <1>9, DiskStays DEF Gap

(***************************************************************************)
(* A boot begins, reads the abi, and imports what it has located: the gate.*)
(***************************************************************************)
LEMMA BootingStep ==
    ASSUME IInv, NEW p \in Pids, Boot(p) \/ ReadAbi(p) \/ Import(p)
    PROVE  IInv'
<1>1. ProcessInv(p)
  BY DEF IInv
<1>2. UNCHANGED <<published, pointer, tree, want, job, goal, force, fs, aside, todo, litter, mishaps,
                  strays, returned>>
  BY DEF Boot, ReadAbi, Import, disk, work, sync, past
<1>3. fs[p] = "idle"
  BY <1>1 DEF Boot, ReadAbi, Import, Free, ProcessInv, Busy
<1>4. /\ at' \in [Pids -> Stages] /\ \A q \in Pids \ {p} : at'[q] = at[q]
      /\ \/ at'[p] = "starting" /\ job[p] = "none"
         \/ at'[p] = "importing"
         \/ at'[p] = "serving"
  BY DEF Boot, ReadAbi, Import, IInv, TypeOK, Stages
<1>5. judged' \in [Pids -> 0 .. MaxVersion]
  BY InstalledFacts, StoreAssumption DEF Boot, ReadAbi, Import, IInv, TypeOK
<1>6. /\ skip' \in [Pids -> {"none", "corrupt", "incompatible"}]
      /\ \A q \in Pids \ {p} : skip'[q] = skip[q]
  BY DEF Boot, ReadAbi, Import, IInv, TypeOK
<1>7. at'[p] = "serving" /\ skip'[p] = "none" => Fits(p, want[p])
  <2>1. CASE Import(p)
    BY <2>1 DEF Import, Accepted, IInv, TypeOK
  <2>2. CASE Boot(p) \/ ReadAbi(p)
    BY <2>2 DEF Boot, ReadAbi, IInv, TypeOK
  <2>3. QED
    BY <2>1, <2>2
<1>8. TypeOK'
  BY <1>2, <1>4, <1>5, <1>6 DEF IInv, TypeOK
<1>9. \A q \in Pids \ {p} : Same(q)
  BY <1>2, <1>4, <1>6 DEF Same
<1>10. Busy(p)' /\ Aims(p)' /\ GateHolds(p)'
  BY <1>1, <1>2, <1>3, <1>4, <1>7 DEF ProcessInv, Busy, Aims, GateHolds, Fits
<1>11. QED
  BY <1>2, <1>3, <1>8, <1>9, <1>10, DiskStays DEF Gap

(***************************************************************************)
(* A boot reads the pointer, and its synchronous code begins.              *)
(***************************************************************************)
LEMMA ResolveStep == ASSUME IInv, NEW p \in Pids, Resolve(p) PROVE IInv'
<1>1. ProcessInv(p)
  BY DEF IInv
<1>2. /\ UNCHANGED <<published, pointer, tree, judged, job, goal, force, aside, todo, litter, mishaps,
                     strays, returned>>
      /\ fs[p] = "idle" /\ want' = [want EXCEPT ![p] = Installed]
  BY DEF Resolve, disk, work, past, Free
<1>3. want' \in [Pids -> 0 .. MaxVersion] /\ want'[p] = Installed
      /\ \A q \in Pids \ {p} : want'[q] = want[q]
  BY <1>2, InstalledFacts DEF IInv, TypeOK
<1>4. CASE Installed # 0
  <2>1. /\ fs' = [fs EXCEPT ![p] = "verify"] /\ at' = [at EXCEPT ![p] = "loading"]
        /\ UNCHANGED skip
    BY <1>4 DEF Resolve, Goes
  <2>2. TypeOK'
    BY <1>2, <1>3, <2>1 DEF IInv, TypeOK, Places, Stages
  <2>3. fs'[p] = "verify" /\ at'[p] = "loading" /\ \A q \in Pids \ {p} : Same(q)
    BY <1>2, <1>3, <2>1 DEF IInv, TypeOK, Same
  <2>4. Installed \in Versions /\ Installed = pointer
    BY <1>4, InstalledFacts DEF IInv
  <2>5. Busy(p)' /\ Aims(p)' /\ GateHolds(p)'
    BY <1>1, <1>2, <1>3, <1>4, <2>3, <2>4 DEF ProcessInv, Busy, Aims, GateHolds, Fits
  <2>6. QED
    BY <1>2, <2>2, <2>3, <2>5, DiskStays DEF Gap
<1>5. CASE Installed = 0
  <2>1. NothingLocated(p) /\ UNCHANGED fs
    BY <1>5 DEF Resolve
  <2>2. /\ at' \in [Pids -> Stages] /\ skip' \in [Pids -> {"none", "corrupt", "incompatible"}]
        /\ at'[p] = "serving"
        /\ \A q \in Pids \ {p} : at'[q] = at[q] /\ skip'[q] = skip[q]
    BY <2>1, NothingLocatedFacts DEF IInv
  <2>3. TypeOK'
    BY <1>2, <1>3, <2>1, <2>2 DEF IInv, TypeOK
  <2>4. \A q \in Pids \ {p} : Same(q)
    BY <1>2, <1>3, <2>1, <2>2 DEF Same
  <2>5. Busy(p)' /\ Aims(p)' /\ GateHolds(p)'
    BY <1>1, <1>2, <1>3, <1>5, <2>1, <2>2 DEF ProcessInv, Busy, Aims, GateHolds, Fits
  <2>6. QED
    BY <1>2, <2>1, <2>2, <2>3, <2>4, <2>5, DiskStays DEF Gap
<1>6. QED
  BY <1>4, <1>5

(***************************************************************************)
(* Nothing of a process that is gone is left.                              *)
(***************************************************************************)
LEMMA GoneFacts ==
    ASSUME IInv, NEW p \in Pids, Gone(p)
    PROVE  /\ at' \in [Pids -> Stages] /\ want' \in [Pids -> 0 .. MaxVersion]
           /\ judged' \in [Pids -> 0 .. MaxVersion]
           /\ skip' \in [Pids -> {"none", "corrupt", "incompatible"}]
           /\ job' \in [Pids -> Jobs] /\ goal' \in [Pids -> 0 .. MaxVersion]
           /\ force' \in [Pids -> BOOLEAN]
           /\ at'[p] = "off" /\ want'[p] = 0 /\ job'[p] = "none"
           /\ \A q \in Pids \ {p} :
                  /\ at'[q] = at[q] /\ want'[q] = want[q] /\ skip'[q] = skip[q]
                  /\ job'[q] = job[q] /\ goal'[q] = goal[q]
<1>1. JobOver(p)
  BY DEF Gone
<1>2. /\ at' \in [Pids -> Stages] /\ want' \in [Pids -> 0 .. MaxVersion]
      /\ judged' \in [Pids -> 0 .. MaxVersion]
      /\ skip' \in [Pids -> {"none", "corrupt", "incompatible"}]
      /\ at'[p] = "off" /\ want'[p] = 0
      /\ \A q \in Pids \ {p} : at'[q] = at[q] /\ want'[q] = want[q] /\ skip'[q] = skip[q]
  BY StoreAssumption DEF Gone, IInv, TypeOK, Stages
<1>3. QED
  BY <1>1, <1>2, JobOverFacts DEF IInv

(***************************************************************************)
(* A session ends: it was not in synchronous code.                         *)
(***************************************************************************)
LEMMA QuitStep == ASSUME IInv, NEW p \in Pids, Quit(p) PROVE IInv'
<1>1. ProcessInv(p)
  BY DEF IInv
<1>2. /\ UNCHANGED <<published, pointer, tree, fs, aside, todo, litter, mishaps, strays, returned>>
      /\ fs[p] = "idle" /\ Gone(p)
  BY <1>1 DEF Quit, disk, sync, past, ProcessInv, Busy
<1>3. TypeOK'
  BY <1>2, GoneFacts DEF IInv, TypeOK
<1>4. \A q \in Pids \ {p} : Same(q)
  BY <1>2, GoneFacts DEF Same
<1>5. at'[p] = "off" /\ want'[p] = 0 /\ job'[p] = "none"
  BY <1>2, GoneFacts
<1>6. Busy(p)' /\ Aims(p)' /\ GateHolds(p)'
  BY <1>2, <1>5 DEF Busy, Aims, GateHolds
<1>7. QED
  BY <1>2, <1>3, <1>4, <1>6, DiskStays DEF Gap

-----------------------------------------------------------------------------
(* The synchronous code. *)

(***************************************************************************)
(* The synchronous code of an installation or a boot is over without a     *)
(* tree.                                                                   *)
(***************************************************************************)
LEMMA ThrowsFacts ==
    ASSUME IInv, NEW p \in Pids, fs[p] # "idle", Throws(p), UNCHANGED <<want, pointer>>
    PROVE  /\ at' \in [Pids -> Stages] /\ skip' \in [Pids -> {"none", "corrupt", "incompatible"}]
           /\ job' \in [Pids -> Jobs] /\ goal' \in [Pids -> 0 .. MaxVersion]
           /\ force' \in [Pids -> BOOLEAN]
           /\ fs' \in [Pids -> Places] /\ aside' \in [Pids -> Contents]
           /\ fs'[p] = "idle" /\ at'[p] # "loading" /\ at'[p] \in {at[p], "serving"}
           /\ \A q \in Pids \ {p} : Same(q)
           /\ Busy(p)' /\ Aims(p)' /\ GateHolds(p)'
<1>1. ProcessInv(p)
  BY DEF IInv
<1>2. /\ fs' \in [Pids -> Places] /\ aside' \in [Pids -> Contents] /\ fs'[p] = "idle"
      /\ \A q \in Pids \ {p} : fs'[q] = fs[q]
  BY DEF Throws, Goes, IInv, TypeOK, Places, Contents
<1>3. CASE job[p] = "installing"
  <2>1. JobOver(p) /\ UNCHANGED <<at, skip>>
    BY <1>3 DEF Throws
  <2>2. /\ job' \in [Pids -> Jobs] /\ goal' \in [Pids -> 0 .. MaxVersion]
        /\ force' \in [Pids -> BOOLEAN] /\ job'[p] = "none"
        /\ \A q \in Pids \ {p} : job'[q] = job[q] /\ goal'[q] = goal[q]
    BY <2>1, JobOverFacts DEF IInv
  <2>3. \A q \in Pids \ {p} : Same(q)
    BY <1>2, <2>1, <2>2 DEF Same
  <2>4. at'[p] # "loading" /\ at'[p] \in {at[p], "serving"}
    BY <1>1, <1>3, <2>1 DEF ProcessInv, Busy
  <2>5. Busy(p)' /\ Aims(p)' /\ GateHolds(p)'
    BY <1>1, <1>2, <1>3, <2>1, <2>2 DEF ProcessInv, Busy, Aims, GateHolds, Fits
  <2>6. QED
    BY <1>2, <2>1, <2>2, <2>3, <2>4, <2>5 DEF IInv, TypeOK
<1>4. CASE job[p] # "installing"
  <2>1. NothingLocated(p) /\ UNCHANGED work
    BY <1>4 DEF Throws
  <2>2. at[p] = "loading" /\ pointer # 0
    BY <1>1, <1>4, StoreAssumption DEF ProcessInv, Busy, Aims, Versions
  <2>3. /\ at' \in [Pids -> Stages] /\ skip' \in [Pids -> {"none", "corrupt", "incompatible"}]
        /\ at'[p] = "serving" /\ skip'[p] = "corrupt"
        /\ \A q \in Pids \ {p} : at'[q] = at[q] /\ skip'[q] = skip[q]
    BY <2>1, <2>2, NothingLocatedFacts DEF IInv
  <2>4. \A q \in Pids \ {p} : Same(q)
    BY <1>2, <2>1, <2>3 DEF Same, work
  <2>5. Busy(p)' /\ Aims(p)' /\ GateHolds(p)'
    BY <1>1, <1>2, <1>4, <2>1, <2>3 DEF ProcessInv, Busy, Aims, GateHolds, work
  <2>6. QED
    BY <1>2, <2>1, <2>3, <2>4, <2>5 DEF IInv, TypeOK, work
<1>5. QED
  BY <1>3, <1>4

(***************************************************************************)
(* A tree is in place: an installation goes on to move the pointer, a boot *)
(* has located its module.                                                 *)
(***************************************************************************)
LEMMA SucceedsFacts ==
    ASSUME IInv, NEW p \in Pids, fs[p] # "idle", Succeeds(p), UNCHANGED <<want, pointer>>
    PROVE  /\ at' \in [Pids -> Stages] /\ fs' \in [Pids -> Places] /\ aside' \in [Pids -> Contents]
           /\ UNCHANGED <<skip, work>>
           /\ fs'[p] \in {"flip", "idle"} /\ at'[p] # "loading"
           /\ fs'[p] = "flip" => job[p] = "installing" /\ goal[p] = Subject(p)
           /\ \A q \in Pids \ {p} : Same(q)
           /\ Busy(p)' /\ Aims(p)' /\ GateHolds(p)'
<1>1. ProcessInv(p)
  BY DEF IInv
<1>2. aside' \in [Pids -> Contents] /\ UNCHANGED <<skip, work>>
  BY DEF Succeeds, IInv, TypeOK, Contents
<1>3. CASE job[p] = "installing"
  <2>1. fs' = [fs EXCEPT ![p] = "flip"] /\ UNCHANGED at
    BY <1>3 DEF Succeeds, Goes
  <2>2. /\ fs' \in [Pids -> Places] /\ fs'[p] = "flip" /\ at'[p] # "loading"
        /\ \A q \in Pids \ {p} : Same(q)
    BY <1>1, <1>2, <1>3, <2>1 DEF IInv, TypeOK, Places, Same, work, ProcessInv, Busy
  <2>3. Busy(p)' /\ Aims(p)' /\ GateHolds(p)'
    BY <1>1, <1>2, <1>3, <2>1, <2>2 DEF ProcessInv, Busy, Aims, GateHolds, Fits, work
  <2>4. QED
    BY <1>2, <1>3, <2>1, <2>2, <2>3 DEF IInv, TypeOK, Subject
<1>4. CASE job[p] # "installing"
  <2>1. fs' = [fs EXCEPT ![p] = "idle"] /\ at' = [at EXCEPT ![p] = "located"]
    BY <1>4 DEF Succeeds, Goes
  <2>2. /\ fs' \in [Pids -> Places] /\ at' \in [Pids -> Stages]
        /\ fs'[p] = "idle" /\ at'[p] = "located"
        /\ \A q \in Pids \ {p} : Same(q)
    BY <1>2, <2>1 DEF IInv, TypeOK, Places, Stages, Same, work
  <2>3. Busy(p)' /\ Aims(p)' /\ GateHolds(p)'
    BY <1>1, <1>2, <1>4, <2>2 DEF ProcessInv, Busy, Aims, GateHolds, work
  <2>4. QED
    BY <1>2, <2>2, <2>3
<1>5. QED
  BY <1>3, <1>4

(***************************************************************************)
(* The file operations of an installation alone, and of a boot alone.      *)
(***************************************************************************)
Installs == {"place", "placeFailed", "clear", "clearFailed", "flip", "list", "prune"}
Verifies == {"verify", "compare"}

(***************************************************************************)
(* The synchronous code goes on to another file operation of its kind.     *)
(***************************************************************************)
LEMMA ProceedsFacts ==
    ASSUME IInv, NEW p \in Pids, fs[p] # "idle", NEW place \in Places \ {"idle"},
           fs' = [fs EXCEPT ![p] = place], UNCHANGED <<at, skip, work, want>>,
           pointer' = 0 => pointer = 0,
           place \in Installs => job[p] = "installing",
           place \in Verifies => at[p] = "loading"
    PROVE  /\ fs' \in [Pids -> Places] /\ fs'[p] = place
           /\ \A q \in Pids \ {p} : Same(q)
           /\ Busy(p)' /\ Aims(p)' /\ GateHolds(p)'
<1>1. ProcessInv(p)
  BY DEF IInv
<1>2. /\ fs' \in [Pids -> Places] /\ fs'[p] = place
      /\ \A q \in Pids \ {p} : Same(q)
  BY DEF IInv, TypeOK, Same, work
<1>3. Busy(p)' /\ Aims(p)' /\ GateHolds(p)'
  BY <1>1, <1>2 DEF ProcessInv, Busy, Aims, GateHolds, Fits, work, Installs, Verifies
<1>4. QED
  BY <1>2, <1>3

(***************************************************************************)
(* A boot looks at the artifact and at the tree.                           *)
(***************************************************************************)
LEMMA VerifyStep == ASSUME IInv, NEW p \in Pids, VerifyArtifact(p) \/ Compare(p) PROVE IInv'
<1>1. ProcessInv(p)
  BY DEF IInv
<1>2. /\ UNCHANGED <<published, pointer, tree, want, judged, todo, litter, mishaps, strays, returned>>
      /\ fs[p] \in {"verify", "compare"} /\ at[p] = "loading" /\ job[p] # "installing"
  BY <1>1 DEF VerifyArtifact, Compare, disk, past, ProcessInv, Busy
<1>3. CASE Throws(p)
  <2>1. TypeOK'
    BY <1>2, <1>3, ThrowsFacts DEF IInv, TypeOK
  <2>2. QED
    BY <1>2, <1>3, <2>1, ThrowsFacts, DiskStays DEF Gap
<1>4. CASE Succeeds(p)
  <2>1. TypeOK'
    BY <1>2, <1>4, SucceedsFacts DEF IInv, TypeOK, work
  <2>2. fs'[p] = "idle"
    BY <1>2, <1>4, SucceedsFacts
  <2>3. QED
    BY <1>2, <1>4, <2>1, <2>2, SucceedsFacts, DiskStays DEF Gap
<1>5. ASSUME NEW place \in {"compare", "move"}, Proceeds(p, place) PROVE IInv'
  <2>1. /\ fs' = [fs EXCEPT ![p] = place] /\ UNCHANGED <<at, skip, work, want, aside>>
        /\ place \in Places \ {"idle"}
    BY <1>2, <1>5 DEF Proceeds, Goes, Places
  <2>2. /\ fs' \in [Pids -> Places] /\ fs'[p] = place
        /\ \A q \in Pids \ {p} : Same(q)
        /\ Busy(p)' /\ Aims(p)' /\ GateHolds(p)'
    BY <1>2, <2>1, ProceedsFacts DEF Installs, Verifies
  <2>3. TypeOK'
    BY <1>2, <2>1, <2>2 DEF IInv, TypeOK, work
  <2>4. QED
    BY <1>2, <2>2, <2>3, DiskStays DEF Gap
<1>6. QED
  BY <1>3, <1>4, <1>5 DEF VerifyArtifact, Compare

(***************************************************************************)
(* The old tree is renamed away.                                           *)
(***************************************************************************)
LEMMA MoveAsideStep == ASSUME IInv, NEW p \in Pids, MoveAside(p) PROVE IInv'
<1>1. PICK v : v = Subject(p)
  OBVIOUS
<1>2. v \in Versions
  BY <1>1 DEF MoveAside, IInv, ProcessInv, Busy, Aims, Subject
<1>3. /\ UNCHANGED <<published, pointer, want, judged, todo, litter, strays, returned>>
      /\ fs[p] = "move" /\ (Mishap \/ UNCHANGED mishaps)
  BY DEF MoveAside, past
<1>4. CASE Throws(p) /\ UNCHANGED tree
  <2>1. TypeOK'
    BY <1>3, <1>4, MishapFacts, ThrowsFacts DEF IInv, TypeOK
  <2>2. QED
    BY <1>3, <1>4, <2>1, ThrowsFacts, DiskStays DEF Gap
<1>5. CASE /\ tree[v] # "absent"
           /\ aside' = [aside EXCEPT ![p] = tree[v]]
           /\ tree' = [tree EXCEPT ![v] = "absent"]
           /\ Goes(p, "swap")
           /\ UNCHANGED <<at, skip, work, mishaps>>
  <2>1. fs' = [fs EXCEPT ![p] = "swap"] /\ "swap" \in Places \ {"idle"}
    BY <1>5 DEF Goes, Places
  <2>2. /\ fs' \in [Pids -> Places] /\ fs'[p] = "swap"
        /\ \A q \in Pids \ {p} : Same(q)
        /\ Busy(p)' /\ Aims(p)' /\ GateHolds(p)'
    BY <1>3, <1>5, <2>1, ProceedsFacts DEF Installs, Verifies
  <2>3. TypeOK'
    BY <1>2, <1>3, <1>5, <2>2 DEF IInv, TypeOK, work, Contents
  <2>4. BareIsKnown' /\ \A w \in Versions : Good(w) => Good(w)'
    BY <1>2, <1>3, <1>5 DEF IInv, TypeOK, BareIsKnown, Good
  <2>5. Swapping(p, v)'
    BY <1>1, <1>3, <1>5, <2>2 DEF Swapping, Subject, work
  <2>6. ASSUME NEW w \in Versions, LeadsSomewhere(w) PROVE LeadsSomewhere(w)'
    <3>1. CASE w = v
      BY <2>5, <3>1 DEF LeadsSomewhere
    <3>2. CASE w # v
      <4>1. ~Swapping(p, w) /\ tree'[w] = tree[w]
        BY <1>2, <1>3, <1>5, <3>2 DEF Swapping, IInv, TypeOK
      <4>2. QED
        BY <1>3, <2>2, <2>6, <4>1, LeadsKept
    <3>3. QED
      BY <3>1, <3>2
  <2>7. Good(v)'
    BY <1>2, <1>5 DEF Good, IInv, TypeOK
  <2>8. FlipLeads(p)' /\ SwapsGood(p)'
    <3>1. ASSUME NEW w \in Versions, at'[p] = "loading", fs'[p] \in Gap, want'[p] = w
          PROVE  Good(w)'
      <4>1. w = v
        BY <1>1, <1>3, <1>5, <3>1 DEF Subject, IInv, ProcessInv, Busy
      <4>2. QED
        BY <2>7, <4>1
    <3>2. QED
      BY <2>2, <3>1 DEF FlipLeads, SwapsGood
  <2>9. QED
    BY <1>3, <2>2, <2>3, <2>4, <2>6, <2>8, ProcessStep DEF ProcessInv
<1>6. QED
  BY <1>1, <1>4, <1>5 DEF MoveAside

(***************************************************************************)
(* The staged tree is renamed in, or is not.                               *)
(***************************************************************************)
LEMMA RenameInStep == ASSUME IInv, NEW p \in Pids, RenameIn(p) PROVE IInv'
<1>1. PICK v : v = Subject(p)
  OBVIOUS
<1>2. v \in Versions
  BY <1>1 DEF RenameIn, IInv, ProcessInv, Busy, Aims, Subject
<1>3. /\ UNCHANGED <<published, pointer, want, judged, todo, litter>>
      /\ fs[p] \in {"swap", "place"}
  BY DEF RenameIn
<1>4. CASE /\ tree[v] = "absent"
           /\ tree' = [tree EXCEPT ![v] = "whole"]
           /\ strays' = strays \ {v}
           /\ returned' = returned \ {v}
           /\ IF fs[p] = "swap" /\ job[p] = "installing"
              THEN Proceeds(p, "clear") ELSE Succeeds(p)
           /\ UNCHANGED mishaps
  <2>1. /\ at' \in [Pids -> Stages] /\ fs' \in [Pids -> Places] /\ aside' \in [Pids -> Contents]
        /\ UNCHANGED <<skip, work>>
        /\ fs'[p] \in {"clear", "flip", "idle"} /\ at'[p] # "loading"
        /\ fs'[p] # "idle" => goal[p] = v
        /\ \A q \in Pids \ {p} : Same(q)
        /\ Busy(p)' /\ Aims(p)' /\ GateHolds(p)'
    <3>1. CASE Succeeds(p)
      BY <1>1, <1>3, <3>1, SucceedsFacts
    <3>2. CASE job[p] = "installing" /\ Proceeds(p, "clear")
      <4>1. /\ fs' = [fs EXCEPT ![p] = "clear"] /\ "clear" \in Places \ {"idle"}
            /\ UNCHANGED <<at, skip, work, want, aside>>
        BY <1>3, <3>2 DEF Proceeds, Goes, Places
      <4>2. /\ fs' \in [Pids -> Places] /\ fs'[p] = "clear"
            /\ \A q \in Pids \ {p} : Same(q)
            /\ Busy(p)' /\ Aims(p)' /\ GateHolds(p)'
        BY <1>3, <3>2, <4>1, ProceedsFacts DEF Verifies
      <4>3. goal[p] = v /\ at'[p] # "loading"
        BY <1>1, <3>2, <4>1 DEF Subject, IInv, ProcessInv, Busy
      <4>4. QED
        BY <4>1, <4>2, <4>3 DEF IInv, TypeOK
    <3>3. QED
      BY <1>4, <3>1, <3>2
  <2>2. TypeOK'
    BY <1>2, <1>3, <1>4, <2>1 DEF IInv, TypeOK, work, Contents
  <2>3. tree'[v] = "whole" /\ \A w \in Versions \ {v} : tree'[w] = tree[w]
    BY <1>2, <1>4 DEF IInv, TypeOK
  <2>4. BareIsKnown' /\ \A w \in Versions : Good(w) => Good(w)'
    BY <1>4, <2>3 DEF IInv, BareIsKnown, Good
  <2>5. LeadsSomewhere(v)'
    BY <2>3 DEF LeadsSomewhere
  <2>6. ASSUME NEW w \in Versions, LeadsSomewhere(w) PROVE LeadsSomewhere(w)'
    <3>1. CASE w = v
      BY <2>5, <3>1
    <3>2. CASE w # v
      <4>1. ~Swapping(p, w)
        BY <1>1, <3>2 DEF Swapping
      <4>2. QED
        BY <1>4, <2>1, <2>3, <2>6, <3>2, <4>1, LeadsKept
    <3>3. QED
      BY <3>1, <3>2
  <2>7. FlipLeads(p)'
    BY <2>1, <2>5 DEF FlipLeads, work
  <2>8. SwapsGood(p)'
    BY <2>1 DEF SwapsGood
  <2>9. QED
    BY <1>3, <2>1, <2>2, <2>4, <2>6, <2>7, <2>8, ProcessStep DEF ProcessInv
<1>5. CASE /\ \/ tree[v] # "absent" /\ UNCHANGED mishaps
              \/ tree[v] = "absent" /\ Mishap
           /\ Proceeds(p, IF fs[p] = "swap" THEN "swapFailed" ELSE "placeFailed")
           /\ UNCHANGED <<tree, past>>
  <2>1. PICK place \in {"swapFailed", "placeFailed"} :
            Proceeds(p, place) /\ (place = "swapFailed" <=> fs[p] = "swap")
    BY <1>3, <1>5
  <2>2. /\ fs' = [fs EXCEPT ![p] = place] /\ UNCHANGED <<at, skip, work, want, aside>>
        /\ place \in Places \ {"idle"}
        /\ UNCHANGED <<tree, strays, returned>>
    BY <1>3, <1>5, <2>1 DEF Proceeds, Goes, Places, past
  <2>3. mishaps' \in 0 .. MaxMishaps
    BY <1>5, MishapFacts
  <2>4. place \in Installs => job[p] = "installing"
    BY <1>3, <2>1 DEF Installs, IInv, ProcessInv, Busy
  <2>5. /\ fs' \in [Pids -> Places] /\ fs'[p] = place
        /\ \A q \in Pids \ {p} : Same(q)
        /\ Busy(p)' /\ Aims(p)' /\ GateHolds(p)'
    BY <1>3, <2>2, <2>4, ProceedsFacts DEF Verifies
  <2>6. TypeOK'
    BY <1>3, <2>2, <2>3, <2>5 DEF IInv, TypeOK, work
  <2>7. Subject(p)' = Subject(p)
    BY <1>3, <2>2 DEF Subject, work
  <2>8. QED
    BY <1>3, <2>1, <2>2, <2>5, <2>6, <2>7, DiskStays DEF Gap
<1>6. QED
  BY <1>1, <1>4, <1>5 DEF RenameIn

(***************************************************************************)
(* An installation removes the old tree, or cannot.                        *)
(***************************************************************************)
LEMMA ClearStep == ASSUME IInv, NEW p \in Pids, Clear(p) PROVE IInv'
<1>1. ProcessInv(p)
  BY DEF IInv
<1>2. /\ UNCHANGED <<published, pointer, tree, want, judged, todo, litter, strays, returned>>
      /\ fs[p] = "clear" /\ job[p] = "installing" /\ (Mishap \/ UNCHANGED mishaps)
  BY <1>1 DEF Clear, disk, past, ProcessInv, Busy
<1>3. CASE Succeeds(p)
  <2>1. TypeOK'
    BY <1>2, <1>3, MishapFacts, SucceedsFacts DEF IInv, TypeOK, work
  <2>2. BareIsKnown' /\ \A w \in Versions : Good(w) => Good(w)'
    BY <1>2 DEF IInv, BareIsKnown, Good
  <2>3. ASSUME NEW w \in Versions, LeadsSomewhere(w) PROVE LeadsSomewhere(w)'
    BY <1>2, <1>3, <2>3, SucceedsFacts, LeadsKept DEF Swapping
  <2>4. FlipLeads(p)'
    BY <1>1, <1>2, <1>3, <2>3, SucceedsFacts DEF ProcessInv, FlipLeads, work
  <2>5. SwapsGood(p)'
    BY <1>2, <1>3, SucceedsFacts DEF SwapsGood
  <2>6. QED
    BY <1>2, <1>3, <2>1, <2>2, <2>3, <2>4, <2>5, SucceedsFacts, ProcessStep DEF ProcessInv
<1>4. CASE /\ \E rest \in Remains(aside[p]) \ {"absent"} : aside' = [aside EXCEPT ![p] = rest]
           /\ Goes(p, "clearFailed")
           /\ UNCHANGED <<at, skip, work>>
  <2>1. aside' \in [Pids -> Contents]
    BY <1>4 DEF Remains, Contents, IInv, TypeOK
  <2>2. fs' = [fs EXCEPT ![p] = "clearFailed"] /\ "clearFailed" \in Places \ {"idle"}
    BY <1>4 DEF Goes, Places
  <2>3. /\ fs' \in [Pids -> Places] /\ fs'[p] = "clearFailed"
        /\ \A q \in Pids \ {p} : Same(q)
        /\ Busy(p)' /\ Aims(p)' /\ GateHolds(p)'
    BY <1>2, <1>4, <2>2, ProceedsFacts DEF Verifies
  <2>4. TypeOK'
    BY <1>2, <1>4, <2>1, <2>3, MishapFacts DEF IInv, TypeOK, work
  <2>5. QED
    BY <1>2, <2>3, <2>4, DiskStays DEF Gap
<1>5. QED
  BY <1>3, <1>4 DEF Clear

(***************************************************************************)
(* After a rename or a removal that failed, a sibling's tree or its own is *)
(* adopted: it leads somewhere.  One that throws with nothing in place     *)
(* makes its version a stray.                                              *)
(***************************************************************************)
LEMMA RenameFailedStep == ASSUME IInv, NEW p \in Pids, RenameFailed(p) PROVE IInv'
<1>1. PICK v : v = Subject(p)
  OBVIOUS
<1>2. ProcessInv(p) /\ v \in Versions
  BY <1>1 DEF RenameFailed, IInv, ProcessInv, Busy, Aims, Subject
<1>3. /\ UNCHANGED <<published, pointer, tree, want, judged, todo, litter, returned>>
      /\ fs[p] \in {"swapFailed", "placeFailed", "clearFailed"}
      /\ (Mishap \/ UNCHANGED mishaps)
      /\ strays \subseteq strays' /\ strays' \subseteq strays \cup {v}
      /\ v \in strays' \/ tree[v] # "absent" \/ fs[p] # "swapFailed" \/ fs'[p] = "restore"
  BY <1>1 DEF RenameFailed, disk, Proceeds, Goes, IInv, TypeOK
<1>4. BareIsKnown' /\ \A w \in Versions : Good(w) => Good(w)'
  BY <1>3 DEF IInv, BareIsKnown, Good
<1>5. ASSUME \A q \in Pids \ {p} : Same(q), NEW w \in Versions, LeadsSomewhere(w),
             w # v \/ tree[v] # "absent" \/ v \in strays' \/ fs[p] # "swapFailed"
      PROVE  LeadsSomewhere(w)'
  <2>1. CASE ~Swapping(p, w)
    BY <1>3, <1>5, <2>1, LeadsKept
  <2>2. CASE Swapping(p, w)
    <3>1. w = v /\ fs[p] = "swapFailed"
      BY <1>1, <1>3, <2>2 DEF Swapping
    <3>2. QED
      BY <1>3, <1>5, <3>1, TreeLeads DEF LeadsSomewhere
  <2>3. QED
    BY <2>1, <2>2
<1>6. CASE tree[v] # "absent" /\ Succeeds(p)
  <2>1. TypeOK'
    BY <1>2, <1>3, <1>6, MishapFacts, SucceedsFacts DEF IInv, TypeOK, work
  <2>2. \A q \in Pids \ {p} : Same(q)
    BY <1>3, <1>6, SucceedsFacts
  <2>3. FlipLeads(p)'
    <3>1. LeadsSomewhere(v)'
      BY <1>2, <1>3, <1>6, TreeLeads
    <3>2. QED
      BY <1>1, <1>3, <1>6, <3>1, SucceedsFacts DEF FlipLeads, work
  <2>4. SwapsGood(p)' /\ Busy(p)' /\ Aims(p)' /\ GateHolds(p)'
    BY <1>3, <1>6, SucceedsFacts DEF SwapsGood
  <2>5. QED
    BY <1>3, <1>4, <1>5, <1>6, <2>1, <2>2, <2>3, <2>4, ProcessStep DEF ProcessInv
<1>7. CASE tree[v] = "absent" /\ fs[p] # "placeFailed" /\ Proceeds(p, "restore") /\ UNCHANGED strays
  <2>1. /\ fs' = [fs EXCEPT ![p] = "restore"] /\ UNCHANGED <<at, skip, work, want, aside>>
        /\ "restore" \in Places \ {"idle"}
    BY <1>3, <1>7 DEF Proceeds, Goes, Places
  <2>2. /\ fs' \in [Pids -> Places] /\ fs'[p] = "restore"
        /\ \A q \in Pids \ {p} : Same(q)
        /\ Busy(p)' /\ Aims(p)' /\ GateHolds(p)'
    BY <1>3, <2>1, ProceedsFacts DEF Installs, Verifies
  <2>3. TypeOK'
    BY <1>3, <1>7, <2>1, <2>2, MishapFacts DEF IInv, TypeOK, work
  <2>4. Subject(p)' = Subject(p)
    BY <1>3, <2>1 DEF Subject, work
  <2>5. at'[p] = "loading" => fs[p] = "swapFailed"
    BY <1>2, <1>3, <1>7, <2>1 DEF ProcessInv, Busy
  <2>6. QED
    BY <1>3, <1>7, <2>1, <2>2, <2>3, <2>4, <2>5, DiskStays DEF Gap
<1>8. CASE Throws(p)
  <2>1. TypeOK'
    BY <1>2, <1>3, <1>8, MishapFacts, ThrowsFacts DEF IInv, TypeOK
  <2>2. fs'[p] = "idle" /\ \A q \in Pids \ {p} : Same(q)
    BY <1>3, <1>8, ThrowsFacts
  <2>3. FlipLeads(p)' /\ SwapsGood(p)' /\ Busy(p)' /\ Aims(p)' /\ GateHolds(p)'
    BY <1>3, <1>8, ThrowsFacts DEF FlipLeads, SwapsGood
  <2>4. QED
    BY <1>3, <1>4, <1>5, <2>1, <2>2, <2>3, ProcessStep DEF ProcessInv
<1>9. QED
  BY <1>1, <1>6, <1>7, <1>8 DEF RenameFailed

(***************************************************************************)
(* The old tree is put back, a sibling's is there, or the version is a     *)
(* stray.                                                                  *)
(***************************************************************************)
LEMMA RestoreStep == ASSUME IInv, NEW p \in Pids, Restore(p) PROVE IInv'
<1>1. PICK v : v = Subject(p)
  OBVIOUS
<1>2. v \in Versions
  BY <1>1 DEF Restore, IInv, ProcessInv, Busy, Aims, Subject
<1>3. /\ UNCHANGED <<published, pointer, want, judged, todo, litter, mishaps>>
      /\ fs[p] = "restore" /\ Throws(p)
  BY DEF Restore
<1>4. /\ tree' \in [Versions -> Contents] /\ returned' \subseteq Versions
      /\ strays' \subseteq Versions
      /\ \A w \in Versions \ {v} : tree'[w] = tree[w]
      /\ strays \subseteq strays' /\ returned \subseteq returned'
      /\ v \in strays' \cup returned' \/ (tree'[v] = tree[v] /\ tree[v] # "absent")
  BY <1>1, <1>2 DEF Restore, IInv, TypeOK
<1>5. TypeOK'
  BY <1>3, <1>4, ThrowsFacts DEF IInv, TypeOK
<1>6. BareIsKnown' /\ \A w \in Versions : Good(w) => Good(w)'
  BY <1>3, <1>4 DEF IInv, BareIsKnown, Good
<1>7. LeadsSomewhere(v)'
  BY <1>2, <1>4, TreeLeads DEF LeadsSomewhere
<1>8. ASSUME NEW w \in Versions, LeadsSomewhere(w) PROVE LeadsSomewhere(w)'
  <2>1. CASE w = v
    BY <1>7, <2>1
  <2>2. CASE w # v
    <3>1. ~Swapping(p, w)
      BY <1>1, <2>2 DEF Swapping
    <3>2. QED
      BY <1>3, <1>4, <1>8, <2>2, <3>1, ThrowsFacts, LeadsKept
  <2>3. QED
    BY <2>1, <2>2
<1>9. FlipLeads(p)' /\ SwapsGood(p)' /\ Busy(p)' /\ Aims(p)' /\ GateHolds(p)'
  BY <1>3, ThrowsFacts DEF FlipLeads, SwapsGood
<1>10. \A q \in Pids \ {p} : Same(q)
  BY <1>3, ThrowsFacts
<1>11. QED
  BY <1>3, <1>5, <1>6, <1>8, <1>9, <1>10, ProcessStep DEF ProcessInv

(***************************************************************************)
(* The pointer moves, or the installation fails.                           *)
(***************************************************************************)
LEMMA FlipStep == ASSUME IInv, NEW p \in Pids, Flip(p) PROVE IInv'
<1>1. ProcessInv(p)
  BY DEF IInv
<1>2. /\ UNCHANGED <<published, tree, want, judged, todo, litter, strays, returned>>
      /\ fs[p] = "flip" /\ job[p] = "installing" /\ (Mishap \/ UNCHANGED mishaps)
  BY <1>1 DEF Flip, past, ProcessInv, Busy
<1>3. CASE Throws(p) /\ UNCHANGED pointer
  <2>1. TypeOK'
    BY <1>2, <1>3, MishapFacts, ThrowsFacts DEF IInv, TypeOK
  <2>2. QED
    BY <1>2, <1>3, <2>1, ThrowsFacts, DiskStays DEF Gap
<1>4. CASE pointer' = goal[p] /\ Proceeds(p, "list")
  <2>1. /\ goal[p] \in Versions /\ goal[p] # 0 /\ "list" \in Places \ {"idle"}
        /\ fs' = [fs EXCEPT ![p] = "list"] /\ UNCHANGED <<at, skip, work, aside>>
    BY <1>1, <1>2, <1>4, StoreAssumption
       DEF ProcessInv, Aims, Versions, Places, Proceeds, Goes
  <2>2. /\ fs' \in [Pids -> Places] /\ fs'[p] = "list"
        /\ \A q \in Pids \ {p} : Same(q)
        /\ Busy(p)' /\ Aims(p)' /\ GateHolds(p)'
    BY <1>2, <1>4, <2>1, ProceedsFacts DEF Verifies
  <2>3. TypeOK'
    BY <1>2, <1>4, <2>1, <2>2, MishapFacts DEF IInv, TypeOK, work
  <2>4. BareIsKnown' /\ \A w \in Versions : Good(w) => Good(w)'
    BY <1>2 DEF IInv, BareIsKnown, Good
  <2>5. ASSUME NEW w \in Versions, LeadsSomewhere(w) PROVE LeadsSomewhere(w)'
    BY <1>2, <2>2, <2>5, LeadsKept DEF Swapping
  <2>6. ASSUME NEW w \in Versions, pointer' = w PROVE LeadsSomewhere(w)'
    BY <1>1, <1>2, <1>4, <2>5, <2>6 DEF ProcessInv, FlipLeads
  <2>7. FlipLeads(p)' /\ SwapsGood(p)'
    BY <2>2 DEF FlipLeads, SwapsGood, Gap
  <2>8. pointer' # 0
    BY <1>4, <2>1
  <2>9. QED
    BY <1>2, <2>2, <2>3, <2>4, <2>5, <2>6, <2>7, <2>8, ProcessStep DEF ProcessInv
<1>5. QED
  BY <1>3, <1>4 DEF Flip

(***************************************************************************)
(* The prune goes on with what is left, or the provisioning is over.       *)
(***************************************************************************)
LEMMA PruneNextFacts ==
    ASSUME IInv, NEW p \in Pids, fs[p] \in {"list", "prune"},
           NEW old \in SUBSET Versions, NEW others \in SUBSET Pids,
           PruneNext(p, old, others), UNCHANGED <<at, want, skip, pointer>>
    PROVE  /\ todo' \in [Pids -> SUBSET Versions] /\ litter' \in [Pids -> SUBSET Pids]
           /\ fs' \in [Pids -> Places]
           /\ job' \in [Pids -> Jobs] /\ goal' \in [Pids -> 0 .. MaxVersion]
           /\ force' \in [Pids -> BOOLEAN]
           /\ fs'[p] \in {"idle", "prune"}
           /\ \A q \in Pids \ {p} : Same(q)
           /\ Busy(p)' /\ Aims(p)' /\ GateHolds(p)'
<1>1. ProcessInv(p) /\ job[p] = "installing"
  BY DEF IInv, ProcessInv, Busy
<1>2. todo' \in [Pids -> SUBSET Versions] /\ litter' \in [Pids -> SUBSET Pids]
  BY DEF PruneNext, IInv, TypeOK
<1>3. CASE old = {} /\ others = {}
  <2>1. JobOver(p) /\ fs' = [fs EXCEPT ![p] = "idle"]
    BY <1>3 DEF PruneNext, Goes
  <2>2. fs' \in [Pids -> Places] /\ fs'[p] = "idle" /\ \A q \in Pids \ {p} : fs'[q] = fs[q]
    BY <2>1 DEF IInv, TypeOK, Places
  <2>3. /\ job' \in [Pids -> Jobs] /\ goal' \in [Pids -> 0 .. MaxVersion]
        /\ force' \in [Pids -> BOOLEAN] /\ job'[p] = "none"
        /\ \A q \in Pids \ {p} : job'[q] = job[q] /\ goal'[q] = goal[q]
    BY <2>1, JobOverFacts DEF IInv
  <2>4. \A q \in Pids \ {p} : Same(q)
    BY <2>2, <2>3 DEF Same
  <2>5. Busy(p)' /\ Aims(p)' /\ GateHolds(p)'
    BY <1>1, <2>2, <2>3 DEF ProcessInv, Busy, Aims, GateHolds, Fits
  <2>6. QED
    BY <1>2, <2>2, <2>3, <2>4, <2>5
<1>4. CASE ~(old = {} /\ others = {})
  <2>1. fs' = [fs EXCEPT ![p] = "prune"] /\ UNCHANGED work
    BY <1>4 DEF PruneNext, Goes
  <2>2. "prune" \in Places \ {"idle"}
    BY DEF Places
  <2>3. /\ fs' \in [Pids -> Places] /\ fs'[p] = "prune"
        /\ \A q \in Pids \ {p} : Same(q)
        /\ Busy(p)' /\ Aims(p)' /\ GateHolds(p)'
    BY <1>1, <2>1, <2>2, ProceedsFacts DEF Verifies
  <2>4. QED
    BY <1>2, <2>1, <2>3 DEF IInv, TypeOK, work
<1>5. QED
  BY <1>3, <1>4

(***************************************************************************)
(* A prune looks for what to remove, or removes what it can of a tree that *)
(* a sibling has set aside.                                                *)
(***************************************************************************)
LEMMA ReapStep == ASSUME IInv, NEW p \in Pids, ListOld(p) \/ Reap(p) PROVE IInv'
<1>1. PICK old \in SUBSET Versions, others \in SUBSET Pids : PruneNext(p, old, others)
  <2>1. CASE ListOld(p)
    BY <2>1 DEF ListOld
  <2>2. CASE Reap(p)
    <3>1. PICK q \in litter[p] : PruneNext(p, todo[p], litter[p] \ {q})
      BY <2>2 DEF Reap
    <3>2. todo[p] \in SUBSET Versions /\ litter[p] \ {q} \in SUBSET Pids
      BY DEF IInv, TypeOK
    <3>3. QED
      BY <3>1, <3>2
  <2>3. QED
    BY <2>1, <2>2
<1>2. /\ UNCHANGED <<published, pointer, tree, at, want, judged, skip, strays, returned>>
      /\ fs[p] \in {"list", "prune"} /\ (Mishap \/ UNCHANGED mishaps)
  BY DEF ListOld, Reap, Removes, disk, boot, past
<1>3. /\ todo' \in [Pids -> SUBSET Versions] /\ litter' \in [Pids -> SUBSET Pids]
      /\ fs' \in [Pids -> Places]
      /\ job' \in [Pids -> Jobs] /\ goal' \in [Pids -> 0 .. MaxVersion]
      /\ force' \in [Pids -> BOOLEAN]
      /\ fs'[p] \in {"idle", "prune"}
      /\ \A q \in Pids \ {p} : Same(q)
      /\ Busy(p)' /\ Aims(p)' /\ GateHolds(p)'
  BY <1>1, <1>2, PruneNextFacts
<1>4. aside' \in [Pids -> Contents]
  BY DEF ListOld, Reap, IInv, TypeOK
<1>5. TypeOK'
  BY <1>2, <1>3, <1>4, MishapFacts DEF IInv, TypeOK
<1>6. fs[p] \notin Gap
  BY <1>2 DEF Gap
<1>7. QED
  BY <1>2, <1>3, <1>5, <1>6, DiskStays DEF Gap

(***************************************************************************)
(* A prune removes what it can of a version, which is a stray from now on. *)
(***************************************************************************)
LEMMA PruneStep == ASSUME IInv, NEW p \in Pids, Prune(p) PROVE IInv'
<1>1. PICK v \in todo[p], rest \in Contents :
          /\ Removes(tree[v], rest)
          /\ PruneNext(p, todo[p] \ {v}, litter[p])
          /\ tree' = [tree EXCEPT ![v] = rest]
          /\ strays' = IF rest = tree[v] THEN strays ELSE strays \cup {v}
  BY DEF Prune
<1>2. /\ UNCHANGED <<published, pointer, at, want, judged, skip, aside, returned>>
      /\ fs[p] = "prune" /\ (Mishap \/ UNCHANGED mishaps)
  BY <1>1 DEF Prune, boot, Removes
<1>3. v \in Versions /\ todo[p] \ {v} \in SUBSET Versions /\ litter[p] \in SUBSET Pids
  BY DEF IInv, TypeOK
<1>4. /\ todo' \in [Pids -> SUBSET Versions] /\ litter' \in [Pids -> SUBSET Pids]
      /\ fs' \in [Pids -> Places]
      /\ job' \in [Pids -> Jobs] /\ goal' \in [Pids -> 0 .. MaxVersion]
      /\ force' \in [Pids -> BOOLEAN]
      /\ fs'[p] \in {"idle", "prune"}
      /\ \A q \in Pids \ {p} : Same(q)
      /\ Busy(p)' /\ Aims(p)' /\ GateHolds(p)'
  BY <1>1, <1>2, <1>3, PruneNextFacts
<1>5. /\ tree' \in [Versions -> Contents] /\ strays' \subseteq Versions
      /\ strays \subseteq strays' /\ \A w \in Versions : w \in strays' \/ tree'[w] = tree[w]
  BY <1>1, <1>3 DEF IInv, TypeOK
<1>6. TypeOK'
  BY <1>2, <1>4, <1>5, MishapFacts DEF IInv, TypeOK
<1>7. BareIsKnown' /\ \A w \in Versions : Good(w) => Good(w)'
  BY <1>2, <1>5 DEF IInv, BareIsKnown, Good
<1>8. ASSUME NEW w \in Versions, LeadsSomewhere(w) PROVE LeadsSomewhere(w)'
  <2>1. CASE w \in strays'
    BY <2>1 DEF LeadsSomewhere
  <2>2. CASE tree'[w] = tree[w]
    BY <1>2, <1>4, <1>5, <1>8, <2>2, LeadsKept DEF Swapping
  <2>3. QED
    BY <1>5, <2>1, <2>2
<1>9. FlipLeads(p)' /\ SwapsGood(p)'
  BY <1>4 DEF FlipLeads, SwapsGood, Gap
<1>10. QED
  BY <1>2, <1>4, <1>6, <1>7, <1>8, <1>9, ProcessStep DEF ProcessInv

-----------------------------------------------------------------------------
(* Crashes and the environment. *)

(***************************************************************************)
(* A crash between two renames makes its version a stray.                  *)
(***************************************************************************)
LEMMA CrashStep == ASSUME IInv, NEW p \in Pids, Crash(p) PROVE IInv'
<1>1. /\ UNCHANGED <<published, pointer, tree, returned>> /\ Gone(p)
      /\ fs' = [fs EXCEPT ![p] = "idle"] /\ todo' = [todo EXCEPT ![p] = {}]
      /\ litter' = [litter EXCEPT ![p] = {}]
      /\ aside' = [aside EXCEPT ![p] = "absent"]
      /\ mishaps' \in 0 .. MaxMishaps
  BY StoreAssumption DEF Crash, Goes, disk, Mishap, IInv, TypeOK
<1>2. /\ fs' \in [Pids -> Places] /\ fs'[p] = "idle"
      /\ todo' \in [Pids -> SUBSET Versions] /\ litter' \in [Pids -> SUBSET Pids]
      /\ aside' \in [Pids -> Contents]
      /\ \A q \in Pids \ {p} : fs'[q] = fs[q]
  BY <1>1 DEF IInv, TypeOK, Places, Contents
<1>3. strays' \subseteq Versions /\ strays \subseteq strays'
      /\ (fs[p] \in Gap => Subject(p) \in strays')
  <2>1. fs[p] \in Gap => Subject(p) \in Versions
    BY DEF IInv, ProcessInv, Busy, Aims, Subject, Gap
  <2>2. QED
    BY <2>1 DEF Crash, Gap, IInv, TypeOK
<1>4. TypeOK'
  BY <1>1, <1>2, <1>3, GoneFacts DEF IInv, TypeOK
<1>5. \A q \in Pids \ {p} : Same(q)
  BY <1>1, <1>2, GoneFacts DEF Same
<1>6. at'[p] = "off" /\ want'[p] = 0 /\ job'[p] = "none"
  BY <1>1, GoneFacts
<1>7. Busy(p)' /\ Aims(p)' /\ GateHolds(p)' /\ FlipLeads(p)' /\ SwapsGood(p)'
  BY <1>2, <1>6 DEF Busy, Aims, GateHolds, FlipLeads, SwapsGood
<1>8. BareIsKnown' /\ \A w \in Versions : Good(w) => Good(w)'
  BY <1>1, <1>3 DEF IInv, BareIsKnown, Good
<1>9. ASSUME NEW w \in Versions, LeadsSomewhere(w) PROVE LeadsSomewhere(w)'
  <2>1. CASE Swapping(p, w)
    BY <1>3, <2>1 DEF LeadsSomewhere, Swapping, Gap
  <2>2. CASE ~Swapping(p, w) /\ \E q \in Pids : Swapping(q, w)
    BY <1>5, <2>2, StillSwapping DEF LeadsSomewhere
  <2>3. CASE ~\E q \in Pids : Swapping(q, w)
    BY <1>1, <1>3, <1>9, <2>3 DEF LeadsSomewhere
  <2>4. QED
    BY <2>1, <2>2, <2>3
<1>10. QED
  BY <1>1, <1>4, <1>5, <1>7, <1>8, <1>9, ProcessStep DEF ProcessInv

(***************************************************************************)
(* Bytes go bad, a version is published, or nothing happens.               *)
(***************************************************************************)
LEMMA EnvironmentStep ==
    ASSUME IInv, Publish \/ (\E v \in Versions : GoBad(v)) \/ UNCHANGED vars
    PROVE  IInv'
<1>1. UNCHANGED <<pointer, at, want, judged, skip, job, goal, force, fs, aside, todo, litter,
                  strays, returned>>
  BY DEF Publish, GoBad, vars, disk, boot, work, sync, past
<1>2. published' \in Versions /\ mishaps' \in 0 .. MaxMishaps
  <2>1. CASE Publish
    BY <2>1, StoreAssumption DEF Publish, IInv, TypeOK, Versions
  <2>2. CASE \E v \in Versions : GoBad(v)
    BY <2>2, StoreAssumption DEF GoBad, Mishap, IInv, TypeOK
  <2>3. CASE UNCHANGED vars
    BY <2>3 DEF vars, disk, IInv, TypeOK
  <2>4. QED
    BY <2>1, <2>2, <2>3
<1>3. /\ tree' \in [Versions -> Contents]
      /\ \A w \in Versions :
             \/ tree'[w] = tree[w]
             \/ tree'[w] \in {"damaged", "rotten"} /\ \A p \in Pids : at[p] # "loading"
  BY DEF Publish, GoBad, vars, disk, IInv, TypeOK, Contents
<1>4. TypeOK'
  BY <1>1, <1>2, <1>3 DEF IInv, TypeOK
<1>5. BareIsKnown'
  BY <1>1, <1>3 DEF IInv, BareIsKnown
<1>6. ASSUME NEW w \in Versions, LeadsSomewhere(w) PROVE LeadsSomewhere(w)'
  BY <1>1, <1>3, <1>6 DEF LeadsSomewhere, Swapping, Subject
<1>7. PointerLeads'
  BY <1>1, <1>6 DEF IInv, PointerLeads
<1>8. ASSUME NEW p \in Pids PROVE ProcessInv(p)'
  <2>1. ProcessInv(p)
    BY DEF IInv
  <2>2. Busy(p)' /\ Aims(p)' /\ GateHolds(p)'
    BY <1>1, <2>1 DEF ProcessInv, Busy, Aims, GateHolds, Fits
  <2>3. FlipLeads(p)'
    BY <1>1, <1>6, <2>1 DEF ProcessInv, FlipLeads
  <2>4. SwapsGood(p)'
    BY <1>1, <1>3, <2>1 DEF ProcessInv, SwapsGood, Good
  <2>5. QED
    BY <2>2, <2>3, <2>4 DEF ProcessInv
<1>9. QED
  BY <1>4, <1>5, <1>7, <1>8 DEF IInv

-----------------------------------------------------------------------------
(* The theorems. *)

(***************************************************************************)
(* The invariant holds at first.                                           *)
(***************************************************************************)
LEMMA InitInv == ASSUME Init PROVE IInv
<1>1. TypeOK
  BY StoreAssumption
     DEF Init, TypeOK, Versions, Contents, Stages, Jobs, Places
<1>2. BareIsKnown /\ PointerLeads
  BY StoreAssumption DEF Init, BareIsKnown, PointerLeads, Versions
<1>3. \A p \in Pids : ProcessInv(p)
  BY DEF Init, ProcessInv, Busy, Aims, GateHolds, FlipLeads, SwapsGood, Gap
<1>4. QED
  BY <1>1, <1>2, <1>3 DEF IInv

(***************************************************************************)
(* Every step keeps the invariant.                                         *)
(***************************************************************************)
LEMMA NextKeepsInv == IInv /\ [Next]_vars => IInv'
<1>1. SUFFICES ASSUME IInv, [Next]_vars PROVE IInv'
  OBVIOUS
<1>2. CASE Publish \/ (\E v \in Versions : GoBad(v)) \/ UNCHANGED vars
  BY <1>1, <1>2, EnvironmentStep
<1>3. ASSUME NEW p \in Pids, BootStep(p) \/ Background(p) \/ Quit(p) PROVE IInv'
  BY <1>1, <1>3, BootingStep, ResolveStep, AskingStep, ProvisionStep, ArtifactStep, QuitStep
     DEF BootStep, Background
<1>4. ASSUME NEW p \in Pids, FileStep(p) PROVE IInv'
  BY <1>1, <1>4, MoveAsideStep, RenameInStep, ClearStep, RenameFailedStep, RestoreStep,
     FlipStep, PruneStep, ReapStep, VerifyStep DEF FileStep
<1>5. ASSUME NEW p \in Pids, Repair(p) \/ FetchFails(p) \/ Crash(p) PROVE IInv'
  BY <1>1, <1>5, AskingStep, ProvisionStep, CrashStep
<1>6. QED
  BY <1>1, <1>2, <1>3, <1>4, <1>5 DEF Next

(***************************************************************************)
(* The invariant always holds.                                             *)
(***************************************************************************)
LEMMA Inductive == Spec => []IInv
<1>1. Init => IInv
  BY InitInv
<1>2. QED
  BY <1>1, NextKeepsInv, PTL DEF Spec

(***************************************************************************)
(* The gate holds: no session runs a module built for a newer host.        *)
(***************************************************************************)
THEOREM StoreIsRight == Spec => []StoreInv
<1>1. ASSUME IInv, NEW p \in Pids, NEW v \in Versions, Runs(p, v) PROVE Fits(p, v)
  <2>1. want[p] = v /\ v # 0
    BY <1>1, StoreAssumption DEF Runs, Versions
  <2>2. QED
    BY <1>1, <2>1 DEF Runs, IInv, ProcessInv, GateHolds
<1>2. IInv => StoreInv
  BY <1>1 DEF StoreInv, RunsOnlyFitting, IInv
<1>3. QED
  BY <1>2, Inductive, PTL

(***************************************************************************)
(* The pointer leads somewhere, or the history says why not.               *)
(***************************************************************************)
THEOREM PointerHolds == Spec => []PointerResolves
<1>1. IInv => PointerResolves
  <2>1. SUFFICES ASSUME IInv, pointer # 0 PROVE LeadsSomewhere(pointer)
    BY DEF PointerResolves
  <2>2. pointer \in Versions
    BY <2>1, StoreAssumption DEF IInv, TypeOK, Versions
  <2>3. QED
    BY <2>1, <2>2 DEF IInv, PointerLeads
<1>2. QED
  BY <1>1, Inductive, PTL

(***************************************************************************)
(* What a boot hands to the importer is whole, but for the two exceptions. *)
(***************************************************************************)
THEOREM LocatedIsGood == Spec => LocatedIsWholeOrPutBack
<1>1. ASSUME IInv, Next, NEW p \in Pids, at[p] = "loading", at'[p] = "located"
      PROVE  tree'[want[p]] = "whole" \/ want[p] \in strays \cup returned
  <2>1. ProcessInv(p)
    BY <1>1 DEF IInv
  <2>2. PICK v : v = want[p]
    OBVIOUS
  <2>3. v \in Versions /\ job[p] # "installing" /\ fs[p] # "idle" /\ Subject(p) = v
    BY <1>1, <2>1, <2>2 DEF ProcessInv, Busy, Aims, Subject
  <2>4. CASE Compare(p)
    <3>1. ~(\E place : Proceeds(p, place))
      BY <1>1 DEF Proceeds
    <3>2. QED
      BY <2>2, <2>4, <3>1 DEF Compare, disk
  <2>5. CASE RenameIn(p)
    <3>1. ~(\E place : Proceeds(p, place))
      BY <1>1 DEF Proceeds
    <3>2. tree' = [tree EXCEPT ![v] = "whole"]
      BY <2>3, <2>5, <3>1 DEF RenameIn
    <3>3. QED
      BY <1>1, <2>2, <2>3, <3>2 DEF IInv, TypeOK
  <2>6. CASE RenameFailed(p)
    <3>1. ~(\E place : Proceeds(p, place)) /\ ~Throws(p)
      <4>1. ~Throws(p)
        BY <1>1, <2>3, <2>6, ThrowsFacts DEF RenameFailed, disk
      <4>2. QED
        BY <1>1, <4>1 DEF Proceeds
    <3>2. tree[v] # "absent" /\ fs[p] \in Gap /\ UNCHANGED tree
      BY <2>1, <2>3, <2>6, <3>1 DEF RenameFailed, disk, ProcessInv, Busy, Gap
    <3>3. Good(v)
      BY <1>1, <2>1, <2>2, <2>3, <3>2 DEF ProcessInv, SwapsGood
    <3>4. QED
      BY <2>2, <3>2, <3>3 DEF Good
  <2>7. CASE ~(Compare(p) \/ RenameIn(p) \/ RenameFailed(p))
    <3>1. PICK q \in Pids :
              \/ BootStep(q) \/ FileStep(q) \/ Background(q) \/ Quit(q)
              \/ Repair(q) \/ FetchFails(q) \/ Crash(q)
      BY <1>1 DEF Next, Publish, GoBad, boot
    <3>2. CASE BootStep(q) \/ Quit(q) \/ Repair(q) \/ FetchFails(q) \/ Crash(q)
               \/ Background(q)
      BY <1>1, <3>2
         DEF BootStep, Boot, FirstUnlock, Resolve, NothingLocated, ReadAbi, Import, Quit, Gone,
             Repair, FetchFails, Crash, Background, Cure, Freshen, ManifestArrives,
             ArtifactArrives, boot, IInv, TypeOK
    <3>3. CASE FileStep(q)
      <4>1. q = p
        BY <1>1, <3>3
           DEF FileStep, MoveAside, RenameIn, Clear, RenameFailed, Restore, Flip, ListOld,
               Prune, Reap, VerifyArtifact, Compare, Succeeds, Throws, NothingLocated, Proceeds, boot,
               IInv, TypeOK
      <4>2. ~Clear(p)
        BY <2>1, <2>3 DEF Clear, ProcessInv, Busy
      <4>3. Throws(p) \/ UNCHANGED at
        BY <2>7, <3>3, <4>1, <4>2
           DEF FileStep, MoveAside, Restore, Flip, ListOld, Prune, Reap, VerifyArtifact,
               Proceeds, boot
      <4>4. UNCHANGED <<want, pointer>>
        BY <1>1, <2>7, <3>3, <4>1, <4>2, <4>3, <2>3
           DEF FileStep, MoveAside, Restore, Flip, ListOld, Prune, Reap, VerifyArtifact,
               Proceeds, Throws, disk, boot
      <4>5. QED
        BY <1>1, <2>3, <4>3, <4>4, ThrowsFacts
    <3>4. QED
      BY <3>1, <3>2, <3>3
  <2>8. QED
    BY <2>4, <2>5, <2>6, <2>7
<1>2. IInv /\ [Next]_vars =>
          [\A p \in Pids :
               Located(p) => \/ tree'[want[p]] = "whole"
                             \/ want[p] \in strays \cup returned]_vars
  BY <1>1 DEF Located
<1>3. QED
  BY <1>2, Inductive, PTL DEF LocatedIsWholeOrPutBack, Spec
=============================================================================
