---------------------------- MODULE ModuleStore ----------------------------
(***************************************************************************)
(* The downloaded Pro module on disk and the processes that share it:      *)
(* delivery/store.ts (installModule, pruneOldModuleVersions,               *)
(* loadVerifiedModule), delivery/provision.ts (provisionModules) and       *)
(* kernel/module-lifecycle.ts (resolveProModule, loadModules and the two   *)
(* background tasks).  Every process is entitled.                          *)
(*                                                                         *)
(* The store is a pointer file and one directory per version.  Synchronous *)
(* code of one process is interleaved with that of its siblings and can be *)
(* cut short by a crash, so an action is one access to the file system.    *)
(* A fresh tree is staged, and an old one set aside, under a name with the *)
(* pid of the process.  Siblings leave such a directory alone unless its   *)
(* mtime is more than five minutes past.  One that is being staged is      *)
(* younger than that and not modelled; a tree set aside keeps its mtime.   *)
(***************************************************************************)
EXTENDS Naturals, FiniteSets

CONSTANTS Pids,         \* the processes, each of which may run many times
          MaxVersion,   \* bound on the versions the publisher releases
          Abi,          \* Abi[v]: the abi of the module version v
          HostAbi,      \* HostAbi[p]: KERNEL_ABI of the host that p runs
          Signed2,      \* the versions whose manifest has the v2 fields
          MaxMishaps    \* bound on crashes, bad bytes, failed fetches and
                        \* file operations, and of `editmamei repair`

Versions == 1 .. MaxVersion

ASSUME StoreAssumption ==
    /\ MaxVersion \in Nat \ {0}
    /\ Abi \in [Versions -> Nat]
    /\ HostAbi \in [Pids -> Nat]
    /\ Signed2 \subseteq Versions
    /\ MaxMishaps \in Nat

VARIABLES
    published,  \* latest in the manifest of the delivery service
    pointer,    \* the version that installed.json names, or 0
    tree,       \* tree[v]: what is in the directory of v

    at,         \* at[p]: how far the boot of p is
    want,       \* want[p]: the version its boot has picked or loaded
    judged,     \* judged[p]: the version whose abi the gate looks at, or 0
    skip,       \* skip[p]: moduleSkipReason
    job,        \* job[p]: how far its provisioning is
    goal,       \* goal[p]: the version the provisioning is about
    force,      \* force[p]: the provisioning repairs
    fs,         \* fs[p]: the next file operation of its synchronous code
    aside,      \* aside[p]: what it has renamed away
    todo,       \* todo[p]: the versions its prune has not visited
    litter,     \* litter[p]: those whose aside its prune has not visited

    mishaps,    \* how many things have gone wrong
    strays,     \* the versions that a crash or a prune has taken away, or a
                \* failed swap has not put back
    returned    \* the versions that a failed swap has put back

boot  == <<at, want, judged, skip>>
disk  == <<published, pointer, tree>>
work  == <<job, goal, force>>
sync  == <<fs, aside, todo, litter>>
past  == <<strays, returned>>
vars  == <<disk, boot, work, sync, mishaps, past>>

(***************************************************************************)
(* Contents of a directory: all of it; some unpacked file is wrong or      *)
(* missing; the retained artifact is; the manifest is, in which case       *)
(* readInstalledModule looks away.                                         *)
(***************************************************************************)
Contents == {"absent", "whole", "damaged", "rotten", "bare"}

\* What a recursive removal leaves: it takes files away before the directory,
\* and may be stopped halfway by a file it cannot remove.
Remains(content) ==
    CASE content = "absent" -> {"absent"}
      [] content = "bare"   -> {"bare", "absent"}
      [] content = "rotten" -> {"rotten", "bare", "absent"}
      [] OTHER              -> {content, "damaged", "rotten", "bare", "absent"}

Stages == {"off", "starting", "waiting", "loading", "located", "importing",
           "serving", "settled"}
Jobs   == {"none", "asked", "fetching", "installing"}
Places == {"idle", "verify", "compare", "move", "swap", "swapFailed", "restore",
           "clear", "clearFailed", "place", "placeFailed", "flip", "list", "prune"}

Init ==
    /\ published = 1
    /\ pointer = 0
    /\ tree = [v \in Versions |-> "absent"]
    /\ at = [p \in Pids |-> "off"]
    /\ want = [p \in Pids |-> 0]
    /\ judged = [p \in Pids |-> 0]
    /\ skip = [p \in Pids |-> "none"]
    /\ job = [p \in Pids |-> "none"]
    /\ goal = [p \in Pids |-> 0]
    /\ force = [p \in Pids |-> FALSE]
    /\ fs = [p \in Pids |-> "idle"]
    /\ aside = [p \in Pids |-> "absent"]
    /\ todo = [p \in Pids |-> {}]
    /\ litter = [p \in Pids |-> {}]
    /\ mishaps = 0
    /\ strays = {}
    /\ returned = {}

\* readInstalledModule: the pointer, unless the manifest it leads to is gone.
Installed ==
    IF pointer # 0 /\ tree[pointer] \notin {"absent", "bare"} THEN pointer ELSE 0

\* The version that the synchronous code of p is working on.
Subject(p) == IF job[p] = "installing" THEN goal[p] ELSE want[p]

Goes(p, place) == fs' = [fs EXCEPT ![p] = place]

\* Not in the middle of synchronous code.
Free(p) == fs[p] = "idle"

Mishap == mishaps < MaxMishaps /\ mishaps' = mishaps + 1

-----------------------------------------------------------------------------
(* The environment. *)

Publish ==
    /\ published < MaxVersion
    /\ published' = published + 1
    /\ UNCHANGED <<pointer, tree, boot, work, sync, mishaps, past>>

\* Bytes go bad while nobody is between checking and importing them.
GoBad(v) ==
    /\ Mishap
    /\ tree[v] = "whole"
    /\ \A p \in Pids : at[p] \in {"off", "starting", "waiting", "serving", "settled"}
    /\ \E kind \in {"damaged", "rotten"} : tree' = [tree EXCEPT ![v] = kind]
    /\ UNCHANGED <<published, pointer, boot, work, sync, past>>

-----------------------------------------------------------------------------
(* Provisioning: provisionModules up to its call of installModule.          *)

\* The manifest is what the service held when it was asked.
Ask(p, repair) ==
    /\ job' = [job EXCEPT ![p] = "asked"]
    /\ goal' = [goal EXCEPT ![p] = published]
    /\ force' = [force EXCEPT ![p] = repair]

JobOver(p) ==
    /\ job' = [job EXCEPT ![p] = "none"]
    /\ goal' = [goal EXCEPT ![p] = 0]
    /\ force' = [force EXCEPT ![p] = FALSE]

Fits(p, v) == Abi[v] <= HostAbi[p]

\* Whether the manifest names something to install here: an abi this host
\* runs, not what is installed unless for a repair, and nothing older.
News(p) ==
    LET installed == Installed
    IN  /\ Fits(p, goal[p])
        /\ installed <= goal[p]
        /\ installed = goal[p] => force[p]

ManifestArrives(p) ==
    /\ job[p] = "asked" /\ Free(p)
    /\ IF News(p)
       THEN job' = [job EXCEPT ![p] = "fetching"] /\ UNCHANGED <<goal, force>>
       ELSE JobOver(p)
    /\ UNCHANGED <<disk, boot, sync, mishaps, past>>

\* The artifact and the key are there and verified.  From here on installModule
\* is synchronous; a repair replaces the tree that exists.
ArtifactArrives(p) ==
    /\ job[p] = "fetching" /\ Free(p)
    /\ job' = [job EXCEPT ![p] = "installing"]
    /\ Goes(p, IF force[p] /\ tree[goal[p]] # "absent" THEN "move" ELSE "place")
    /\ UNCHANGED <<disk, boot, goal, force, aside, todo, litter, mishaps, past>>

FetchFails(p) ==
    /\ job[p] \in {"asked", "fetching"} /\ Free(p)
    /\ Mishap
    /\ JobOver(p)
    /\ UNCHANGED <<disk, boot, sync, past>>

-----------------------------------------------------------------------------
(* Putting a fresh tree in place.  installModule and the regeneration in    *)
(* loadVerifiedModule do the same: rename the old tree aside, rename the    *)
(* new one in, remove the old one; on failure leave a sibling's in place or *)
(* put the old back.  An installation fails if it cannot remove the old     *)
(* one, a regeneration does not mind.                                       *)

\* The synchronous code has put a tree in place, or has thrown.
Succeeds(p) ==
    /\ aside' = [aside EXCEPT ![p] = "absent"]
    /\ IF job[p] = "installing"
       THEN Goes(p, "flip") /\ UNCHANGED <<at, skip, work>>
       ELSE Goes(p, "idle") /\ at' = [at EXCEPT ![p] = "located"] /\ UNCHANGED <<skip, work>>

\* A boot without a verified module that finds a pointer file: "corrupt".
NothingLocated(p) ==
    /\ at' = [at EXCEPT ![p] = "serving"]
    /\ skip' = [skip EXCEPT ![p] = IF pointer # 0 THEN "corrupt" ELSE "none"]

Throws(p) ==
    /\ Goes(p, "idle")
    /\ aside' = [aside EXCEPT ![p] = "absent"]
    /\ IF job[p] = "installing"
       THEN JobOver(p) /\ UNCHANGED <<at, skip>>
       ELSE NothingLocated(p) /\ UNCHANGED work

Proceeds(p, place) == Goes(p, place) /\ UNCHANGED <<at, skip, work, aside>>

\* The tree may have been moved by a sibling, be held, or not be staged.
MoveAside(p) ==
    LET v == Subject(p)
    IN  /\ fs[p] = "move"
        /\ \/ /\ tree[v] # "absent"
              /\ aside' = [aside EXCEPT ![p] = tree[v]]
              /\ tree' = [tree EXCEPT ![v] = "absent"]
              /\ Goes(p, "swap")
              /\ UNCHANGED <<at, skip, work, mishaps>>
           \/ /\ (tree[v] = "absent" /\ UNCHANGED mishaps) \/ Mishap
              /\ Throws(p)
              /\ UNCHANGED tree
        /\ UNCHANGED <<published, pointer, want, judged, todo, litter, past>>

\* rename of the staged tree, with an old one aside or without.
RenameIn(p) ==
    LET v == Subject(p)
        failed == IF fs[p] = "swap" THEN "swapFailed" ELSE "placeFailed"
    IN  /\ fs[p] \in {"swap", "place"}
        /\ \/ /\ tree[v] = "absent"
              /\ tree' = [tree EXCEPT ![v] = "whole"]
              /\ strays' = strays \ {v}
              /\ returned' = returned \ {v}
              /\ IF fs[p] = "swap" /\ job[p] = "installing"
                 THEN Proceeds(p, "clear") ELSE Succeeds(p)
              /\ UNCHANGED mishaps
           \/ /\ \/ tree[v] # "absent" /\ UNCHANGED mishaps
                 \/ tree[v] = "absent" /\ Mishap
              /\ Proceeds(p, failed)
              /\ UNCHANGED <<tree, past>>
        /\ UNCHANGED <<published, pointer, want, judged, todo, litter>>

\* An installation removes the old tree within the try of the rename.
Clear(p) ==
    /\ fs[p] = "clear"
    /\ \/ Succeeds(p) /\ UNCHANGED mishaps
       \/ /\ Mishap
          /\ \E rest \in Remains(aside[p]) \ {"absent"} : aside' = [aside EXCEPT ![p] = rest]
          /\ Goes(p, "clearFailed")
          /\ UNCHANGED <<at, skip, work>>
    /\ UNCHANGED <<disk, want, judged, todo, litter, past>>

\* Mutant: the failure of the rename is taken for a sibling's success.
RenameFailedTrusting(p) ==
    /\ fs[p] \in {"swapFailed", "placeFailed", "clearFailed"}
    /\ Succeeds(p)
    /\ UNCHANGED <<disk, want, judged, todo, litter, mishaps, past>>

(***************************************************************************)
(* The catch: the staged tree is removed; then a sibling's is adopted, if  *)
(* there is one, and what is aside removed; or else what is aside is put   *)
(* back.  A removal that throws, of files that made the rename fail        *)
(* perhaps, ends it there, with the old tree still aside.                  *)
(***************************************************************************)
RenameFailed(p) ==
    LET v == Subject(p)
        adopts == tree[v] # "absent"
    IN  /\ fs[p] \in {"swapFailed", "placeFailed", "clearFailed"}
        /\ \/ /\ IF adopts THEN Succeeds(p)
                 ELSE IF fs[p] = "placeFailed" THEN Throws(p)
                 ELSE Proceeds(p, "restore")
              /\ UNCHANGED <<mishaps, strays>>
           \/ /\ IF fs[p] = "placeFailed" THEN Mishap ELSE UNCHANGED mishaps
              /\ fs[p] = "clearFailed" => adopts
              /\ Throws(p)
              /\ strays' = IF ~adopts /\ fs[p] = "swapFailed" THEN strays \cup {v} ELSE strays
        /\ UNCHANGED <<disk, want, judged, todo, litter, returned>>

\* The old tree is renamed back, unless a sibling has put one in its place or
\* has reaped it, or the rename fails like the one before it.
Restore(p) ==
    LET v == Subject(p)
    IN  /\ fs[p] = "restore"
        /\ \/ /\ tree[v] = "absent" /\ aside[p] # "absent"
              /\ tree' = [tree EXCEPT ![v] = aside[p]]
              /\ returned' = returned \cup {v}
              /\ UNCHANGED strays
           \/ /\ strays' = IF tree[v] = "absent" THEN strays \cup {v} ELSE strays
              /\ UNCHANGED <<tree, returned>>
        /\ Throws(p)
        /\ UNCHANGED <<published, pointer, want, judged, todo, litter, mishaps>>

\* The pointer file is written, or cannot be.
Flip(p) ==
    /\ fs[p] = "flip"
    /\ \/ pointer' = goal[p] /\ Proceeds(p, "list") /\ UNCHANGED mishaps
       \/ Mishap /\ Throws(p) /\ UNCHANGED pointer
    /\ UNCHANGED <<published, tree, want, judged, todo, litter, past>>

\* pruneOldModuleVersions: every version but the one just installed.
Superseded(p, v) == v # goal[p] /\ tree[v] # "absent"

\* Goes on with what is left of its list, or is done with the provisioning.
PruneNext(p, old, others) ==
    /\ todo' = [todo EXCEPT ![p] = old]
    /\ litter' = [litter EXCEPT ![p] = others]
    /\ IF old = {} /\ others = {}
       THEN Goes(p, "idle") /\ JobOver(p) ELSE Goes(p, "prune") /\ UNCHANGED work

ListOld(p) ==
    /\ fs[p] = "list"
    /\ PruneNext(p, {v \in Versions : Superseded(p, v)},
                    {q \in Pids \ {p} : aside[q] # "absent"})
    /\ UNCHANGED <<disk, boot, aside, mishaps, past>>

\* A removal that does not get through leaves something behind.
Removes(content, rest) ==
    IF rest = "absent" THEN UNCHANGED mishaps ELSE rest \in Remains(content) /\ Mishap

Prune(p) ==
    /\ fs[p] = "prune"
    /\ \E v \in todo[p], rest \in Contents :
         /\ Removes(tree[v], rest)
         /\ PruneNext(p, todo[p] \ {v}, litter[p])
         /\ tree' = [tree EXCEPT ![v] = rest]
         /\ strays' = IF rest = tree[v] THEN strays ELSE strays \cup {v}
    /\ UNCHANGED <<published, pointer, boot, aside, returned>>

\* A tree that a sibling has set aside counts as a leftover of a crash if it
\* was installed more than five minutes ago.
Reap(p) ==
    /\ fs[p] = "prune"
    /\ \E q \in litter[p], rest \in Contents :
         /\ Removes(aside[q], rest)
         /\ PruneNext(p, todo[p], litter[p] \ {q})
         /\ aside' = [aside EXCEPT ![q] = rest]
    /\ UNCHANGED <<disk, boot, past>>

-----------------------------------------------------------------------------
(* Boot. *)

Boot(p) ==
    /\ at[p] = "off" /\ job[p] = "none"
    /\ at' = [at EXCEPT ![p] = "starting"]
    /\ UNCHANGED <<skip, disk, want, judged, work, sync, mishaps, past>>

\* `editmamei repair`: a process that only provisions.
Repair(p) ==
    /\ at[p] = "off" /\ job[p] = "none"
    /\ Mishap
    /\ Ask(p, TRUE)
    /\ UNCHANGED <<disk, boot, sync, past>>

\* maybeActivateFromEnv: without a module the boot fetches one and waits.
FirstUnlock(p) ==
    /\ at[p] = "starting"
    /\ Installed = 0
    /\ at' = [at EXCEPT ![p] = "waiting"]
    /\ Ask(p, FALSE)
    /\ UNCHANGED <<disk, want, judged, skip, sync, mishaps, past>>

\* The boot waits for the fetch no longer than a deadline, and the fetch goes
\* on without it.  loadVerifiedModule then reads the pointer.
Resolve(p) ==
    /\ at[p] \in {"starting", "waiting"} /\ Free(p)
    /\ want' = [want EXCEPT ![p] = Installed]
    /\ IF Installed # 0
       THEN Goes(p, "verify") /\ at' = [at EXCEPT ![p] = "loading"] /\ UNCHANGED skip
       ELSE NothingLocated(p) /\ UNCHANGED fs
    /\ UNCHANGED <<disk, judged, work, aside, todo, litter, mishaps, past>>

VerifyArtifact(p) ==
    /\ fs[p] = "verify"
    /\ IF tree[want[p]] \in {"whole", "damaged"} THEN Proceeds(p, "compare") ELSE Throws(p)
    /\ UNCHANGED <<disk, want, judged, todo, litter, mishaps, past>>

\* Mutant: with the v2 fields the tree is not looked at.
CompareNothing(p) ==
    /\ fs[p] = "compare"
    /\ IF want[p] \in Signed2 THEN Succeeds(p) ELSE Proceeds(p, "move")
    /\ UNCHANGED <<disk, want, judged, todo, litter, mishaps, past>>

\* The fast path of the v2 fields, or else the tree is made anew.
Compare(p) ==
    /\ fs[p] = "compare"
    /\ IF want[p] \in Signed2 /\ tree[want[p]] = "whole"
       THEN Succeeds(p) ELSE Proceeds(p, "move")
    /\ UNCHANGED <<disk, want, judged, todo, litter, mishaps, past>>

\* resolveProModule reads the pointer once more, for the abi.
ReadAbi(p) ==
    /\ at[p] = "located" /\ Free(p)
    /\ judged' = [judged EXCEPT ![p] = Installed]
    /\ at' = [at EXCEPT ![p] = "importing"]
    /\ UNCHANGED <<disk, want, skip, work, sync, mishaps, past>>

\* Mutant: the abi in the module's own manifest is not compared.
AcceptedByPointer(p) == judged[p] # 0 => Fits(p, judged[p])

\* The gate on the pointer's abi, and the kernel's on the module's own.
Accepted(p) == (judged[p] # 0 => Fits(p, judged[p])) /\ Fits(p, want[p])

\* loadModules: the module is loaded, or nothing of it.
Import(p) ==
    LET v == want[p]
    IN  /\ at[p] = "importing" /\ Free(p)
        /\ at' = [at EXCEPT ![p] = "serving"]
        /\ \/ /\ Accepted(p) /\ tree[v] \notin {"absent", "bare"}
              /\ UNCHANGED skip
           \/ /\ ~Accepted(p) \/ tree[v] \in {"absent", "bare", "damaged"}
              /\ skip' = [skip EXCEPT ![p] = "incompatible"]
        /\ judged' = [judged EXCEPT ![p] = 0]
        /\ UNCHANGED <<disk, want, work, sync, mishaps, past>>

-----------------------------------------------------------------------------
(* After the transport is connected. *)

\* Mutant: a module that does not verify is fetched, but not as a repair.
CureGently(p) ==
    /\ at[p] = "serving" /\ job[p] = "none"
    /\ skip[p] # "none"
    /\ at' = [at EXCEPT ![p] = "settled"]
    /\ Ask(p, FALSE)
    /\ UNCHANGED <<disk, want, judged, skip, sync, mishaps, past>>

\* reprovisionIfModuleSkipped
Cure(p) ==
    /\ at[p] = "serving" /\ job[p] = "none"
    /\ skip[p] # "none"
    /\ at' = [at EXCEPT ![p] = "settled"]
    /\ Ask(p, skip[p] = "corrupt")
    /\ UNCHANGED <<disk, want, judged, skip, sync, mishaps, past>>

\* ensureEntitledModuleFresh, when the last poll is long enough ago.
Freshen(p) ==
    /\ at[p] = "serving" /\ job[p] = "none"
    /\ skip[p] = "none"
    /\ at' = [at EXCEPT ![p] = "settled"]
    /\ Ask(p, FALSE)
    /\ UNCHANGED <<disk, want, judged, skip, sync, mishaps, past>>

\* Nothing of a process outlives it but what it wrote.
Gone(p) ==
    /\ at' = [at EXCEPT ![p] = "off"]
    /\ want' = [want EXCEPT ![p] = 0]
    /\ judged' = [judged EXCEPT ![p] = 0]
    /\ skip' = [skip EXCEPT ![p] = "none"]
    /\ JobOver(p)

\* A session lasts until its background work is over; one that is shorter
\* is a crash.
Quit(p) ==
    /\ at[p] = "settled" /\ job[p] = "none"
    /\ Gone(p)
    /\ UNCHANGED <<disk, sync, mishaps, past>>

\* Killed, perhaps between two file operations.
Crash(p) ==
    /\ at[p] # "off" \/ job[p] # "none"
    /\ Mishap
    /\ Gone(p)
    /\ Goes(p, "idle")
    /\ strays' = IF fs[p] \in {"swap", "swapFailed", "restore"}
                 THEN strays \cup {Subject(p)} ELSE strays
    /\ todo' = [todo EXCEPT ![p] = {}]
    /\ litter' = [litter EXCEPT ![p] = {}]
    /\ aside' = [aside EXCEPT ![p] = "absent"]
    /\ UNCHANGED <<disk, returned>>

FileStep(p) ==
    \/ MoveAside(p) \/ RenameIn(p) \/ Clear(p) \/ RenameFailed(p) \/ Restore(p)
    \/ Flip(p) \/ ListOld(p) \/ Prune(p) \/ Reap(p)
    \/ VerifyArtifact(p) \/ Compare(p)

BootStep(p) ==
    Boot(p) \/ FirstUnlock(p) \/ Resolve(p) \/ ReadAbi(p) \/ Import(p)

Background(p) == Cure(p) \/ Freshen(p) \/ ManifestArrives(p) \/ ArtifactArrives(p)

Next ==
    \/ Publish
    \/ \E v \in Versions : GoBad(v)
    \/ \E p \in Pids :
         \/ BootStep(p) \/ FileStep(p) \/ Background(p) \/ Quit(p)
         \/ Repair(p) \/ FetchFails(p) \/ Crash(p)

\* Processes go on, requests are answered, sessions end and begin again.
Fairness ==
    \A p \in Pids : WF_vars(BootStep(p) \/ FileStep(p) \/ Background(p) \/ Quit(p))

Spec == Init /\ [][Next]_vars /\ Fairness

-----------------------------------------------------------------------------
(* Properties. *)

TypeOK ==
    /\ published \in Versions
    /\ pointer \in 0 .. MaxVersion
    /\ tree \in [Versions -> Contents]
    /\ at \in [Pids -> Stages]
    /\ want \in [Pids -> 0 .. MaxVersion]
    /\ judged \in [Pids -> 0 .. MaxVersion]
    /\ skip \in [Pids -> {"none", "corrupt", "incompatible"}]
    /\ job \in [Pids -> Jobs]
    /\ goal \in [Pids -> 0 .. MaxVersion]
    /\ force \in [Pids -> BOOLEAN]
    /\ fs \in [Pids -> Places]
    /\ aside \in [Pids -> Contents]
    /\ todo \in [Pids -> SUBSET Versions]
    /\ litter \in [Pids -> SUBSET Pids]
    /\ mishaps \in 0 .. MaxMishaps
    /\ strays \subseteq Versions
    /\ returned \subseteq Versions

(***************************************************************************)
(* "A concurrent sibling's regen won the race and already swapped in an    *)
(* identical tree": what loadVerifiedModule hands to the importer is       *)
(* whole, however it came by it: compared, regenerated or adopted.  There  *)
(* are two exceptions: an installer of another version is removing the     *)
(* tree, or a sibling whose own swap failed has put back what it had       *)
(* renamed away, or what a prune had left of that.                         *)
(***************************************************************************)
Located(p) == at[p] = "loading" /\ at'[p] = "located"

LocatedIsWholeOrPutBack ==
    [][\A p \in Pids :
         Located(p) => \/ tree'[want[p]] = "whole"
                       \/ want[p] \in strays \cup returned]_vars

(***************************************************************************)
(* The pointer leads to an installed tree, except in the gap between two   *)
(* renames of that version, after a crash in that gap or the prune of an   *)
(* installer of another version has taken it away, or after a failed swap  *)
(* has put back what was bad, or could put back nothing: the rename failed *)
(* again, or a sibling had reaped the tree set aside.                      *)
(***************************************************************************)
Swapping(p, v) == fs[p] \in {"swap", "swapFailed", "restore"} /\ Subject(p) = v

LeadsSomewhere(v) ==
    \/ tree[v] \notin {"absent", "bare"}
    \/ v \in strays \cup returned
    \/ \E p \in Pids : Swapping(p, v)

PointerResolves == pointer # 0 => LeadsSomewhere(pointer)

(***************************************************************************)
(* The abi is judged by a second read of the pointer, between which and    *)
(* the load a host of another abi may move it: even so, no session runs a  *)
(* module that was built for a newer host.                                 *)
(***************************************************************************)
Runs(p, v) == at[p] \in {"serving", "settled"} /\ want[p] = v /\ skip[p] = "none"

RunsOnlyFitting == \A p \in Pids, v \in Versions : Runs(p, v) => Fits(p, v)

(***************************************************************************)
(* The store heals: whatever crashes, bad bytes and races have done to it, *)
(* sessions that come and go bring back the published version, whole, and  *)
(* keep it.  Only two processes whose swaps collide again and again, each  *)
(* putting back what the other has to repair, could prevent it.            *)
(***************************************************************************)
Healthy ==
    /\ pointer = published
    /\ tree[pointer] = "whole" \/ \E p \in Pids : Swapping(p, pointer)

Collision == Cardinality({p \in Pids : ~Free(p)}) > 1

Heals == <>[]~Collision => <>[]Healthy

\* The state of the boots, the disk and the provisioning, and the gate: no
\* session runs a module that does not fit, by whatever path it was loaded.
StoreInv == TypeOK /\ RunsOnlyFitting

=============================================================================
