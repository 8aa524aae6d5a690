-------------------------- MODULE SessionRecovery --------------------------
(***************************************************************************)
(* The session summaries of telemetry: outbox.ts (session-state files) and *)
(* client.ts (recordCall, shutdown, flushOutboxOnStartup).  Server         *)
(* processes share one directory.  A process that records tool calls keeps *)
(* a snapshot of its counts in telemetry-session.<pid>.json and removes it *)
(* when it shuts down cleanly, after it has written the summary itself.  A *)
(* starting process claims the snapshots of processes that are no longer   *)
(* running by renaming them to .session-recover.<pid>.<original name>,     *)
(* writes the summaries they stand for, and deletes them.                  *)
(*                                                                         *)
(* Each step is one access to the file system; the synchronous code of one *)
(* process is interleaved with that of the others and can be cut short by  *)
(* a kill anywhere.  The outbox the summaries are appended to is the       *)
(* subject of TelemetryOutbox; here a summary is written or it is not.     *)
(***************************************************************************)
EXTENDS Naturals, FiniteSets

CONSTANTS Pids,         \* process ids
          Unclaimed,    \* in place of a claimant: the file of the session itself
          MaxSessions,  \* bound on the number of boots
          MaxKills,     \* bound on the number of kills
          Recycled      \* whether the pid of a dead process is given out again

ASSUME SessionAssumption ==
    /\ IsFiniteSet(Pids)
    /\ Unclaimed \notin Pids
    /\ MaxSessions \in Nat
    /\ MaxKills \in Nat
    /\ Recycled \in BOOLEAN

VARIABLES
    session,    \* session[p]: the session the process p serves or last served, or 0
    usage,      \* usage[p]: consent to usage telemetry, read at boot
    called,     \* called[p]: toolCallCount > 0
    pc,         \* pc[p]: where the process is
    listed,     \* listed[p]: the names readdir returned and the loop has not visited
    claimed,    \* claimed[p]: the names claimOrphanedSessionStates has claimed
    file        \* file[n]: the session whose snapshot is under the name n, or 0

\* History of what was written, and the counters behind the bounds.
VARIABLES boots, kills, persisted, clean, rebuilt, withdrawn, exposed

system  == <<session, usage, called, pc, listed, claimed, file>>
history == <<boots, kills, persisted, clean, rebuilt, withdrawn, exposed>>
vars    == <<system, history>>

Sessions == 1 .. MaxSessions

\* <<Unclaimed, q>> is telemetry-session.<q>.json, <<p, q>> the same file
\* once p has claimed it.
Names == (Pids \cup {Unclaimed}) \X Pids

Snapshot(p) == <<Unclaimed, p>>

\* The process a file belongs to: its claimant, or else its writer.
Holder(n) == IF n[1] = Unclaimed THEN n[2] ELSE n[1]

Running(p) == pc[p] # "off"

Places == {"off", "listing", "taking", "reporting", "releasing", "serving",
           "summing", "clearing", "closed"}

Init ==
    /\ session = [p \in Pids |-> 0]
    /\ usage = [p \in Pids |-> FALSE]
    /\ called = [p \in Pids |-> FALSE]
    /\ pc = [p \in Pids |-> "off"]
    /\ listed = [p \in Pids |-> {}]
    /\ claimed = [p \in Pids |-> {}]
    /\ file = [n \in Names |-> 0]
    /\ boots = 0
    /\ kills = 0
    /\ persisted = {}
    /\ clean = {}
    /\ rebuilt = [s \in Sessions |-> 0]
    /\ withdrawn = {}
    /\ exposed = {}

(***************************************************************************)
(* A server process starts and comes to flushOutboxOnStartup, in the same  *)
(* synchronous stretch in which it connects: before it has recorded a call *)
(* (so includeOwn holds).                                                  *)
(***************************************************************************)
Boot(p) ==
    /\ pc[p] = "off"
    /\ boots < MaxSessions
    /\ Recycled \/ session[p] = 0
    /\ boots' = boots + 1
    /\ session' = [session EXCEPT ![p] = boots + 1]
    /\ \E consent \in BOOLEAN : usage' = [usage EXCEPT ![p] = consent]
    /\ called' = [called EXCEPT ![p] = FALSE]
    /\ pc' = [pc EXCEPT ![p] = "listing"]
    /\ UNCHANGED <<listed, claimed, file, kills, persisted, clean, rebuilt,
                   withdrawn, exposed>>

(***************************************************************************)
(* claimOrphanedSessionStates: readdir, then the names in any order.  A    *)
(* name is passed over when its holder is running, when the name to claim  *)
(* it under is taken, or when the rename finds it gone.                    *)
(***************************************************************************)
List(p) ==
    /\ pc[p] = "listing"
    /\ listed' = [listed EXCEPT ![p] = {n \in Names : file[n] # 0}]
    /\ pc' = [pc EXCEPT ![p] = "taking"]
    /\ UNCHANGED <<session, usage, called, claimed, file, history>>

\* Mutant: the files of running processes are taken too.
TakeableAlways(p, n) == TRUE

Takeable(p, n) == Holder(n) = p \/ ~Running(Holder(n))

ClaimName(p, n) == <<p, n[2]>>

Take(p) ==
    /\ pc[p] = "taking"
    /\ \E n \in listed[p] :
         LET target == ClaimName(p, n)
             own    == n[1] = p
             moves  == ~own /\ file[target] = 0 /\ file[n] # 0
             taken  == Takeable(p, n) /\ (own \/ moves)
         IN  /\ listed' = [listed EXCEPT ![p] = @ \ {n}]
             /\ claimed' = IF taken THEN [claimed EXCEPT ![p] = @ \cup {target}]
                           ELSE claimed
             /\ file' = IF taken /\ moves
                        THEN [file EXCEPT ![target] = file[n], ![n] = 0]
                        ELSE file
    /\ UNCHANGED <<session, usage, called, pc, history>>

AllTaken(p) ==
    /\ pc[p] = "taking"
    /\ listed[p] = {}
    /\ pc' = [pc EXCEPT ![p] = "reporting"]
    /\ UNCHANGED <<session, usage, called, listed, claimed, file, history>>

(***************************************************************************)
(* The claimed snapshots are read and the summaries they stand for are     *)
(* appended to the outbox, unless usage telemetry is off by now.  Nobody   *)
(* else writes a claimed file, so reading them is no step of its own.      *)
(***************************************************************************)
Claimed(p, s) == {n \in claimed[p] : file[n] = s}

Report(p) ==
    /\ pc[p] = "reporting"
    /\ IF usage[p]
       THEN /\ rebuilt' = [s \in Sessions |-> rebuilt[s] + Cardinality(Claimed(p, s))]
            /\ UNCHANGED withdrawn
       ELSE /\ withdrawn' = withdrawn \cup {s \in Sessions : Claimed(p, s) # {}}
            /\ UNCHANGED rebuilt
    /\ pc' = [pc EXCEPT ![p] = "releasing"]
    /\ UNCHANGED <<session, usage, called, listed, claimed, file, boots, kills,
                   persisted, clean, exposed>>

(***************************************************************************)
(* release: the claimed files are deleted, or emptied, which reads as no   *)
(* state.  The deletions are one step: a kill between two of them leaves a *)
(* part of what a kill before the first leaves.                            *)
(***************************************************************************)
Release(p) ==
    /\ pc[p] = "releasing"
    /\ file' = [n \in Names |-> IF n \in claimed[p] THEN 0 ELSE file[n]]
    /\ claimed' = [claimed EXCEPT ![p] = {}]
    /\ pc' = [pc EXCEPT ![p] = "serving"]
    /\ UNCHANGED <<session, usage, called, listed, history>>

(***************************************************************************)
(* recordCall: nothing keeps a call that ends after shutdown from being    *)
(* recorded.  The first call of a session writes the snapshot, later ones  *)
(* when the throttle allows it.  The write is a rename and replaces what   *)
(* is under the name.                                                      *)
(***************************************************************************)
RecordCall(p) ==
    /\ pc[p] \in {"serving", "closed"}
    /\ usage[p]
    /\ called' = [called EXCEPT ![p] = TRUE]
    /\ \/ /\ file' = [file EXCEPT ![Snapshot(p)] = session[p]]
          /\ persisted' = persisted \cup {session[p]}
          /\ exposed' = exposed \cup (clean \cap {session[p]})
       \/ /\ called[p]
          /\ UNCHANGED <<file, persisted, exposed>>
    /\ UNCHANGED <<session, usage, pc, listed, claimed, boots, kills, clean,
                   rebuilt, withdrawn>>

\* Mutant: the snapshot is removed before the summary is written.
ShutdownClearsFirst(p) ==
    /\ pc[p] = "serving"
    /\ file' = [file EXCEPT ![Snapshot(p)] = 0]
    /\ \/ usage[p] /\ pc' = [pc EXCEPT ![p] = "summing"]
       \/ ~(usage[p] /\ called[p]) /\ pc' = [pc EXCEPT ![p] = "clearing"]
    /\ UNCHANGED <<session, usage, called, listed, claimed, history>>

(***************************************************************************)
(* shutdown: a summary when a call was recorded or a loss is to be         *)
(* reported, then the snapshot is removed.                                 *)
(***************************************************************************)
Shutdown(p) ==
    /\ pc[p] = "serving"
    /\ \/ usage[p] /\ pc' = [pc EXCEPT ![p] = "summing"]
       \/ ~(usage[p] /\ called[p]) /\ pc' = [pc EXCEPT ![p] = "clearing"]
    /\ UNCHANGED <<session, usage, called, listed, claimed, file, history>>

Summarise(p) ==
    /\ pc[p] = "summing"
    /\ clean' = clean \cup {session[p]}
    /\ pc' = [pc EXCEPT ![p] = "clearing"]
    /\ UNCHANGED <<session, usage, called, listed, claimed, file, boots, kills,
                   persisted, rebuilt, withdrawn, exposed>>

\* Mutant: the snapshot outlives a clean shutdown.
ClearNothing(p) ==
    /\ pc[p] = "clearing"
    /\ pc' = [pc EXCEPT ![p] = "closed"]
    /\ UNCHANGED <<session, usage, called, listed, claimed, file, history>>

Clear(p) ==
    /\ pc[p] = "clearing"
    /\ file' = [file EXCEPT ![Snapshot(p)] = 0]
    /\ pc' = [pc EXCEPT ![p] = "closed"]
    /\ UNCHANGED <<session, usage, called, listed, claimed, history>>

(***************************************************************************)
(* The process ends: by itself once it has shut down, or killed anywhere.  *)
(* What a kill leaves half done is noted: a summary is written and the     *)
(* snapshot it was made from is still there.                               *)
(***************************************************************************)
Ended(p) ==
    /\ pc' = [pc EXCEPT ![p] = "off"]
    /\ listed' = [listed EXCEPT ![p] = {}]
    /\ claimed' = [claimed EXCEPT ![p] = {}]

Exit(p) ==
    /\ pc[p] = "closed"
    /\ Ended(p)
    /\ UNCHANGED <<session, usage, called, file, history>>

HalfDone(p) ==
    CASE pc[p] = "releasing" -> {s \in Sessions : Claimed(p, s) # {}}
      [] pc[p] = "clearing"  -> {session[p]}
      [] OTHER               -> {}

Die(p) ==
    /\ Running(p)
    /\ kills < MaxKills
    /\ kills' = kills + 1
    /\ exposed' = exposed \cup HalfDone(p)
    /\ Ended(p)
    /\ UNCHANGED <<session, usage, called, file, boots, persisted, clean,
                   rebuilt, withdrawn>>

Next ==
    \E p \in Pids :
        \/ Boot(p)
        \/ List(p)
        \/ Take(p)
        \/ AllTaken(p)
        \/ Report(p)
        \/ Release(p)
        \/ RecordCall(p)
        \/ Shutdown(p)
        \/ Summarise(p)
        \/ Clear(p)
        \/ Exit(p)
        \/ Die(p)

Spec == Init /\ [][Next]_vars

-----------------------------------------------------------------------------

\* Every variable has its type, and only a startup that has not come to its
\* release holds names, its own.
TypeOK ==
    /\ session \in [Pids -> 0 .. MaxSessions]
    /\ usage \in [Pids -> BOOLEAN]
    /\ called \in [Pids -> BOOLEAN]
    /\ pc \in [Pids -> Places]
    /\ listed \in [Pids -> SUBSET Names]
    /\ claimed \in [Pids -> SUBSET Names]
    /\ \A p \in Pids : \A n \in claimed[p] :
         n[1] = p /\ pc[p] \in {"taking", "reporting", "releasing"}
    /\ file \in [Names -> 0 .. MaxSessions]
    /\ boots \in 0 .. MaxSessions
    /\ kills \in 0 .. MaxKills
    /\ persisted \subseteq Sessions
    /\ clean \subseteq Sessions
    /\ rebuilt \in [Sessions -> Nat]
    /\ withdrawn \subseteq Sessions
    /\ exposed \subseteq Sessions

(***************************************************************************)
(* Only sessions of processes that are gone are recovered: a claimed       *)
(* snapshot never belongs to a process that is still running.              *)
(***************************************************************************)
RecoveredAreDead ==
    \A n \in Names, q \in Pids :
        n[1] # Unclaimed /\ file[n] # 0 /\ Running(q) => file[n] # session[q]

(***************************************************************************)
(* A session that left a snapshot is not forgotten, whatever is killed     *)
(* when: the snapshot is there, or a summary was written, or the consent   *)
(* to write one was withdrawn.                                             *)
(***************************************************************************)
NoSessionForgotten ==
    \A s \in persisted :
        \/ s \in clean \cup withdrawn
        \/ rebuilt[s] > 0
        \/ \E n \in Names : file[n] = s

(***************************************************************************)
(* A session is reported twice only when a kill came between a summary and *)
(* the removal of the snapshot, or when a call was recorded after its      *)
(* clean summary: siblings that start together never do it.                *)
(***************************************************************************)
ReportedOnce ==
    \A s \in Sessions \ exposed :
        rebuilt[s] + (IF s \in clean THEN 1 ELSE 0) <= 1

(***************************************************************************)
(* Snapshots, claims and counters are well formed, and no session is       *)
(* reported twice without a reason.                                        *)
(***************************************************************************)
SummaryInv == TypeOK /\ ReportedOnce

=============================================================================
