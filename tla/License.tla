------------------------------ MODULE License ------------------------------
(***************************************************************************)
(* The license of one device: license/entitlement.ts over the record and   *)
(* the backoff marker of license/store.ts, the service that keeps the      *)
(* seats (license/polar-client.ts), and the callers of license/            *)
(* env-activation.ts, license/ping-refresh.ts, index.ts and cli/.          *)
(*                                                                         *)
(* A task is one run of activate, refresh or deactivate.  Tasks of one     *)
(* process and of several look the same: between two requests a task runs  *)
(* synchronously, which is one action here, and everything may happen      *)
(* while it awaits an answer.  There is one key, without an end date, and  *)
(* it is in the environment of every server.  The clock is right.          *)
(***************************************************************************)
EXTENDS Naturals, FiniteSets

CONSTANTS Servers,     \* tasks that servers start, on boot or at a ping
          Commands,    \* tasks that the command line starts
          Ids,         \* names for activations, used again once forgotten
          MaxSeats,    \* the activations that the service admits
          MaxTroubles  \* bound on lost requests and answers, crashes, seats
                       \* removed in the portal, and deactivations

Tasks == Servers \cup Commands

ASSUME LicenseAssumption ==
    /\ Servers \cap Commands = {}
    /\ MaxSeats \in Nat /\ MaxTroubles \in Nat
    /\ IsFiniteSet(Tasks)
    /\ IsFiniteSet(Ids) /\ 0 \notin Ids
    /\ Cardinality(Ids) > MaxSeats + 2 * Cardinality(Tasks)

VARIABLES
    status,    \* what the service says of the key
    live,      \* the activations of this device that hold a seat
    rec,       \* license.json
    marker,    \* validate_retry_after lies ahead
    pc,        \* pc[t]: what t does next
    job,       \* job[t]: who has started it, and what for
    seen,      \* seen[t]: the activation in the record that t has read, or 0
    reply,     \* reply[t]: the verdict that is on its way to t
    taken,     \* taken[t]: the activation that is on its way to t, or 0
    troubles,  \* how many things have gone wrong
    excused    \* activations that a lost answer or a race has cut off

service == <<status, live>>
home    == <<rec, marker>>
mind    == <<job, seen, reply, taken>>
vars    == <<service, home, pc, mind, troubles, excused>>

Statuses == {"granted", "revoked"}
Ages     == {"fresh", "stale", "expired"}
NoRec    == [act |-> 0, status |-> "granted", removed |-> FALSE, age |-> "fresh"]
Recs     == [act : Ids, status : Statuses, removed : BOOLEAN, age : Ages]
NoReply  == [status |-> "granted", gone |-> FALSE]
Replies  == [status : Statuses, gone : BOOLEAN]

Jobs == {"none", "env", "reactivate", "stale", "activate", "license", "deactivate"}
Pcs  == {"idle", "validate", "validateKey", "judge", "activate", "record", "free", "clear"}

Init ==
    /\ status = "granted" /\ live = {}
    /\ rec = NoRec /\ marker = FALSE
    /\ pc = [t \in Tasks |-> "idle"]
    /\ job = [t \in Tasks |-> "none"]
    /\ seen = [t \in Tasks |-> 0]
    /\ reply = [t \in Tasks |-> NoReply]
    /\ taken = [t \in Tasks |-> 0]
    /\ troubles = 0
    /\ excused = {}

\* evaluateEntitlement
Entitled ==
    /\ rec # NoRec
    /\ rec.status = "granted" /\ ~rec.removed /\ rec.age # "expired"

Trouble == troubles < MaxTroubles /\ troubles' = troubles + 1

Goes(t, place) == pc' = [pc EXCEPT ![t] = place]

Start(t, what, place) ==
    /\ pc[t] = "idle"
    /\ Goes(t, place)
    /\ job' = [job EXCEPT ![t] = what]
    /\ seen' = [seen EXCEPT ![t] = rec.act]
    /\ UNCHANGED <<service, home, reply, taken, excused>>

End(t) ==
    /\ Goes(t, "idle")
    /\ job' = [job EXCEPT ![t] = "none"]
    /\ seen' = [seen EXCEPT ![t] = 0]
    /\ reply' = [reply EXCEPT ![t] = NoReply]
    /\ taken' = [taken EXCEPT ![t] = 0]

-----------------------------------------------------------------------------
(* What starts a task. *)

\* maybeActivateFromEnv, with no record.
EnvActivate(t) ==
    /\ rec = NoRec
    /\ Start(t, "env", "activate") /\ UNCHANGED troubles

\* reactivateAtBoot
Reactivate(t) ==
    /\ rec # NoRec /\ rec.removed /\ rec.status = "granted"
    /\ ~marker
    /\ Start(t, "reactivate", "validate") /\ UNCHANGED troubles

\* refreshIfStale, on boot or at a ping.
RefreshIfStale(t) ==
    /\ rec # NoRec /\ rec.status = "granted" /\ rec.age # "fresh"
    /\ ~marker
    /\ Start(t, "stale", "validate") /\ UNCHANGED troubles

\* Mutant: a device that holds a seat takes another one.
ActivateAnew(t) == Start(t, "activate", "activate") /\ UNCHANGED troubles

\* `editmamei activate`: with a record, it is validated first.
CliActivate(t) ==
    /\ Start(t, "activate", IF rec = NoRec THEN "activate" ELSE "validate")
    /\ UNCHANGED troubles

\* `editmamei license`
CliLicense(t) ==
    /\ rec # NoRec
    /\ Start(t, "license", "validate") /\ UNCHANGED troubles

\* `editmamei deactivate`
Deactivate(t) ==
    /\ rec # NoRec
    /\ Trouble
    /\ Start(t, "deactivate", IF rec.removed THEN "clear" ELSE "free")

-----------------------------------------------------------------------------
(* Requests. *)

\* activate goes on to take a seat if the record turns out to hold none.
Renews(t) == job[t] \in {"activate", "reactivate"}

\* A failure of this task is noted: no other attempt for a while.
Notes(t) == job[t] \in {"stale", "reactivate"}

Fails(t) ==
    /\ marker' = (marker \/ Notes(t))
    /\ UNCHANGED rec
    /\ End(t)

\* The service judges an activation, and a key alone if it knows of none.
Validate(t) ==
    /\ \/ /\ pc[t] = "validate"
          /\ IF seen[t] \in live
             THEN reply' = [reply EXCEPT ![t] = [status |-> status, gone |-> FALSE]] /\ Goes(t, "judge")
             ELSE Goes(t, "validateKey") /\ UNCHANGED reply
       \/ /\ pc[t] = "validateKey"
          /\ reply' = [reply EXCEPT ![t] = [status |-> status, gone |-> TRUE]]
          /\ Goes(t, "judge")
    /\ UNCHANGED <<service, home, job, seen, taken, troubles, excused>>

Used == live \cup {rec.act} \cup {seen[t] : t \in Tasks} \cup {taken[t] : t \in Tasks}

NewId == CHOOSE a \in Ids \ Used : TRUE

Room == Cardinality(live) < MaxSeats

\* Activations stack: every request that is granted takes a seat.
TakeSeat(t) ==
    /\ pc[t] = "activate"
    /\ IF Room /\ status = "granted"
       THEN /\ live' = live \cup {NewId}
            /\ taken' = [taken EXCEPT ![t] = NewId]
            /\ Goes(t, "record")
            /\ UNCHANGED <<home, job, seen, reply>>
       ELSE Fails(t) /\ UNCHANGED live
    /\ UNCHANGED <<status, troubles, excused>>

FreeSeat(t) ==
    /\ pc[t] = "free"
    /\ live' = live \ {seen[t]}
    /\ excused' = excused \cap live'
    /\ Goes(t, "clear")
    /\ UNCHANGED <<status, home, mind, troubles>>

\* A request or its answer is lost, as often as it is tried again.
RequestFails(t) ==
    /\ Trouble
    /\ \/ /\ pc[t] \in {"validate", "validateKey", "judge", "activate", "record"}
          /\ Fails(t)
          /\ excused' = (excused \cup {taken[t]}) \cap live
       \/ /\ pc[t] = "free"
          /\ Goes(t, "clear")
          /\ excused' = (excused \cup {seen[t]}) \cap live
          /\ UNCHANGED <<home, mind>>
    /\ UNCHANGED service

-----------------------------------------------------------------------------
(* Answers. *)

\* Mutant: a refresh updates the time of the check alone.
VerdictOfRecord(t) ==
    [act |-> seen[t], status |-> rec.status, removed |-> reply[t].gone, age |-> "fresh"]

Verdict(t) ==
    [act |-> seen[t], status |-> reply[t].status, removed |-> reply[t].gone, age |-> "fresh"]

\* Where activate goes after the refresh it began with.
AfterRefresh(t, removed) ==
    IF Renews(t) /\ removed
    THEN /\ Goes(t, "activate")
         /\ reply' = [reply EXCEPT ![t] = NoReply]
         /\ UNCHANGED <<job, seen, taken>>
    ELSE End(t)

\* Mutant: the record is not read again after the requests.
JudgeBlindly(t) ==
    /\ pc[t] = "judge"
    /\ rec' = Verdict(t)
    /\ marker' = FALSE
    /\ AfterRefresh(t, reply[t].gone)
    /\ UNCHANGED <<service, troubles, excused>>

\* refresh, from the verdict on: the record may be another one by now.
Judge(t) ==
    /\ pc[t] = "judge"
    /\ IF rec.act = seen[t]
       THEN /\ rec' = Verdict(t)
            /\ marker' = FALSE
            /\ AfterRefresh(t, reply[t].gone)
       ELSE /\ AfterRefresh(t, rec = NoRec \/ rec.removed)
            /\ UNCHANGED home
    /\ UNCHANGED <<service, troubles, excused>>

\* A record that is replaced or removed by a task that has not read it.
CutOff(t) == IF rec.act # seen[t] THEN {rec.act} ELSE {}

\* activate, from the new seat on.
Record(t) ==
    /\ pc[t] = "record"
    /\ rec' = [act |-> taken[t], status |-> "granted", removed |-> FALSE, age |-> "fresh"]
    /\ marker' = FALSE
    /\ excused' = (excused \cup CutOff(t)) \cap live
    /\ End(t)
    /\ UNCHANGED <<service, troubles>>

\* deactivate, however its request went.
Clear(t) ==
    /\ pc[t] = "clear"
    /\ rec' = NoRec
    /\ marker' = FALSE
    /\ excused' = (excused \cup CutOff(t)) \cap live
    /\ End(t)
    /\ UNCHANGED <<service, troubles>>

\* The process of the task ends, or is killed.
Crash(t) ==
    /\ pc[t] # "idle"
    /\ Trouble
    /\ End(t)
    /\ excused' = (excused \cup {taken[t]}) \cap live
    /\ UNCHANGED <<service, home>>

-----------------------------------------------------------------------------
(* The environment. *)

PortalRemove ==
    /\ Trouble
    /\ \E a \in live : live' = live \ {a}
    /\ excused' = excused \cap live'
    /\ UNCHANGED <<status, home, pc, mind>>

Revoke ==
    /\ status = "granted"
    /\ status' = "revoked"
    /\ UNCHANGED <<live, home, pc, mind, troubles, excused>>

\* The time that the marker names has come.
MarkerPasses ==
    /\ marker
    /\ marker' = FALSE
    /\ UNCHANGED <<service, rec, pc, mind, troubles, excused>>

\* A day passes, or what is left of the grace period.
Age ==
    /\ rec # NoRec /\ rec.age # "expired"
    /\ rec' = [rec EXCEPT !.age = IF @ = "fresh" THEN "stale" ELSE "expired"]
    /\ UNCHANGED <<service, marker, pc, mind, troubles, excused>>

Boot(t) == EnvActivate(t) \/ Reactivate(t) \/ RefreshIfStale(t)

Proceed(t) ==
    Validate(t) \/ TakeSeat(t) \/ FreeSeat(t) \/ Judge(t) \/ Record(t) \/ Clear(t)

Next ==
    \/ \E t \in Servers : Boot(t)
    \/ \E t \in Commands : CliActivate(t) \/ CliLicense(t) \/ Deactivate(t)
    \/ \E t \in Tasks : Proceed(t) \/ RequestFails(t) \/ Crash(t)
    \/ PortalRemove \/ Revoke \/ MarkerPasses \/ Age

\* Servers are started again and pinged, requests are answered, time passes.
Fairness ==
    /\ \A t \in Servers : WF_vars(Boot(t) \/ Proceed(t)) /\ SF_vars(Reactivate(t))
    /\ \A t \in Commands : WF_vars(Proceed(t))
    /\ WF_vars(MarkerPasses)
    /\ WF_vars(Age)

Spec == Init /\ [][Next]_vars /\ Fairness

-----------------------------------------------------------------------------
(* Properties. *)

TypeOK ==
    /\ status \in Statuses
    /\ live \subseteq Ids
    /\ rec \in Recs \cup {NoRec} /\ marker \in BOOLEAN
    /\ pc \in [Tasks -> Pcs]
    /\ job \in [Tasks -> Jobs]
    /\ seen \in [Tasks -> Ids \cup {0}]
    /\ reply \in [Tasks -> Replies]
    /\ taken \in [Tasks -> Ids \cup {0}]
    /\ troubles \in 0 .. MaxTroubles
    /\ excused \subseteq live

(***************************************************************************)
(* "Losing its id would make the next attempt take another one": a seat of *)
(* this device that its record does not name, and that no task is about to *)
(* record, comes of an answer that was lost, or of a record that was       *)
(* replaced or removed by a task that had not read it.                     *)
(***************************************************************************)
Orphans ==
    {a \in live : rec.act # a /\ \A t \in Tasks : taken[t] # a}

OrphansHaveACause == Orphans \subseteq excused

(***************************************************************************)
(* A record that says that its activation was removed is right: activate,  *)
(* which takes a new seat for it, abandons none.                           *)
(***************************************************************************)
RemovedIsTrue == rec.removed => rec.act \notin live

(***************************************************************************)
(* "A deactivate or a new activation may have landed during those          *)
(* requests": no verdict brings back a record that has been cleared, or    *)
(* overwrites that of another activation.  Only a new seat does.           *)
(***************************************************************************)
NeverRevived ==
    [][rec'.act # rec.act => rec' = NoRec \/ \E t \in Tasks : rec'.act = taken[t]]_vars

(***************************************************************************)
(* "A machine with a cached license and working network never reaches      *)
(* grace-expired": a device whose key is good, and for which there is a    *)
(* seat, is entitled again and again, whatever has been lost before.       *)
(***************************************************************************)
Seated == Room \/ rec.act \in live

Recovers == <>[](status = "granted" /\ Seated) => []<>Entitled

(***************************************************************************)
(* A key that is revoked unlocks nothing in the end, though answers from   *)
(* before the revocation may arrive after those that tell of it.           *)
(***************************************************************************)
RevocationLands == []<>(status = "revoked") => <>[]~Entitled

(***************************************************************************)
(* The verdicts of the service take effect in the end, either way.         *)
(***************************************************************************)
VerdictsLand == Recovers /\ RevocationLands

\* The record and the seats: what license.json says of a removed activation
\* is right, and a seat it does not name was lost for a reason.
LicenseInv == TypeOK /\ RemovedIsTrue /\ OrphansHaveACause

=============================================================================
