----------------------------- MODULE GimpBackend -----------------------------
(***************************************************************************)
(* What the gimp_* tools call (backends/gimp/backend.ts), over the session *)
(* of GimpSession: the session is made at the first call; the search for   *)
(* GIMP, when the time box of the boot cut it short, is made again once;   *)
(* and a backend that was shut down stays shut, session or not.            *)
(*                                                                         *)
(* Actions are the code between two awaits, and wait until it is Quiet, as *)
(* in GimpSession.  A handler that asks for a path in the session's root   *)
(* first (prepare, tempPath) does what call does, and in the same order:   *)
(* it too waits for the search, and has the session made or is refused.    *)
(***************************************************************************)
EXTENDS GimpSession

VARIABLES
    there,              \* where a GIMP is on this machine
    pathGiven,          \* a path is configured (the word "flatpak" always leads to one)
    installInfo,        \* the backend has an install
    redetectPending,    \* one more search is owed
    made,               \* session is not undefined
    closed,
    at,                 \* where a call is before the session has it
    overtaken           \* history: the calls that came while it was under way

machineVars == <<there, pathGiven>>
searchVars  == <<installInfo, redetectPending>>
backendVars == <<machineVars, searchVars, made, closed, at, overtaken>>
allVars     == <<vars, backendVars>>

Refusals == {"not_installed", "closed", "over_budget"}

BackendTypeOK ==
    /\ there \in {"nowhere", "at the path", "in a usual place"}
    /\ {pathGiven, installInfo, redetectPending, made, closed} \subseteq BOOLEAN
    /\ at \in [Calls -> {"unasked", "searching", "session"} \cup Refusals]
    /\ overtaken \subseteq Calls

(***************************************************************************)
(* detectGimp: the configured path first, then the usual places.           *)
(***************************************************************************)
\* Mutant: the configured path is not handed on.
FindableUsually == there = "in a usual place"

Findable == there = "in a usual place" \/ (pathGiven /\ there = "at the path")

(***************************************************************************)
(* The boot: the search ends in time, or its result is taken for "none"    *)
(* and a search is owed.  (Without an install only the pin "gimp" makes a  *)
(* backend at all.)                                                        *)
(***************************************************************************)
BackendInit ==
    /\ Init
    /\ there \in {"nowhere", "at the path", "in a usual place"}
    /\ pathGiven \in BOOLEAN
    /\ redetectPending \in BOOLEAN
    /\ installInfo = (~redetectPending /\ Findable)
    /\ made = FALSE
    /\ closed = FALSE
    /\ at = [c \in Calls |-> "unasked"]
    /\ overtaken = {}

-----------------------------------------------------------------------------
(***************************************************************************)
(* call after maybeRedetect: the budget of the tool is used up (its path   *)
(* may have been asked for, and the session be made), or ensureSession     *)
(* refuses, or hands over a session, made now if need be.                  *)
(***************************************************************************)
Refused(c, why) == at' = [at EXCEPT ![c] = why] /\ UNCHANGED vars

HasSession == ~closed /\ installInfo'          \* ensureSession does not throw

\* Mutant: ensureSession does not look whether the backend is closed.
ProceedsUnchecked(c) ==
    IF installInfo' THEN /\ made' = TRUE
                         /\ at' = [at EXCEPT ![c] = "session"]
                         /\ Issue(c)
                    ELSE Refused(c, "not_installed") /\ UNCHANGED made

Proceeds(c) ==
    \/ /\ Refused(c, "over_budget")
       /\ made' \in {made, made \/ HasSession}
    \/ closed /\ Refused(c, "closed") /\ UNCHANGED made
    \/ ~closed /\ ~installInfo' /\ Refused(c, "not_installed") /\ UNCHANGED made
    \/ /\ HasSession
       /\ made' = TRUE
       /\ at' = [at EXCEPT ![c] = "session"]
       /\ Issue(c)

(***************************************************************************)
(* maybeRedetect: the first call makes the search that is owed; every      *)
(* other goes on at once, with the install there is.                       *)
(***************************************************************************)
Ask(c) ==
    /\ Quiet
    /\ at[c] = "unasked"
    /\ IF redetectPending
       THEN /\ redetectPending' = FALSE
            /\ at' = [at EXCEPT ![c] = "searching"]
            /\ UNCHANGED <<vars, installInfo, made, overtaken>>
       ELSE /\ UNCHANGED searchVars
            /\ overtaken' = IF \E d \in Calls : at[d] = "searching"
                            THEN overtaken \cup {c} ELSE overtaken
            /\ Proceeds(c)
    /\ UNCHANGED <<machineVars, closed>>

SearchEnds(c) ==
    /\ Quiet
    /\ at[c] = "searching"
    /\ installInfo' = Findable
    /\ Proceeds(c)
    /\ UNCHANGED <<machineVars, redetectPending, closed, overtaken>>

(***************************************************************************)
(* shutdown, called when the transport closes or by stop: the second call  *)
(* awaits the shutdown of the first.                                       *)
(***************************************************************************)
BackendShutdown ==
    /\ Quiet
    /\ ~closed
    /\ closed' = TRUE
    /\ IF made THEN Shutdown ELSE UNCHANGED vars
    /\ UNCHANGED <<machineVars, searchVars, made, at, overtaken>>

(***************************************************************************)
(* The session does the rest.                                              *)
(***************************************************************************)
SessionStep(step) == step /\ UNCHANGED backendVars

BackendNext ==
    \/ \E c \in Calls : Ask(c) \/ SearchEnds(c)
    \/ BackendShutdown
    \/ \E c \in Calls : SessionStep(CallStep(c))
    \/ SessionStep(AttemptStep)
    \/ SessionStep(ShutdownStep)
    \/ \E p \in Numbers : SessionStep(ProcessStep(p))

BackendSpec == BackendInit /\ [][BackendNext]_allVars

(***************************************************************************)
(* Fairness: the session's own timers fire and its polls go on, and the    *)
(* file system answers the search, which has no time box of its own.       *)
(* Nothing is assumed of GIMP, not even that it ends when it is killed.    *)
(***************************************************************************)
BackendFairness ==
    /\ \A c \in Calls : WF_allVars(SessionStep(CallStep(c))) /\ WF_allVars(SearchEnds(c))
    /\ WF_allVars(SessionStep(AttemptStep))
    /\ WF_allVars(SessionStep(ShutdownStep))

FairBackendSpec == BackendSpec /\ BackendFairness

-----------------------------------------------------------------------------
(***************************************************************************)
(* "A real answer, not a rushed one" (backend.ts:74): no call is told that *)
(* there is no GIMP while one is in a usual place or where the user has    *)
(* said, but for those that came while the search was under way.           *)
(***************************************************************************)
IsThere == there = "in a usual place" \/ (pathGiven /\ there = "at the path")

RefusalsAreReal ==
    \A c \in Calls : at[c] = "not_installed" => ~IsThere \/ c \in overtaken

(***************************************************************************)
(* "A brand new GIMP process behind a backend the host already considers   *)
(* shut down" (backend.ts:64) cannot be: whenever the shutdown came, before*)
(* the first call or during the search of one, a closed backend either has *)
(* no session or has shut it down, and when that is over no process is     *)
(* left that was not killed.                                               *)
(***************************************************************************)
NothingBehindAClosedBackend ==
    closed => /\ IF made THEN ShuttingDown ELSE starts = 0 /\ queue = <<>>
              /\ made => shut # "done" \/ \A p \in Numbers : Lives(p) => p \in killed

(***************************************************************************)
(* The backend is well formed, and silent once it is closed.               *)
(***************************************************************************)
BackendInv == BackendTypeOK /\ NothingBehindAClosedBackend

(***************************************************************************)
(* Every call returns, although GIMP may hang and survive its kill, those  *)
(* that waited for the search included; and a shutdown is completed, and   *)
(* no start attempt outlives it.  Neither waits for the other.             *)
(***************************************************************************)
Over(c) == at[c] \in Refusals \/ pc[c] = "done"

BackendAnswers ==
    /\ \A c \in Calls : at[c] \in {"searching", "session"} ~> Over(c)
    /\ closed ~> ~made \/ (shut = "done" /\ attempt = "none")

=============================================================================
