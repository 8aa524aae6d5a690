--------------------------- MODULE SessionContract ---------------------------
(***************************************************************************)
(* What the tools may rely on when they call a GIMP session, without its   *)
(* processes, its files and its start attempts: calls are taken one at a   *)
(* time in the order they were issued, each is run once at most, and it is *)
(* run only in the generation it was issued in.                            *)
(***************************************************************************)
EXTENDS Naturals, Sequences

CONSTANT Calls

VARIABLES
    generation,     \* how many times the session has died
    open,           \* shutdown has not begun
    line,           \* the calls that have not returned, in order
    fate,           \* what has become of each call
    issuedIn        \* the generation each call was issued in

vars == <<generation, open, line, fate, issuedIn>>

Init ==
    /\ generation = 0
    /\ open = TRUE
    /\ line = <<>>
    /\ fate = [c \in Calls |-> "unissued"]
    /\ issuedIn = [c \in Calls |-> 0]

Issue(c) ==
    /\ fate[c] = "unissued"
    /\ fate' = [fate EXCEPT ![c] = "waiting"]
    /\ issuedIn' = [issuedIn EXCEPT ![c] = generation]
    /\ line' = Append(line, c)
    /\ UNCHANGED <<generation, open>>

Run(c) ==
    /\ line # <<>> /\ c = Head(line)
    /\ fate[c] = "waiting"
    /\ open
    /\ issuedIn[c] = generation
    /\ fate' = [fate EXCEPT ![c] = "running"]
    /\ UNCHANGED <<generation, open, line, issuedIn>>

Leaves(c, from, to) ==
    /\ line # <<>> /\ c = Head(line)
    /\ fate[c] \in from
    /\ fate' = [fate EXCEPT ![c] = to]
    /\ line' = Tail(line)
    /\ UNCHANGED <<open, issuedIn>>

Answer(c) == Leaves(c, {"running"}, "answered") /\ UNCHANGED generation

(***************************************************************************)
(* The session died under a call, or what became of the call is unknown,   *)
(* or no session could be had; the session may die with that very step.    *)
(***************************************************************************)
Lose(c) ==
    /\ Leaves(c, {"waiting", "running"}, "lost")
    /\ generation' \in {generation, generation + 1}

Refuse(c) ==
    /\ Leaves(c, {"waiting"}, "refused")
    /\ generation' \in {generation, generation + 1}

Die ==
    /\ generation' = generation + 1
    /\ UNCHANGED <<open, line, fate, issuedIn>>

Close ==
    /\ open' = FALSE
    /\ UNCHANGED <<generation, line, fate, issuedIn>>

Next ==
    \/ \E c \in Calls : Issue(c) \/ Run(c) \/ Answer(c) \/ Lose(c) \/ Refuse(c)
    \/ Die
    \/ Close

Spec == Init /\ [][Next]_vars

=============================================================================
