----------------------------- MODULE SerialLine -----------------------------
(***************************************************************************)
(* What the script queue promises, without its loop, its timers and its    *)
(* child processes: callers stand in one line in the order they came, only *)
(* the one at the head is served, and each is answered once - at the head, *)
(* possibly before its service ends, at the latest when it leaves.         *)
(***************************************************************************)
EXTENDS Sequences

CONSTANTS Tasks, Answers

VARIABLES
    line,       \* the tasks that have arrived and not left, head in service
    came,       \* the tasks that have ever arrived
    answer      \* answer[t]: the answers t has been given, one at most

vars == <<line, came, answer>>

Init ==
    /\ line = <<>>
    /\ came = {}
    /\ answer = [t \in Tasks |-> {}]

Arrive(t) ==
    /\ t \notin came
    /\ came' = came \cup {t}
    /\ line' = Append(line, t)
    /\ UNCHANGED answer

AnswerHead(a) ==
    /\ line # <<>>
    /\ answer[Head(line)] = {}
    /\ answer' = [answer EXCEPT ![Head(line)] = {a}]
    /\ UNCHANGED <<line, came>>

Leave(a) ==
    /\ line # <<>>
    /\ line' = Tail(line)
    /\ answer' = IF answer[Head(line)] = {}
                 THEN [answer EXCEPT ![Head(line)] = {a}]
                 ELSE answer
    /\ UNCHANGED came

Next ==
    \/ \E t \in Tasks : Arrive(t)
    \/ \E a \in Answers : AnswerHead(a) \/ Leave(a)

Spec == Init /\ [][Next]_vars

=============================================================================
