------------------------- MODULE MCTelemetryOutbox -------------------------
(***************************************************************************)
(* TelemetryOutbox for TLC: the processes that run are interchangeable,    *)
(* and so are the events they record.                                      *)
(***************************************************************************)
EXTENDS TelemetryOutbox, TLC

CONSTANTS e1, e2, e3

LeftBehind == <<e1, e2, e3>>

Symmetry == Permutations(Processes \ Departed) \cup Permutations(Events \ Range(Left))

=============================================================================
