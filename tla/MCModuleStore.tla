--------------------------- MODULE MCModuleStore ---------------------------
EXTENDS ModuleStore

\* Two releases, the second of which needs a newer host than one process has.
CONSTANTS old, new

MCAbi == [v \in Versions |-> v]
MCHostAbi == [p \in Pids |-> IF p = old THEN 1 ELSE 2]
=============================================================================
