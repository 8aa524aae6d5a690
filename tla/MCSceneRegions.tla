--------------------------- MODULE MCSceneRegions ---------------------------
(***************************************************************************)
(* SceneRegions for TLC: documents of different names, which are           *)
(* interchangeable, as versions and slots are; one target; of the calls,   *)
(* the selects that are narrowed are the ones told to refresh.             *)
(***************************************************************************)
EXTENDS SceneRegions, TLC

OwnNames == [d \in Docs |-> d]
OneTarget == <<"sky">>
Asked == {m \in Every : m.refresh = m.narrow}
Symmetry == Permutations(Calls) \cup Permutations(Docs) \cup Permutations(Versions)

=============================================================================
