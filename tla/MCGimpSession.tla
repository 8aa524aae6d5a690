--------------------------- MODULE MCGimpSession ---------------------------
(***************************************************************************)
(* The GIMP session with a few calls, some of which open an image.         *)
(***************************************************************************)
EXTENDS GimpSession, TLC

Symmetry == Permutations(Calls \ Opens)

=============================================================================
