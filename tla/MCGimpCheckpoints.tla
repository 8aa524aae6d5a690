-------------------------- MODULE MCGimpCheckpoints --------------------------
EXTENDS GimpCheckpoints, TLC

\* Two tool calls at once, and a third checkpoint that is one too many.
CONSTANTS c1, c2

Symmetric == Permutations(Calls)
=============================================================================
