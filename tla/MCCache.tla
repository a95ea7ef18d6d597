------------------------------- MODULE MCCache -------------------------------
(***************************************************************************)
(* Cache for TLC.  Three keys compete for two places; keys are             *)
(* interchangeable, and so are responses.                                  *)
(***************************************************************************)
EXTENDS Cache

CONSTANTS k1, k2, k3, v1, v2

MCKeys == {k1, k2, k3}
MCVals == {v1, v2}
Symmetry == Permutations(MCKeys) \cup Permutations(MCVals)
=============================================================================
