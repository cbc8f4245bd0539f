---------------------------- MODULE MCTokenQuota ----------------------------
(***************************************************************************)
(* Small instances of TokenQuota for TLC.                                  *)
(***************************************************************************)
EXTENDS TokenQuota, TLC

MixedDeltas == {-2, 1, 3}

Symmetry == Permutations(Callers)
=============================================================================
