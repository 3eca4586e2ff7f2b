------------------------------ MODULE MCSummary -------------------------------
(***************************************************************************)
(* Summary with a vector of a few buckets, a clock that runs past its end, *)
(* and a word just large enough for every timestamp asked for.             *)
(***************************************************************************)
EXTENDS Summary, TLC

Symmetry == Permutations(Writers)
==============================================================================
