--------------------------- MODULE MCSummaryFanout ----------------------------
(***************************************************************************)
(* SummaryFanout for two instances and the requests of a few clients.      *)
(***************************************************************************)
EXTENDS SummaryFanout, TLC

Symmetry == Permutations(Requests) \union Permutations(Instances)
==============================================================================
