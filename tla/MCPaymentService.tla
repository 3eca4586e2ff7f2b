--------------------------- MODULE MCPaymentService ---------------------------
(* Instances of PaymentService for TLC.                                      *)
EXTENDS PaymentService, TLC

\* Payments and pool threads are interchangeable.
Symmetry == Permutations(Payments) \cup Permutations(Pools)
==============================================================================
