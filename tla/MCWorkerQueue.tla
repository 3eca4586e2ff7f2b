--------------------------- MODULE MCWorkerQueue ---------------------------
(* Instances of WorkerQueue for TLC.                                        *)
EXTENDS WorkerQueue, TLC

\* REST threads, and payments, are interchangeable.
Symmetry == Permutations(RestThreads) \cup Permutations(Payments)
=============================================================================
