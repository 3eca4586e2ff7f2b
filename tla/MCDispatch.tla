------------------------------ MODULE MCDispatch ------------------------------
(* Dispatch for TLC: two workers, more payments than workers.                *)
EXTENDS Dispatch
==============================================================================
