------------------------------ MODULE MCFailover ------------------------------
(* Instances of Failover for TLC.                                            *)
EXTENDS Failover

\* Three lasting conditions, and 200 or 500 at any time.
AllConditions == {"ok", "error", "unreachable", "erratic"}
==============================================================================
