----------------------------- MODULE MCConnection -----------------------------
(* Connection for TLC: a few requests, pipelined and not.                    *)
EXTENDS Connection
==============================================================================
