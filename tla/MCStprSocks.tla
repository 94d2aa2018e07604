---------------------------- MODULE MCStprSocks ------------------------------
(* Values for the constants of StprSocks.                                  *)
EXTENDS StprSocks

CONSTANTS w, v, i

TwoWaiters == {w, v}
OneInterrupter == {i}
=============================================================================
