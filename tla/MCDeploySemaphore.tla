------------------------- MODULE MCDeploySemaphore -------------------------
(***************************************************************************)
(* Finite instances of DeploySemaphore.                                    *)
(***************************************************************************)
EXTENDS DeploySemaphore

CONSTANTS d1, d2, d3
=============================================================================
