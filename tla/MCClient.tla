------------------------------ MODULE MCClient ------------------------------
(***************************************************************************)
(* Client for TLC.  The bounds are in the configurations.                  *)
(***************************************************************************)
EXTENDS Client
=============================================================================
