------------------------------ MODULE MCServer ------------------------------
(***************************************************************************)
(* Server for TLC.  The bounds are in the configurations.                  *)
(***************************************************************************)
EXTENDS Server
=============================================================================
