------------------------------ MODULE MCLibrary ------------------------------
(***************************************************************************)
(* Library for TLC.  The bounds are in the configuration.                  *)
(***************************************************************************)
EXTENDS Library
=============================================================================
