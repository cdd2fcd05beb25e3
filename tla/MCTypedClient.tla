---------------------------- MODULE MCTypedClient ----------------------------
(***************************************************************************)
(* TypedClient for TLC.  The bounds are in the configurations.             *)
(***************************************************************************)
EXTENDS TypedClient
=============================================================================
