----------------------------- MODULE MCRpcSystem -----------------------------
(***************************************************************************)
(* RpcSystem for TLC.  The bounds are in the configuration.                *)
(***************************************************************************)
EXTENDS RpcSystem
=============================================================================
