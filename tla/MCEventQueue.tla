---------------------------- MODULE MCEventQueue ----------------------------
(***************************************************************************)
(* EventQueue for TLC: two calls, batches of one and two events, a pipe    *)
(* that fills after two signals.                                           *)
(***************************************************************************)
EXTENDS EventQueue

=============================================================================
