---------------------------- MODULE MCLifecycle ----------------------------
(***************************************************************************)
(* Lifecycle for TLC, with named connections.                              *)
(***************************************************************************)
EXTENDS Lifecycle

CONSTANTS c1, c2, c3
=============================================================================
