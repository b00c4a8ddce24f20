---------------------------- MODULE MCLifecycle ----------------------------
(* Constants of Lifecycle are given in the configurations. *)
EXTENDS Lifecycle
=============================================================================
