----------------------------- MODULE MCLifecycle -----------------------------
(* Instance of Lifecycle for TLC: the constants are in the configuration. *)
EXTENDS Lifecycle
=============================================================================
