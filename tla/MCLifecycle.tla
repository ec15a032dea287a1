---------------------------- MODULE MCLifecycle -----------------------------
(***************************************************************************)
(* Instances of Lifecycle: the commands an operator may run on one home.   *)
(***************************************************************************)
EXTENDS Lifecycle
=============================================================================
