----------------------------- MODULE MCDashboard -----------------------------
(***************************************************************************)
(* Instances of Dashboard.                                                 *)
(***************************************************************************)
EXTENDS Dashboard
=============================================================================
