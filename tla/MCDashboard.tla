---------------------------- MODULE MCDashboard -----------------------------
(***************************************************************************)
(* Three requests of one user for TLC.                                     *)
(***************************************************************************)
EXTENDS Dashboard

\* A read beside both kinds of mutation; the reject's first GET may share its call.
MCMixes == {[r1 |-> "read", r2 |-> "planner", r3 |-> "forced"]}
=============================================================================
