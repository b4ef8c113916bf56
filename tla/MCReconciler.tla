---------------------------- MODULE MCReconciler ----------------------------
(***************************************************************************)
(* Small instances of Reconciler for TLC.                                  *)
(***************************************************************************)
EXTENDS Reconciler

CONSTANTS r1, a1

\* The daemon starts with one preview running.
DeployedOne == {<<r1, a1>>}
=============================================================================
