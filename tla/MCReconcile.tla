----------------------------- MODULE MCReconcile -----------------------------
(***************************************************************************)
(* A small instance of Reconcile: one name in the root.                   *)
(***************************************************************************)
EXTENDS Reconcile, TLC

CONSTANT a

RootPaths == {<<a>>}
=============================================================================
