---------------------------- MODULE MCReconciler ----------------------------
(***************************************************************************)
(* Reconciler on small instances: one address that DNS returns or not, two *)
(* specs to switch between (and back).                                     *)
(***************************************************************************)
EXTENDS Reconciler

CONSTANTS s1, s2, a1

MCAnswers == {{}, {a1}}

=============================================================================
