-------------------------- MODULE MCViewAlgorithms --------------------------
(* Four classes, or four atoms. *)
EXTENDS ViewAlgorithms
=============================================================================
