------------------------------- MODULE MCRuntime -------------------------------
(***************************************************************************)
(* Runtime with two agents whose streams fill up and wrap.                 *)
(***************************************************************************)
EXTENDS Runtime, TLC

Symmetry == Permutations(Configured)
=============================================================================
