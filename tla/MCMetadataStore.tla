---------------------------- MODULE MCMetadataStore ----------------------------
(***************************************************************************)
(* MetadataStore with three processes and up to two agents.                *)
(***************************************************************************)
EXTENDS MetadataStore, TLC

Symmetry == Permutations(Procs)
=============================================================================
