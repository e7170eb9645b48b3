----------------------------- MODULE MCClientRpc -----------------------------
(* Small instances of ClientRpc for TLC. *)
EXTENDS ClientRpc, TLC

Symmetry == Permutations(Callers) \cup Permutations(Ids)
==============================================================================
