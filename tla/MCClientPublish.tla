--------------------------- MODULE MCClientPublish ---------------------------
(* Small instances of ClientPublish for TLC. *)
EXTENDS ClientPublish, TLC

Symmetry == Permutations(Threads) \cup Permutations(Keys)
==============================================================================
