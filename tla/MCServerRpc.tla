----------------------------- MODULE MCServerRpc -----------------------------
(* Small instances of ServerRpc for TLC. *)
EXTENDS ServerRpc, TLC
==============================================================================
