---------------------------- MODULE MCRpcSystem ------------------------------
(* Small instances of RpcSystem for TLC. *)
EXTENDS RpcSystem, TLC
==============================================================================
