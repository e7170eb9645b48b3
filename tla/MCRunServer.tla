---------------------------- MODULE MCRunServer ------------------------------
(* Small instances of RunServer for TLC. *)
EXTENDS RunServer, TLC
==============================================================================
