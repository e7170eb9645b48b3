---------------------------- MODULE MCClientLife -----------------------------
(* A small instance of ClientLife for TLC. *)
EXTENDS ClientLife, TLC
==============================================================================
