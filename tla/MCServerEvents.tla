---------------------------- MODULE MCServerEvents ---------------------------
(* A small instance of ServerEvents for TLC. *)
EXTENDS ServerEvents, TLC

\* Two callbacks for one type and one for another.
MCTypeOf == "c1" :> "t1" @@ "c2" :> "t1" @@ "c3" :> "t2"
==============================================================================
