--------------------------- MODULE RequestService ---------------------------
(***************************************************************************)
(* What the RPC half of MessageQueueServer promises to its clients, with   *)
(* the broker, the pool, the workers, rpc_func_map and send_mtx left out:  *)
(* while the server is up it may run the method of a request, once, and    *)
(* answer the request, once, with how the method ended - or refuse it, if  *)
(* it passes keyword arguments.  It goes down when a method throws         *)
(* something other than a runtime_error, after a method threw one it       *)
(* cannot put into a reply, and when it is asked for more than it can do   *)
(* or its methods are changed while it runs.                               *)
(***************************************************************************)
CONSTANTS
  Requests,   \* requests clients may send
  Methods,    \* method names that occur
  Initial,    \* the methods registered before the server runs
  Editable,   \* methods the application (un)registers while it runs
  Forms,      \* shapes of a request
  Ends,       \* how methods end
  None        \* "no value"

VARIABLES
  req,        \* the method and the form of each request, or None
  edited,     \* were the methods changed while the server ran?
  ended,      \* how the method of each request ended, or None
  replies,    \* the replies sent
  up          \* is the server up?

vars == <<req, edited, ended, replies, up>>

Init ==
  /\ req = [r \in Requests |-> None]
  /\ edited = FALSE
  /\ ended = [r \in Requests |-> None]
  /\ replies = {}
  /\ up = TRUE

\* Clients send requests to a server that is down, too.
Ask(r, m, f) ==
  /\ req[r] = None
  /\ req' = [req EXCEPT ![r] = [meth |-> m, form |-> f]]
  /\ UNCHANGED <<edited, ended, replies, up>>

Edit ==
  /\ up
  /\ Editable # {}
  /\ edited' = TRUE
  /\ UNCHANGED <<req, ended, replies, up>>

Known(m) == m \in Initial \/ (edited /\ m \in Editable)

\* The method of a request runs, at most once.
Run(r, e) ==
  /\ up
  /\ req[r] # None /\ req[r].form = "plain" /\ Known(req[r].meth)
  /\ ended[r] = None
  /\ ended' = [ended EXCEPT ![r] = e]
  /\ up' = (e # "exception")
  /\ UNCHANGED <<req, edited, replies>>

\* A request is answered, at most once, after its method has ended.
Answer(r, b) ==
  /\ up
  /\ req[r] # None
  /\ \A p \in replies : p.id # r
  /\ \/ req[r].form = "keywords" /\ b = "error" /\ ended[r] = None
     \/ /\ req[r].form = "plain" /\ ended[r] \notin {None, "foreign_error"}
        /\ b = IF ended[r] = "runtime_error" THEN "error" ELSE "value"
  /\ replies' = replies \cup {[id |-> r, body |-> b]}
  /\ UNCHANGED <<req, edited, ended, up>>

\* A request the server is not meant to answer.
Unanswerable(r) ==
  /\ req[r] # None
  /\ req[r].form # "keywords"
  /\ req[r].form = "plain" => req[r].meth \notin Initial \ Editable

GoDown ==
  /\ up
  /\ \/ edited
     \/ \E r \in Requests : Unanswerable(r) \/ ended[r] = "foreign_error"
  /\ up' = FALSE
  /\ UNCHANGED <<req, edited, ended, replies>>

Next ==
  \/ \E r \in Requests :
       \/ \E m \in Methods, f \in Forms : Ask(r, m, f)
       \/ \E e \in Ends : Run(r, e)
       \/ \E b \in {"value", "error"} : Answer(r, b)
  \/ Edit
  \/ GoDown

Spec == Init /\ [][Next]_vars
=============================================================================
