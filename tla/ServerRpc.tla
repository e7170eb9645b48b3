------------------------------ MODULE ServerRpc ------------------------------
(***************************************************************************)
(* The RPC half of MessageQueueServer (include/server.h, server.inl,       *)
(* src/server.cc): the event-loop thread queues a task for every request   *)
(* of the rpc queue and acknowledges it at once; a worker of the pool      *)
(* decodes it, looks the method up, runs it and sends the reply under      *)
(* send_mtx.  Nothing guards rpc_func_map, which the application may       *)
(* change with register_rpc and unregister_rpc while workers read it.      *)
(*                                                                         *)
(* An exception that leaves _rpc_worker ends the process: only what is     *)
(* thrown inside the try block as a std::runtime_error becomes a reply,    *)
(* and only if its what() is UTF-8, since the reply is JSON.               *)
(***************************************************************************)
EXTENDS ThreadPool, FiniteSets

CONSTANTS
  Requests,  \* requests clients may send; each is sent at most once
  Methods,   \* method names that occur
  Initial,   \* the methods registered before the server runs
  Editable,  \* methods the application (un)registers while it runs
  Forms,     \* shapes of a request body, a subset of RequestForms
  Ends,      \* how methods end, a subset of MethodEnds
  MapRaces   \* does a find that overlaps a change of rpc_func_map go wrong?

\* "keywords": a Python client passed k=v.  "malformed": not a request.
RequestForms == {"plain", "keywords", "malformed"}

\* A method returns, or throws a std::runtime_error - with an empty what() it is a
\* "blank_error", with one that is not UTF-8 a "foreign_error" - or another exception
\* (std::bad_any_cast for a wrong argument type; json's for a result that is not UTF-8).
MethodEnds == {"value", "runtime_error", "blank_error", "foreign_error", "exception"}

ASSUME RequestsAssumption == None \notin Requests
ASSUME WorkersAssumption == None \notin Workers
ASSUME MethodsAssumption ==
  /\ None \notin Methods
  /\ Initial \subseteq Methods
  /\ Editable \subseteq Methods
ASSUME ShapesAssumption == Forms \subseteq RequestForms /\ Ends \subseteq MethodEnds
ASSUME RacesAssumption == MapRaces \in BOOLEAN

VARIABLES
  req,           \* the [meth, form] of each request that was sent, or None
  ready,         \* requests in the rpc queue of the broker, oldest first
  rpc_func_map,  \* the registered methods
  editing,       \* the method being inserted or erased, or None
  edited,        \* history: was rpc_func_map changed while the server ran?
  at,            \* where each worker is in _rpc_worker
  res,           \* the local "res" of each worker
  send_mtx,      \* holder of send_mtx
  ended,         \* history: how the method of each request ended, or None
  replies,       \* history: the replies sent
  fault          \* why the process died, or "none"

brokerVars == <<req, ready>>
mapVars == <<rpc_func_map, editing, edited>>
workerVars == <<at, res>>
historyVars == <<ended, replies>>
vars == <<poolVars, brokerVars, mapVars, workerVars, send_mtx, historyVars, fault>>

Places == {"start", "find", "call", "run", "reply", "send"}
Bodies == [meth : Methods, form : Forms]

ASSUME NoneAssumption == None \notin Bodies \cup MethodEnds

\* res.error and res.result: nothing yet, a result, an error, an error not in UTF-8.
Res == {"blank", "value", "error", "foreign"}
Replies == [id : Requests, body : {"value", "error"}]

Init ==
  /\ PoolInit
  /\ req = [r \in Requests |-> None]
  /\ ready = <<>>
  /\ rpc_func_map = Initial
  /\ editing = None
  /\ edited = FALSE
  /\ at = [w \in Workers |-> "start"]
  /\ res = [w \in Workers |-> "blank"]
  /\ send_mtx = None
  /\ ended = [r \in Requests |-> None]
  /\ replies = {}
  /\ fault = "none"

Alive == fault = "none"
Terminate(why) == fault' = why
Goto(w, l) == at' = [at EXCEPT ![w] = l]
Meth(w) == req[job[w]].meth
Form(w) == req[job[w]].form

-----------------------------------------------------------------------------
(* The clients, the broker and the event loop.                             *)

Request(r, m, f) ==
  /\ req[r] = None
  /\ req' = [req EXCEPT ![r] = [meth |-> m, form |-> f]]
  /\ ready' = Append(ready, r)
  /\ UNCHANGED <<poolVars, mapVars, workerVars, send_mtx, historyVars, fault>>

\* onReceived and _on_rpc_message: queue the task, acknowledge the message.
OnRpcMessage ==
  /\ ready # <<>>
  /\ Detach(Head(ready))
  /\ ready' = Tail(ready)
  /\ UNCHANGED <<req, mapVars, workerVars, send_mtx, historyVars, fault>>

-----------------------------------------------------------------------------
(* register_rpc and unregister_rpc, called by one application thread.      *)

Racing == MapRaces /\ editing # None

BeginEdit(m) ==
  /\ editing = None
  /\ editing' = m
  /\ edited' = TRUE
  /\ UNCHANGED <<poolVars, brokerVars, rpc_func_map, workerVars, send_mtx, historyVars, fault>>

\* A worker executes the std::function in the map itself, not a copy.
Executing(m) == \E w \in Workers : at[w] = "run" /\ Meth(w) = m

\* A name that is there is erased by unregister_rpc, and refused by register_rpc.  What
\* is erased while it executes may not survive it.
EndEdit ==
  /\ editing # None
  /\ \/ /\ rpc_func_map' = IF editing \in rpc_func_map THEN rpc_func_map \ {editing}
                           ELSE rpc_func_map \cup {editing}
        /\ editing' = None
        /\ UNCHANGED fault
     \/ /\ editing \in rpc_func_map /\ Executing(editing)
        /\ Terminate("erased_method")
        /\ UNCHANGED <<rpc_func_map, editing>>
  /\ UNCHANGED <<poolVars, brokerVars, edited, workerVars, send_mtx, historyVars>>

-----------------------------------------------------------------------------
(* _rpc_worker and send_reply, on a worker of the pool.                    *)

\* A worker takes a request and starts with a fresh res.
Start(w) ==
  /\ at[w] = "start"
  /\ tasks # <<>> /\ Head(tasks) \in Requests
  /\ Take(w)
  /\ Goto(w, "find")
  /\ res' = [res EXCEPT ![w] = "blank"]
  /\ UNCHANGED <<brokerVars, mapVars, send_mtx, historyVars, fault>>

\* Fault variant: keyword arguments are ignored.
NothingRefused(w) == FALSE

\* kws.size() > 0
Refused(w) == Form(w) = "keywords"

\* Decode, outside the try block; refuse keyword arguments; look the method up.
\* An unknown method is skipped.
Find(w) ==
  /\ at[w] = "find"
  /\ \/ /\ Form(w) = "malformed"
        /\ Terminate("decode")
        /\ UNCHANGED workerVars
     \/ /\ Refused(w)
        /\ res' = [res EXCEPT ![w] = "error"]
        /\ Goto(w, "reply")
        /\ UNCHANGED fault
     \/ /\ Form(w) # "malformed" /\ ~Refused(w)
        /\ \/ Meth(w) \in rpc_func_map /\ Goto(w, "call") /\ UNCHANGED fault
           \/ /\ Meth(w) \notin rpc_func_map \/ Racing
              /\ Goto(w, "reply")
              /\ UNCHANGED fault
           \/ Racing /\ Terminate("map_race") /\ UNCHANGED at
        /\ UNCHANGED res
  /\ UNCHANGED <<poolVars, brokerVars, mapVars, send_mtx, historyVars>>

\* rpc_func_map[meth](...): a name erased since the find gets an empty function,
\* whose call throws std::bad_function_call.
Call(w) ==
  /\ at[w] = "call"
  /\ \/ /\ Meth(w) \in rpc_func_map
        /\ Goto(w, "run")
        /\ UNCHANGED <<rpc_func_map, fault>>
     \/ /\ Meth(w) \notin rpc_func_map
        /\ rpc_func_map' = rpc_func_map \cup {Meth(w)}
        /\ Terminate("bad_function_call")
        /\ UNCHANGED at
     \/ /\ Racing
        /\ Terminate("map_race")
        /\ UNCHANGED <<at, rpc_func_map>>
  /\ UNCHANGED <<poolVars, brokerVars, editing, edited, res, send_mtx, historyVars>>

\* Fault variant: a runtime_error ends the task like any other exception.
CaughtNothing == {"value"}

\* How a method may end for its task to go on to the reply.
Caught == {"value", "runtime_error", "blank_error", "foreign_error"}

\* res.error, which is what() of the exception: "" says that there was none.
Shown(e) == CASE e = "runtime_error" -> "error"
              [] e = "foreign_error" -> "foreign"
              [] OTHER -> "value"

\* The method runs and ends; both catch clauses.
Run(w) ==
  /\ at[w] = "run"
  /\ \E e \in Ends :
       /\ ended' = [ended EXCEPT ![job[w]] = e]
       /\ \/ /\ e \in Caught
             /\ res' = [res EXCEPT ![w] = Shown(e)]
             /\ Goto(w, "reply")
             /\ UNCHANGED fault
          \/ /\ e \notin Caught
             /\ Terminate("exception")
             /\ UNCHANGED workerVars
  /\ UNCHANGED <<poolVars, brokerVars, mapVars, send_mtx, replies>>

\* Fault variant: a result that is not JSON is sent as it is.
AnyParsable(w) == TRUE

\* json::parse(res.result): the "" of a skipped method is not JSON.
Parsable(w) == res[w] # "blank"

\* dump() throws for a string that is not UTF-8.
Dumpable(w) == res[w] # "foreign"

LockSend(w) == send_mtx = None /\ send_mtx' = w

\* send_reply parses res.result and dumps the reply, outside the try block, and locks
\* send_mtx.
Reply(w) ==
  /\ at[w] = "reply"
  /\ \/ /\ Parsable(w) /\ Dumpable(w)
        /\ LockSend(w)
        /\ Goto(w, "send")
        /\ UNCHANGED fault
     \/ /\ ~Parsable(w)
        /\ Terminate("blank_result")
        /\ UNCHANGED <<at, send_mtx>>
     \/ /\ ~Dumpable(w)
        /\ Terminate("foreign_error")
        /\ UNCHANGED <<at, send_mtx>>
  /\ UNCHANGED <<poolVars, brokerVars, mapVars, res, historyVars>>

\* Fault variant: an error reply is not published.
ValueMessage(w) == {m \in {[id |-> job[w], body |-> res[w]]} : m.body # "error"}

\* The message to the caller's queue, under the id of its request.
Message(w) == {[id |-> job[w], body |-> res[w]]}

\* Publish it; the task is done.
Publish(w) ==
  /\ at[w] = "send"
  /\ replies' = replies \cup Message(w)
  /\ send_mtx' = None
  /\ Goto(w, "start")
  /\ Done(w)
  /\ UNCHANGED <<brokerVars, mapVars, res, ended, fault>>

-----------------------------------------------------------------------------
TaskStep(w) ==
  Start(w) \/ Find(w) \/ Call(w) \/ Run(w) \/ Reply(w) \/ Publish(w)

WorkerStep(w) == Alive /\ TaskStep(w)
LoopStep == Alive /\ OnRpcMessage
EditStep == Alive /\ ((\E m \in Editable : BeginEdit(m)) \/ EndEdit)
ClientStep == \E r \in Requests, m \in Methods, f \in Forms : Request(r, m, f)

\* The process died, or there is nothing left to do.
Stopped ==
  /\ \/ ~Alive
     \/ /\ \A r \in Requests : req[r] # None
        /\ ready = <<>> /\ tasks = <<>>
        /\ \A w \in Workers : job[w] = None
  /\ UNCHANGED vars

Next ==
  \/ ClientStep
  \/ LoopStep
  \/ \E w \in Workers : WorkerStep(w)
  \/ EditStep
  \/ Stopped

Spec == Init /\ [][Next]_vars

(* The operating system runs every thread that can run; methods end.       *)
FairSpec ==
  /\ Spec
  /\ WF_vars(LoopStep)
  /\ \A w \in Workers : WF_vars(WorkerStep(w))

-----------------------------------------------------------------------------
(* Properties.                                                             *)

\* Type correctness of every variable of the module.
TypeOK ==
  /\ tasks \in Seq(Requests)
  /\ job \in [Workers -> Requests \cup {None}]
  /\ req \in [Requests -> Bodies \cup {None}]
  /\ ready \in Seq(Requests)
  /\ rpc_func_map \subseteq Methods
  /\ editing \in Editable \cup {None}
  /\ edited \in BOOLEAN
  /\ at \in [Workers -> Places]
  /\ res \in [Workers -> Res]
  /\ send_mtx \in Workers \cup {None}
  /\ ended \in [Requests -> Ends \cup {None}]
  /\ replies \subseteq Replies
  /\ fault \in {"none", "decode", "map_race", "erased_method", "bad_function_call",
                "exception", "blank_result", "foreign_error"}

Replied(r) == \E p \in replies : p.id = r
Queued(r) == {i \in DOMAIN ready : ready[i] = r}

\* A request that was sent is in exactly one place - in the broker, in the pool's
\* queue, on one worker, or answered - although it is acknowledged before any
\* worker has looked at it: none is forgotten, none is worked on twice.
InOnePlace ==
  \A r \in Requests : req[r] # None =>
    Cardinality(Queued(r)) + Cardinality(InPool(r)) + Cardinality(OnWorkers(r))
      + (IF Replied(r) THEN 1 ELSE 0) = 1

\* A reply shows how the method of its own request ended; a request with keyword
\* arguments is refused without running anything.
RepliesTruthful ==
  \A p \in replies :
    LET r == p.id IN
    /\ req[r].form \in {"plain", "keywords"}
    /\ req[r].form = "plain" => /\ ended[r] \notin {None, "exception", "foreign_error"}
                               /\ (p.body = "error") = (ended[r] = "runtime_error")
    /\ req[r].form = "keywords" => p.body = "error" /\ ended[r] = None

\* The server keeps the promise of RequestService: a method runs at most once for a
\* request, a request is answered at most once and after its method has ended, and
\* nothing is run or answered by a process that is dead.
Service == INSTANCE RequestService WITH up <- Alive
ImplementsRequestService == Service!Spec

\* Only one worker at a time is inside a call on send_channel.
ReplyExclusive ==
  \A w, v \in Workers : (at[w] = "send" /\ at[v] = "send") => w = v

\* Requests the server is meant to answer: their method stays registered.
Callable(r) ==
  \/ req[r].form = "keywords"
  \/ req[r].form = "plain" /\ req[r].meth \in Initial \ Editable

\* The process dies of nothing else than a request that is malformed or names a
\* method that is not registered for good, a method that throws something other than a
\* runtime_error or one whose what() is not UTF-8, or a change of rpc_func_map while the
\* server runs.
Survives ==
  ~Alive => \/ \E r \in Requests : req[r] # None /\ ~Callable(r)
            \/ \E r \in Requests : ended[r] \in {"exception", "foreign_error"}
            \/ edited

\* A request for a method that is and stays registered is answered, unless the
\* process dies.
AnsweredIfAlive ==
  \A r \in Requests : (req[r] # None /\ Callable(r)) ~> (Replied(r) \/ ~Alive)

\* A request for a method that is and stays registered is answered, whatever the
\* other requests of this or of other clients are.
Answered ==
  \A r \in Requests : (req[r] # None /\ Callable(r)) ~> Replied(r)
==============================================================================
