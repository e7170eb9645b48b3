------------------------------ MODULE RpcSystem ------------------------------
(***************************************************************************)
(* A server whose methods call back: ServerRpc, and in the same process    *)
(* one MessageQueueClient (ClientRpc) that the workers of the pool share   *)
(* to call methods of the same server.  The requests of the client travel  *)
(* through the rpc queue like those of other clients, and the replies the  *)
(* server publishes reach its on_response.  The server's event loop may    *)
(* stop at any time.                                                       *)
(*                                                                         *)
(* Each action is an action of one component, or one of each where a       *)
(* message passes between them; the variables of ClientRpc have the names  *)
(* they have there, and fault is the end of the process for both.  What a  *)
(* bad platform does to the client, and what arguments that are not UTF-8  *)
(* and calls without a wait do, is left to ClientRpc, and changes of       *)
(* rpc_func_map to ServerRpc.                                              *)
(***************************************************************************)
EXTENDS ServerRpc

CONSTANTS
  Nested,          \* the requests that methods make; the others come from outside
  Relays,          \* the methods that make a call
  Callees,         \* the methods they call
  Timings          \* calls with a timeout, calls without

ASSUME NestedAssumption == Nested \subseteq Requests
ASSUME RelaysAssumption == Relays \subseteq Methods /\ Callees \subseteq Methods
\* Caller::call makes requests without keyword arguments.
ASSUME PlainAssumption == "plain" \in Forms
ASSUME DeadlinesAssumption == Timings \subseteq BOOLEAN

VARIABLES
  pc, cur, timed, ret, mtx, req_events, sent, answer, inflight, handling, outcome,
  blank, missed,
  callOf,   \* the id of the call made for each request, or None
  serving   \* does the event loop of the server run?

Client == INSTANCE ClientRpc WITH
  Callers <- Workers, Ids <- Nested, Kinds <- {"result", "error_text"}, Unusual <- {},
  MapRaces <- FALSE, SpuriousWakeups <- FALSE

ASSUME NothingAssumption ==
  /\ None \notin {"result", "error_text"}
  /\ None \notin Client!AsyncResults
  /\ None \notin Client!Results
  /\ None \notin Client!Outcomes

clientVars == <<pc, cur, timed, ret, mtx, req_events, sent, answer, inflight,
                handling, outcome, blank, missed>>
serverVars == <<poolVars, brokerVars, mapVars, workerVars, send_mtx, historyVars>>
systemVars == <<vars, clientVars, callOf, serving>>

SystemInit ==
  /\ Init
  /\ Client!Init
  /\ callOf = [r \in Requests |-> None]
  /\ serving = TRUE

-----------------------------------------------------------------------------
(* The server on its own.                                                  *)

\* Ids have no order and are used once: the next one stands for them all.
Unsent == {r \in Requests \ Nested : req[r] = None}
Unused == {n \in Nested : ~Client!Used(n)}

OuterRequest ==
  /\ Unsent # {}
  /\ \E m \in Methods, f \in Forms : Request(CHOOSE r \in Unsent : TRUE, m, f)
  /\ UNCHANGED <<clientVars, callOf, serving>>

Serve ==
  /\ serving
  /\ LoopStep
  /\ UNCHANGED <<clientVars, callOf, serving>>

\* The loop of run() ends; its queues and its connection are gone.
StopServing ==
  /\ Alive /\ serving
  /\ serving' = FALSE
  /\ UNCHANGED <<vars, clientVars, callOf>>

Relaying(w) == at[w] = "run" /\ Meth(w) \in Relays

OwnStep(w) ==
  /\ Alive
  /\ Start(w) \/ Find(w) \/ Call(w) \/ Reply(w) \/ (Run(w) /\ ~Relaying(w))
  /\ UNCHANGED <<clientVars, callOf, serving>>

-----------------------------------------------------------------------------
(* A method that calls: Caller::call runs on the worker.                   *)

BeginCall(w) ==
  /\ Alive
  /\ Relaying(w)
  /\ callOf[job[w]] = None
  /\ Client!Begin(w)
  /\ cur'[w] = CHOOSE n \in Unused : TRUE
  /\ callOf' = [callOf EXCEPT ![job[w]] = cur'[w]]
  /\ UNCHANGED <<serverVars, serving>>

\* The request leaves the client and is in the rpc queue, if there still is one.
SendCall(w) ==
  /\ Alive
  /\ Client!Send(w)
  /\ \E m \in Callees : Request(cur[w], m, "plain")
  /\ UNCHANGED <<callOf, serving>>

InCall(w) ==
  \/ Client!LockToRegister(w) \/ Client!Register(w) \/ Client!LockToWait(w)
  \/ Client!Get(w) \/ Client!Wake(w) \/ Client!WakeTimedOut(w)
  \/ Client!Take(w) \/ Client!Erase(w)

CallStep(w) ==
  /\ Alive
  /\ InCall(w)
  /\ UNCHANGED <<serverVars, callOf, serving>>

\* What Caller::call throws inside a method: a runtime_error for an error reply and
\* for the timeout.
EndOf(o) == IF o.how = "value" THEN "value" ELSE "runtime_error"

\* The method ends as its call did.
EndRelay(w) ==
  /\ Alive
  /\ Relaying(w)
  /\ callOf[job[w]] # None /\ pc[w] = "idle"
  /\ Run(w)
  /\ ended'[job[w]] = EndOf(outcome[callOf[job[w]]])
  /\ UNCHANGED <<clientVars, callOf, serving>>

-----------------------------------------------------------------------------
(* The way back.                                                           *)

\* Fault variant: the reply has no error in it.
ReplyWithoutError(w) == "result"

\* res.error goes into the reply as a string; "" for a result.
ReplyKind(w) == IF res[w] = "error" THEN "error_text" ELSE "result"

\* The reply goes to the queue its request named, while there is a connection.
SendReply(w) ==
  /\ Alive
  /\ Publish(w)
  /\ \/ /\ job[w] \in Nested /\ serving
        /\ Client!Answer(job[w], ReplyKind(w))
     \/ /\ job[w] \notin Nested \/ ~serving
        /\ UNCHANGED clientVars
  /\ UNCHANGED <<callOf, serving>>

\* The event loop of the client.
Deliver ==
  /\ Client!LoopStep
  /\ UNCHANGED <<serverVars, callOf, serving>>

-----------------------------------------------------------------------------
Working(w) ==
  \/ OwnStep(w) \/ BeginCall(w) \/ SendCall(w) \/ CallStep(w) \/ EndRelay(w)
  \/ SendReply(w)

\* A worker waits in a call, or for the mutex of a worker that does.
Blocked(w) == at[w] = "run" /\ pc[w] \in {"register", "locking", "waiting"}
Full == \A w \in Workers : Blocked(w)
Idle == tasks = <<>> /\ \A w \in Workers : job[w] = None

\* The process died; or nothing is left to do; or everyone waits for everyone.
AtRest ==
  /\ \/ ~Alive
     \/ /\ Unsent = {}
        /\ \/ Idle /\ (ready = <<>> \/ ~serving)
           \/ Full
           \/ ~serving /\ tasks = <<>> /\ \A w \in Workers : job[w] = None \/ Blocked(w)
  /\ UNCHANGED systemVars

SystemNext ==
  \/ OuterRequest
  \/ Serve
  \/ StopServing
  \/ \E w \in Workers : Working(w)
  \/ Deliver
  \/ AtRest

SystemSpec == SystemInit /\ [][SystemNext]_systemVars

(* Both event loops and every worker that can run do run, and deadlines    *)
(* pass; a method that does not call ends.                                 *)
FairSystemSpec ==
  /\ SystemSpec
  /\ WF_systemVars(Serve)
  /\ WF_systemVars(Deliver)
  /\ \A w \in Workers : WF_systemVars(Working(w))

-----------------------------------------------------------------------------
(* Properties.                                                             *)

\* A call that ended with a value or an error did so because the method it called
\* ended that way - an error without text arrives as a value.
CallsEndToEnd ==
  \A n \in Nested :
    (outcome[n] # None /\ outcome[n].of = n) =>
      /\ req[n].form = "plain"
      /\ outcome[n].how = "value" <=> ended[n] \in {"value", "blank_error"}
      /\ outcome[n].how = "error" <=> ended[n] = "runtime_error"

\* A method that made a call ended with an error exactly if the method it called did,
\* or the call timed out.
RelaysEndToEnd ==
  \A r \in Requests :
    (callOf[r] # None /\ ended[r] # None) =>
      (ended[r] = "runtime_error" <=>
         \/ outcome[callOf[r]] = Client!TimedOut
         \/ ended[callOf[r]] = "runtime_error")

\* Server, queues and client together lose and mix up nothing.
EndToEnd == CallsEndToEnd /\ RelaysEndToEnd

\* Every request that can be answered is, unless the server stops or dies, or all
\* workers are for ever in methods that wait for a worker: calls that all have a
\* timeout cannot occupy the pool for ever.
Unanswered == \E r \in Requests : req[r] # None /\ Callable(r) /\ ~Replied(r)
FullForEver == [](Full /\ \E w \in Workers : ~timed[w])
AnsweredUnlessFull == Unanswered ~> (~Unanswered \/ ~Alive \/ ~serving \/ FullForEver)

\* When the server stops its pool runs empty, as its destructor needs, unless a method
\* waits without a timeout for a reply that cannot come any more.
StopDrains ==
  ~serving ~> (Idle \/ ~Alive \/ []\E w \in Workers : Blocked(w) /\ ~timed[w])
==============================================================================
