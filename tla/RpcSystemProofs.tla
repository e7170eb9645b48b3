--------------------------- MODULE RpcSystemProofs ---------------------------
(***************************************************************************)
(* Proofs about RpcSystem, for any sets of workers, requests, methods and  *)
(* ends of methods.  Both components keep their promises in the system:    *)
(* each of its steps is a step of ServerRpc or leaves the server alone,    *)
(* and a step of ClientRpc or leaves the client alone.  So what is proved  *)
(* of the components alone holds here, and the end-to-end property follows *)
(* from what the system adds: which reply becomes which answer, and which  *)
(* call belongs to which method.                                           *)
(***************************************************************************)
EXTENDS RpcSystem, ServerRpcProofs

\* The client as it sees itself.  The process never dies of the client's own steps
\* here, and a client does not see that it died of the server's: "none" is why.
ClientSide == INSTANCE ClientRpcProofs WITH
  Callers <- Workers, Ids <- Nested, Kinds <- {"result", "error_text"}, Unusual <- {},
  MapRaces <- FALSE, SpuriousWakeups <- FALSE, fault <- "none"

USE NestedAssumption, RelaysAssumption, PlainAssumption

\* What ClientRpc assumes of its constants.
LEMMA ClientAssumptions ==
  /\ ClientSide!CallersAssumption
  /\ ClientSide!IdsAssumption
  /\ ClientSide!KindsAssumption
  /\ ClientSide!TimingsAssumption
  /\ ClientSide!UnusualAssumption
  /\ ClientSide!PlatformAssumption
  /\ ClientSide!NoneAssumption
<1>1. ClientSide!CallersAssumption
  BY WorkersAssumption DEF ClientSide!CallersAssumption
<1>2. ClientSide!IdsAssumption
  BY RequestsAssumption DEF ClientSide!IdsAssumption
<1>3. ClientSide!KindsAssumption
  BY NothingAssumption DEF ClientSide!KindsAssumption, ClientSide!ReplyKinds
<1>4. ClientSide!TimingsAssumption
  BY DeadlinesAssumption DEF ClientSide!TimingsAssumption
<1>5. ClientSide!PlatformAssumption
  BY DEF ClientSide!PlatformAssumption
<1>6. ClientSide!NoneAssumption
  BY NothingAssumption DEF ClientSide!NoneAssumption, ClientSide!AsyncResults,
     ClientSide!Results, ClientSide!Outcomes, Client!AsyncResults, Client!Results,
     Client!Outcomes
<1>7. ClientSide!UnusualAssumption
  BY DEF ClientSide!UnusualAssumption
<1> QED BY <1>1, <1>2, <1>3, <1>4, <1>5, <1>6, <1>7

LEMMA ClientInit == SystemInit => ClientSide!Init
BY DEF SystemInit, Client!Init, ClientSide!Init

\* The inductive invariant of the client, for the platform of the system.
ClientInv ==
  /\ ClientSide!BaseInv
  /\ ClientSide!ReplyInv
  /\ blank = {}
  /\ \A n \in Nested : outcome[n] \notin {ClientSide!NotEncoded, ClientSide!Posted}

\* on_response finds the entry it found before, so the loop of the client is never
\* what kills the process.
LEMMA DeliverSafely ==
  ASSUME ClientInv, Client!LoopStep
  PROVE  /\ UNCHANGED fault
         /\ ClientSide!LoopStep
<1> USE DEF Client!callerVars, ClientSide!callerVars, Client!serverVars, ClientSide!serverVars,
     Client!mapVars, ClientSide!mapVars, Client!historyVars, ClientSide!historyVars,
     Client!loopVars, ClientSide!loopVars
<1>1. handling # None =>
        /\ handling \in Nested /\ req_events[handling] # None
        /\ answer[handling] \in {"result", "error_text"}
  BY DEF ClientInv, ClientSide!ReplyInv, ClientSide!HandlingInv, ClientSide!BaseInv,
     ClientSide!TypeOK, ClientSide!WireInv
<1>2. ASSUME Client!OnResponseSet PROVE UNCHANGED fault /\ ClientSide!OnResponseSet
  BY <1>2 DEF Client!OnResponseSet, ClientSide!OnResponseSet, Client!ReqId,
     ClientSide!ReqId, Client!Set, ClientSide!Set, Client!Waited, ClientSide!Waited
<1>3. ASSUME NEW n \in Nested, Client!OnResponseFind(n)
      PROVE  UNCHANGED fault /\ ClientSide!OnResponseFind(n)
  BY <1>3 DEF Client!OnResponseFind, ClientSide!OnResponseFind, Client!Racing,
     ClientSide!Racing
<1>4. ASSUME handling # None, NEW w \in Workers, pc[w] = "moving", cur[w] = handling
      PROVE  FALSE
  <2>1. req_events[handling].result # None
    BY <1>4 DEF ClientInv, ClientSide!ReplyInv, ClientSide!MovingInv
  <2>2. ClientSide!Consumed(handling)
    BY <1>1, <1>4, <2>1 DEF ClientInv, ClientSide!ReplyInv, ClientSide!ResultInv
  <2> QED BY <2>2 DEF ClientSide!Consumed
<1>5. ASSUME Client!OnResponseDies PROVE FALSE
  BY <1>1, <1>4, <1>5 DEF Client!OnResponseDies, Client!Racing, Client!Moving, Client!ReqId
<1> QED BY <1>2, <1>3, <1>5 DEF Client!LoopStep, ClientSide!LoopStep, ClientSide!Alive

LEMMA ClientStay ==
  ASSUME UNCHANGED clientVars
  PROVE  UNCHANGED ClientSide!vars
BY DEF clientVars, ClientSide!vars, ClientSide!callerVars, ClientSide!mapVars,
   ClientSide!serverVars, ClientSide!loopVars, ClientSide!historyVars

\* The steps of a call are the same in the instance of RpcSystem and in this one.
LEMMA ClientCalls ==
  ASSUME NEW w \in Workers, Client!Begin(w) \/ Client!Send(w) \/ InCall(w)
  PROVE  (ClientSide!Begin(w) \/ ClientSide!CallStep(w)) /\ UNCHANGED fault
<1> USE DEF Client!Goto, ClientSide!Goto, Client!callerVars, ClientSide!callerVars,
     Client!mapVars, ClientSide!mapVars, Client!serverVars, ClientSide!serverVars,
     Client!loopVars, ClientSide!loopVars, Client!historyVars, ClientSide!historyVars,
     Client!HandOver, ClientSide!HandOver, Client!Lowered, ClientSide!Lowered
<1>1. ASSUME Client!Begin(w) PROVE ClientSide!Begin(w) /\ UNCHANGED fault
  BY <1>1 DEF Client!Begin, ClientSide!Begin, Client!Used, ClientSide!Used
<1>2. ASSUME Client!LockToRegister(w) PROVE ClientSide!LockToRegister(w) /\ UNCHANGED fault
  BY <1>2 DEF Client!LockToRegister, ClientSide!LockToRegister, Client!Lock, ClientSide!Lock
<1>3. ASSUME Client!Register(w) PROVE ClientSide!Register(w) /\ UNCHANGED fault
  BY <1>3 DEF Client!Register, ClientSide!Register, Client!Fresh, ClientSide!Fresh
<1>4. ASSUME Client!Send(w) PROVE ClientSide!Send(w) /\ UNCHANGED fault
  BY <1>4 DEF Client!Send, ClientSide!Send
<1>5. ASSUME Client!LockToWait(w) PROVE ClientSide!LockToWait(w) /\ UNCHANGED fault
  BY <1>5 DEF Client!LockToWait, ClientSide!LockToWait, Client!Lock, ClientSide!Lock
<1>6. ASSUME Client!Get(w) PROVE ClientSide!Get(w) /\ UNCHANGED fault
  BY <1>6 DEF Client!Get, ClientSide!Get, Client!Ready, ClientSide!Ready
<1>7. ASSUME Client!Wake(w) PROVE ClientSide!Wake(w) /\ UNCHANGED fault
  BY <1>7 DEF Client!Wake, ClientSide!Wake
<1>8. ASSUME Client!WakeTimedOut(w) PROVE ClientSide!WakeTimedOut(w) /\ UNCHANGED fault
  BY <1>8 DEF Client!WakeTimedOut, ClientSide!WakeTimedOut, Client!EndCall, ClientSide!EndCall,
     Client!TimedOut, ClientSide!TimedOut
<1>9. ASSUME Client!Erase(w) PROVE ClientSide!Erase(w) /\ UNCHANGED fault
  BY <1>9 DEF Client!Erase, ClientSide!Erase, Client!EndCall, ClientSide!EndCall,
     Client!Finished, ClientSide!Finished, Client!Decode, ClientSide!Decode
<1>10. ASSUME Client!Take(w) PROVE ClientSide!Take(w) /\ UNCHANGED fault
  BY <1>10 DEF Client!Take, ClientSide!Take, Client!Taken, ClientSide!Taken
<1> QED
  BY <1>1, <1>2, <1>3, <1>4, <1>5, <1>6, <1>7, <1>8, <1>9, <1>10
     DEF InCall, ClientSide!CallStep

\* A reply that is sent is an answer of the servers that the client knows.
LEMMA ClientAnswer ==
  ASSUME NEW w \in Workers, job[w] \in Nested, Client!Answer(job[w], ReplyKind(w))
  PROVE  ClientSide!ServerStep
<1>1. ReplyKind(w) \in {"result", "error_text"}
  BY DEF ReplyKind
<1>2. ClientSide!Answer(job[w], ReplyKind(w))
  BY DEF Client!Answer, ClientSide!Answer, Client!callerVars, ClientSide!callerVars,
     Client!mapVars, ClientSide!mapVars, Client!historyVars, ClientSide!historyVars
<1> QED BY <1>1, <1>2 DEF ClientSide!ServerStep

\* Each step is one of each component, or leaves it alone.
LEMMA BothStep ==
  ASSUME TypeInv, ClientInv, [SystemNext]_systemVars
  PROVE  [Next]_vars /\ [ClientSide!Next]_(ClientSide!vars)
<1> USE DEF ClientSide!Alive
<1>1. CASE OuterRequest
  <2>1. ClientStep
    BY <1>1 DEF OuterRequest, Unsent, ClientStep
  <2>2. UNCHANGED clientVars
    BY <1>1 DEF OuterRequest
  <2> QED BY <2>1, <2>2, ClientStay DEF Next
<1>2. CASE Serve
  BY <1>2, ClientStay DEF Serve, Next
<1>3. CASE StopServing
  BY <1>3, ClientStay DEF StopServing
<1>4. ASSUME NEW w \in Workers, OwnStep(w)
      PROVE  [Next]_vars /\ [ClientSide!Next]_(ClientSide!vars)
  BY <1>4, ClientStay DEF OwnStep, WorkerStep, TaskStep, Next
<1>5. ASSUME NEW w \in Workers, BeginCall(w)
      PROVE  [Next]_vars /\ [ClientSide!Next]_(ClientSide!vars)
  <2>1. ClientSide!Begin(w) \/ ClientSide!CallStep(w)
    BY <1>5, ClientCalls DEF BeginCall
  <2>2. UNCHANGED vars
    BY <1>5, ClientCalls DEF BeginCall, serverVars, vars
  <2> QED BY <2>1, <2>2 DEF ClientSide!Next, ClientSide!CallerStep
<1>6. ASSUME NEW w \in Workers, SendCall(w)
      PROVE  [Next]_vars /\ [ClientSide!Next]_(ClientSide!vars)
  <2>1. ClientSide!Begin(w) \/ ClientSide!CallStep(w)
    BY <1>6, ClientCalls DEF SendCall
  <2>2. cur[w] \in Nested
    BY <1>6 DEF SendCall, Client!Send, ClientInv, ClientSide!BaseInv, ClientSide!IdsInv
  <2>3. ClientStep
    BY <1>6, <2>2 DEF SendCall, ClientStep
  <2> QED BY <2>1, <2>3 DEF ClientSide!Next, ClientSide!CallerStep, Next
<1>7. ASSUME NEW w \in Workers, CallStep(w)
      PROVE  [Next]_vars /\ [ClientSide!Next]_(ClientSide!vars)
  <2>1. ClientSide!Begin(w) \/ ClientSide!CallStep(w)
    BY <1>7, ClientCalls DEF CallStep
  <2>2. UNCHANGED vars
    BY <1>7, ClientCalls DEF CallStep, serverVars, vars
  <2> QED BY <2>1, <2>2 DEF ClientSide!Next, ClientSide!CallerStep
<1>8. ASSUME NEW w \in Workers, EndRelay(w)
      PROVE  [Next]_vars /\ [ClientSide!Next]_(ClientSide!vars)
  BY <1>8, ClientStay DEF EndRelay, WorkerStep, TaskStep, Next
<1>9. ASSUME NEW w \in Workers, SendReply(w)
      PROVE  [Next]_vars /\ [ClientSide!Next]_(ClientSide!vars)
  <2>1. Next
    BY <1>9 DEF SendReply, WorkerStep, TaskStep, Next
  <2>2. ClientSide!ServerStep \/ UNCHANGED clientVars
    BY <1>9, ClientAnswer DEF SendReply
  <2> QED BY <2>1, <2>2, ClientStay DEF ClientSide!Next
<1>10. CASE Deliver
  BY <1>10, DeliverSafely DEF Deliver, ClientSide!Next, serverVars, vars
<1>11. CASE AtRest \/ UNCHANGED systemVars
  BY <1>11, ClientStay DEF AtRest, systemVars
<1> QED
  BY <1>1, <1>2, <1>3, <1>4, <1>5, <1>6, <1>7, <1>8, <1>9, <1>10, <1>11
     DEF SystemNext, Working

\* The methods' arguments can be encoded, and every call waits for its reply.
LEMMA UsualStep ==
  ASSUME ClientInv, [ClientSide!Next]_(ClientSide!vars), NEW n \in Nested
  PROVE  outcome'[n] \notin {ClientSide!NotEncoded, ClientSide!Posted}
<1> DEFINE Odd(o) == o \in {ClientSide!NotEncoded, ClientSide!Posted}
<1>1. /\ ~Odd(outcome[n])
      /\ outcome \in [Nested -> ClientSide!Outcomes \cup {None}]
      /\ ret \in [Workers -> ClientSide!Results \cup {None}]
  BY DEF ClientInv, ClientSide!BaseInv, ClientSide!TypeOK
<1>2. ~Odd(ClientSide!TimedOut)
  BY DEF ClientSide!TimedOut, ClientSide!NotEncoded, ClientSide!Posted
<1>3. ASSUME NEW w \in Workers PROVE ~Odd(ClientSide!Finished(ret[w]))
  BY <1>1, ClientSide!FinishedIsOutcome, ClientAssumptions DEF ClientSide!Unreplied
<1> HIDE DEF Odd
<1>4. ASSUME NEW w \in Workers, NEW o, ~Odd(o),
             outcome' = [outcome EXCEPT ![cur[w]] = o]
      PROVE  ~Odd(outcome'[n])
  BY <1>1, <1>4
<1>5. ASSUME NEW w \in Workers, ClientSide!CallStep(w) PROVE ~Odd(outcome'[n])
  <2>1. CASE ClientSide!WakeTimedOut(w) \/ ClientSide!Erase(w)
    BY <1>2, <1>3, <1>4, <2>1 DEF ClientSide!WakeTimedOut, ClientSide!Erase,
       ClientSide!EndCall
  <2>2. CASE UNCHANGED outcome
    BY <1>1, <2>2
  <2> QED
    BY <1>5, <2>1, <2>2 DEF ClientSide!CallStep, ClientSide!LockToRegister,
       ClientSide!Lock, ClientSide!Register, ClientSide!Send, ClientSide!SendBytes,
       ClientSide!Leave, ClientSide!LockToWait, ClientSide!Get, ClientSide!HandOver,
       ClientSide!Take, ClientSide!Wake
<1>6. ~Odd(outcome'[n])
  BY <1>1, <1>5 DEF ClientSide!Next, ClientSide!CallerStep, ClientSide!Begin,
     ClientSide!LoopStep, ClientSide!OnResponseSet, ClientSide!OnResponseDies,
     ClientSide!OnResponseFind, ClientSide!ServerStep, ClientSide!Answer,
     ClientSide!Stopped, ClientSide!vars, ClientSide!callerVars
<1> QED BY <1>6 DEF Odd

\* What the two steps need of the state, inductive in the system.
SystemInv == TypeInv /\ PlaceInv /\ ClientInv

LEMMA SystemInvariant == SystemSpec => []SystemInv
<1>1. SystemInit => SystemInv
  BY TypeInit, PlaceInit, ClientInit, ClientAssumptions, ClientSide!BaseInit,
     ClientSide!ReplyInit
     DEF SystemInit, SystemInv, ClientInv, ClientSide!Init, ClientSide!NotEncoded,
         ClientSide!Posted, ClientSide!Outcomes
<1>2. SystemInv /\ [SystemNext]_systemVars => SystemInv'
  BY BothStep, TypeStep, PlaceStep, ClientAssumptions, ClientSide!BaseStep,
     ClientSide!ReplyStep, ClientSide!BlankStep, UsualStep
     DEF SystemInv, ClientInv
<1> QED BY <1>1, <1>2, PTL DEF SystemSpec

\* The server behaves in the system as ServerRpc says, with its workers inside calls
\* for any time: what is proved of Spec holds here (_rpc_worker, send_reply).
THEOREM ServerPart == SystemSpec => Spec
<1>1. SystemInit => Init
  BY DEF SystemInit
<1>2. SystemInv /\ [SystemNext]_systemVars => [Next]_vars
  BY BothStep DEF SystemInv
<1> QED BY <1>1, <1>2, SystemInvariant, PTL DEF SystemSpec, Spec

\* The client behaves in the system as ClientRpc says, although its callers are the
\* workers of the server that answers it (Caller::call, on_response).
THEOREM ClientPart == SystemSpec => ClientSide!Spec
<1>2. SystemInv /\ [SystemNext]_systemVars => [ClientSide!Next]_(ClientSide!vars)
  BY BothStep DEF SystemInv
<1> QED BY ClientInit, <1>2, SystemInvariant, PTL DEF SystemSpec, ClientSide!Spec

-----------------------------------------------------------------------------
(* What is lost or mixed up between the components: nothing.               *)

\* A nested request is a plain one; its answer at the client is the reply that the
\* server sent.
ReplyTo(n) == [id |-> n, body |-> IF answer[n] = "error_text" THEN "error" ELSE "value"]
CarryInv ==
  \A n \in Nested :
    /\ req[n] # None => req[n].form = "plain"
    /\ answer[n] # None => ReplyTo(n) \in replies

LEMMA CarryInit == SystemInit => CarryInv
BY DEF SystemInit, Init, Client!Init, CarryInv

LEMMA CarryStep == SystemInv /\ CarryInv /\ [SystemNext]_systemVars => CarryInv'
<1> SUFFICES ASSUME SystemInv, CarryInv, [SystemNext]_systemVars PROVE CarryInv'
  OBVIOUS
<1> USE DEF CarryInv, ReplyTo
<1>1. CASE OuterRequest
  BY <1>1 DEF OuterRequest, Unsent, Request, clientVars, historyVars
<1>2. ASSUME UNCHANGED <<req, replies, answer>> PROVE CarryInv'
  BY <1>2
<1>3. ASSUME NEW w \in Workers, SendCall(w) PROVE CarryInv'
  <2>1. PICK m \in Callees : Request(cur[w], m, "plain")
    BY <1>3 DEF SendCall
  <2>2. UNCHANGED <<answer, replies>>
    BY <1>3, <2>1 DEF SendCall, Client!Send, Request, historyVars
  <2>3. req \in [Requests -> Bodies \cup {None}]
    BY DEF SystemInv, TypeInv, TypeOK
  <2> QED BY <2>1, <2>2, <2>3 DEF Request
<1>4. ASSUME NEW w \in Workers, SendReply(w) PROVE CarryInv'
  <2>1. UNCHANGED req /\ replies' = replies \cup {[id |-> job[w], body |-> res[w]]}
    BY <1>4 DEF SendReply, Publish, Message, brokerVars
  <2>2. CASE UNCHANGED clientVars
    BY <2>1, <2>2 DEF clientVars
  <2>3. CASE job[w] \in Nested /\ Client!Answer(job[w], ReplyKind(w))
    <3>1. res[w] \in {"value", "error"}
      BY <1>4 DEF SendReply, Publish, SystemInv, TypeInv, TypeOK, JobInv, Res
    <3>2. answer' = [answer EXCEPT ![job[w]] = ReplyKind(w)]
      BY <2>3 DEF Client!Answer
    <3>3. answer \in [Nested -> {"result", "error_text"} \cup {None}]
      BY DEF SystemInv, ClientInv, ClientSide!BaseInv, ClientSide!TypeOK
    <3>4. ASSUME NEW n \in Nested, answer'[n] # None PROVE ReplyTo(n)' \in replies'
      <4>1. CASE n = job[w]
        BY <2>1, <3>1, <3>2, <3>3, <4>1 DEF ReplyKind
      <4>2. CASE n # job[w]
        BY <2>1, <3>2, <3>3, <3>4, <4>2
      <4> QED BY <4>1, <4>2
    <3> QED BY <2>1, <3>4
  <2> QED BY <1>4, <2>2, <2>3 DEF SendReply
<1>5. CASE Serve \/ StopServing \/ AtRest \/ UNCHANGED systemVars
  BY <1>2, <1>5 DEF Serve, LoopStep, OnRpcMessage, StopServing, AtRest, clientVars, vars,
     brokerVars, historyVars, systemVars
<1>6. ASSUME NEW w \in Workers, OwnStep(w) \/ EndRelay(w) PROVE CarryInv'
  BY <1>2, <1>6 DEF OwnStep, EndRelay, Start, Find, Call, Run, Reply, brokerVars, historyVars,
     clientVars
<1>7. ASSUME NEW w \in Workers, BeginCall(w) PROVE CarryInv'
  BY <1>2, <1>7 DEF BeginCall, Client!Begin, Client!serverVars, serverVars, brokerVars,
     historyVars
<1>8. ASSUME NEW w \in Workers, CallStep(w) PROVE CarryInv'
  <2>1. UNCHANGED answer
    BY <1>8 DEF CallStep, InCall, Client!LockToRegister, Client!Lock, Client!Register,
       Client!LockToWait, Client!Get, Client!HandOver, Client!Take, Client!Wake,
       Client!WakeTimedOut, Client!EndCall, Client!Erase, Client!serverVars
  <2> QED BY <1>2, <1>8, <2>1 DEF CallStep, serverVars, brokerVars, historyVars
<1>9. CASE Deliver
  BY <1>2, <1>9 DEF Deliver, Client!LoopStep, Client!OnResponseSet, Client!OnResponseFind,
     Client!OnResponseDies, Client!serverVars, serverVars, brokerVars, historyVars
<1> QED
  BY <1>1, <1>3, <1>4, <1>5, <1>6, <1>7, <1>8, <1>9 DEF SystemNext, Working

\* A reply is truthful, a call returns its own reply, and the one is the other.
LEMMA CarriedEnd ==
  ASSUME SystemInv, CarryInv, RepliesTruthful, ThrowInv, ClientSide!OwnReply
  PROVE  CallsEndToEnd
<1> SUFFICES ASSUME NEW n \in Nested, outcome[n] # None, outcome[n].of = n
             PROVE  /\ req[n].form = "plain"
                    /\ outcome[n].how = "value" <=> ended[n] \in {"value", "blank_error"}
                    /\ outcome[n].how = "error" <=> ended[n] = "runtime_error"
  BY DEF CallsEndToEnd
<1>1. outcome[n] \notin ClientSide!Unreplied
  BY RequestsAssumption DEF ClientSide!Unreplied, ClientSide!TimedOut, ClientSide!NotEncoded,
     ClientSide!Posted
<1>2. /\ answer[n] # None
      /\ outcome[n] = [how |-> ClientSide!Decode(answer[n]), of |-> n]
  BY <1>1 DEF ClientSide!OwnReply
<1>3. ReplyTo(n) \in replies
  BY <1>2 DEF CarryInv
<1>4. Replied(n) /\ ReplyTo(n).id = n
  BY <1>3 DEF Replied, ReplyTo
<1>5. req[n].form \in {"plain", "keywords"}
  BY <1>3, <1>4 DEF RepliesTruthful
<1>6. req[n] # None
  BY <1>4 DEF SystemInv, PlaceInv
<1>7. req[n].form = "plain"
  BY <1>6 DEF CarryInv
<1>8. /\ ended[n] \notin {None, "exception", "foreign_error"}
      /\ (ReplyTo(n).body = "error") = (ended[n] = "runtime_error")
  BY <1>3, <1>4, <1>7 DEF RepliesTruthful
<1>9. ended[n] \in {"value", "runtime_error", "blank_error"}
  BY <1>8, ShapesAssumption DEF SystemInv, TypeInv, TypeOK, MethodEnds
<1>10. ClientSide!Decode(answer[n]) = ReplyTo(n).body
  BY DEF ClientSide!Decode, ReplyTo
<1> QED BY <1>2, <1>7, <1>8, <1>9, <1>10 DEF ReplyTo

-----------------------------------------------------------------------------
(* A method that makes a call ends as its call does.                       *)

\* callOf names the call of the method that runs for a request, while the call is in
\* progress, when it has returned, and after the method has ended as it did.
RelayDone(r) == outcome[callOf[r]] # None /\ ended[r] = EndOf(outcome[callOf[r]])
CallOfInv ==
  \A r \in Requests : callOf[r] # None =>
    /\ callOf[r] \in Nested
    /\ req[r] # None /\ req[r].meth \in Relays
    /\ \/ ended[r] # None /\ RelayDone(r)
       \/ ended[r] = None /\ \E w \in Workers : job[w] = r /\ at[w] = "run"
RelayingInv ==
  \A w \in Workers :
    /\ pc[w] # "idle" => at[w] = "run" /\ callOf[job[w]] = cur[w]
    /\ (at[w] = "run" /\ pc[w] = "idle" /\ callOf[job[w]] # None) =>
          outcome[callOf[job[w]]] # None
RelayInv == callOf \in [Requests -> Nested \cup {None}] /\ CallOfInv /\ RelayingInv

LEMMA RelayInit == SystemInit => RelayInv
BY DEF SystemInit, Init, Client!Init, RelayInv, CallOfInv, RelayingInv

\* Ids are used once: an outcome that is there stays.
LEMMA OutcomeKept ==
  ASSUME SystemInv, [SystemNext]_systemVars, NEW n \in Nested, outcome[n] # None
  PROVE  outcome'[n] = outcome[n]
<1>1. [ClientSide!Next]_(ClientSide!vars)
  BY BothStep DEF SystemInv
<1>2. \A w \in Workers : ClientSide!Registered(w) => outcome[cur[w]] = None /\ cur[w] \in Nested
  BY DEF SystemInv, ClientInv, ClientSide!BaseInv, ClientSide!IdsInv, ClientSide!Registered
<1>3. outcome \in [Nested -> ClientSide!Outcomes \cup {None}]
  BY DEF SystemInv, ClientInv, ClientSide!BaseInv, ClientSide!TypeOK
<1>4. ASSUME NEW w \in Workers, ClientSide!CallStep(w) PROVE outcome'[n] = outcome[n]
  BY <1>2, <1>3, <1>4 DEF ClientSide!CallStep, ClientSide!LockToRegister, ClientSide!Lock,
     ClientSide!Register, ClientSide!Send, ClientSide!SendBytes, ClientSide!Leave,
     ClientSide!LockToWait, ClientSide!Get, ClientSide!HandOver, ClientSide!Take, ClientSide!Wake, ClientSide!WakeTimedOut, ClientSide!EndCall,
     ClientSide!Erase, ClientSide!Registered
<1> QED
  BY <1>1, <1>4 DEF ClientSide!Next, ClientSide!CallerStep, ClientSide!Begin,
     ClientSide!LoopStep,
     ClientSide!OnResponseSet, ClientSide!OnResponseDies, ClientSide!OnResponseFind,
     ClientSide!ServerStep,
     ClientSide!Answer,
     ClientSide!Stopped, ClientSide!vars, ClientSide!callerVars

\* What a worker does leaves the relays of the others as they were.
LEMMA RelayKept ==
  ASSUME SystemInv, RelayInv, [SystemNext]_systemVars, NEW w \in Workers,
         \A r \in Requests : req[r] # None => req'[r] = req[r],
         callOf' \in [Requests -> Nested \cup {None}],
         \A v \in Workers \ {w} :
           job'[v] = job[v] /\ at'[v] = at[v] /\ pc'[v] = pc[v] /\ cur'[v] = cur[v],
         \A r \in Requests : job[w] # r =>
           callOf'[r] = callOf[r] /\ (callOf[r] # None => ended'[r] = ended[r]),
         \A r \in Requests : (job[w] = r /\ callOf'[r] # None) =>
           /\ req'[r] # None /\ req'[r].meth \in Relays
           /\ \/ ended'[r] # None /\ RelayDone(r)'
              \/ ended'[r] = None /\ \E v \in Workers : job'[v] = r /\ at'[v] = "run",
         pc'[w] # "idle" => at'[w] = "run" /\ callOf'[job'[w]] = cur'[w],
         (at'[w] = "run" /\ pc'[w] = "idle" /\ callOf'[job'[w]] # None) =>
           outcome'[callOf'[job'[w]]] # None
  PROVE  RelayInv'
<1>1. \A n \in Nested : outcome[n] # None => outcome'[n] = outcome[n]
  BY OutcomeKept
<1>2. ASSUME NEW r \in Requests, callOf'[r] # None
      PROVE  /\ callOf'[r] \in Nested
             /\ req'[r] # None /\ req'[r].meth \in Relays
             /\ \/ ended'[r] # None /\ RelayDone(r)'
                \/ ended'[r] = None /\ \E v \in Workers : job'[v] = r /\ at'[v] = "run"
  <2>1. CASE job[w] = r
    BY <1>2, <2>1
  <2>2. CASE job[w] # r
    <3>1. callOf'[r] = callOf[r] /\ ended'[r] = ended[r] /\ callOf[r] \in Nested
      BY <1>2, <2>2
    <3>2. CASE ended[r] # None
      BY <1>1, <1>2, <3>1, <3>2 DEF RelayInv, CallOfInv, RelayDone
    <3>3. CASE ended[r] = None
      <4>1. PICK v \in Workers : job[v] = r /\ at[v] = "run"
        BY <1>2, <3>1, <3>3 DEF RelayInv, CallOfInv
      <4> QED BY <1>2, <2>2, <3>1, <3>3, <4>1 DEF RelayInv, CallOfInv
    <3> QED BY <3>2, <3>3
  <2> QED BY <2>1, <2>2
<1>3. ASSUME NEW v \in Workers
      PROVE  /\ pc'[v] # "idle" => at'[v] = "run" /\ callOf'[job'[v]] = cur'[v]
             /\ (at'[v] = "run" /\ pc'[v] = "idle" /\ callOf'[job'[v]] # None) =>
                   outcome'[callOf'[job'[v]]] # None
  <2>1. CASE v = w
    BY <2>1
  <2>2. CASE v # w
    <3>1. job'[v] = job[v] /\ at'[v] = at[v] /\ pc'[v] = pc[v] /\ cur'[v] = cur[v]
      BY <2>2
    <3>2. CASE at[v] = "run"
      <4>1. job[v] \in Requests
        BY <3>2 DEF SystemInv, TypeInv, TypeOK, JobInv
      <4>2. job[w] # job[v]
        <5> SUFFICES ASSUME job[w] = job[v] PROVE FALSE
          OBVIOUS
        <5>1. job[w] # None
          BY <4>1, RequestsAssumption
        <5> QED BY <2>2, <5>1, AloneAtWork DEF SystemInv
      <4>3. callOf'[job'[v]] = callOf[job[v]]
        BY <3>1, <4>1, <4>2
      <4>4. callOf[job[v]] # None => callOf[job[v]] \in Nested
        BY <4>1 DEF RelayInv
      <4> QED BY <1>1, <3>1, <4>3, <4>4 DEF RelayInv, RelayingInv
    <3>3. CASE at[v] # "run"
      BY <3>1, <3>3 DEF RelayInv, RelayingInv
    <3> QED BY <3>2, <3>3
  <2> QED BY <2>1, <2>2
<1> QED BY <1>2, <1>3 DEF RelayInv, CallOfInv, RelayingInv

\* A request whose method does not run yet has no call.
LEMMA NotYetRelayed ==
  ASSUME SystemInv, WorkInv, RelayInv, NEW w \in Workers, at[w] \in {"find", "call"}
  PROVE  job[w] \in Requests /\ callOf[job[w]] = None
<1>1. job[w] \in Requests /\ ended[job[w]] = None
  BY DEF SystemInv, TypeInv, TypeOK, JobInv, WorkInv, WorkerInv, Untried
<1>2. ASSUME NEW v \in Workers, job[v] = job[w], at[v] = "run" PROVE FALSE
  <2>1. job[w] # None
    BY <1>1, RequestsAssumption
  <2> QED BY <1>2, <2>1, AloneAtWork DEF SystemInv
<1> QED BY <1>1, <1>2 DEF RelayInv, CallOfInv

LEMMA OwnKept ==
  ASSUME SystemInv, WorkInv, RelayInv, NEW w \in Workers, OwnStep(w)
  PROVE  RelayInv'
<1> USE DEF RelayInv
<1>0. /\ [SystemNext]_systemVars
      /\ Alive
      /\ UNCHANGED <<pc, cur, outcome, callOf>>
      /\ job \in [Workers -> Requests \cup {None}] /\ at \in [Workers -> Places]
      /\ ended \in [Requests -> Ends \cup {None}]
      /\ at[w] # "start" => job[w] # None
  BY DEF OwnStep, SystemNext, Working, clientVars, SystemInv, TypeInv, TypeOK, JobInv
<1>1. UNCHANGED req
  BY DEF OwnStep, Start, Find, Call, Run, Reply, brokerVars
<1>2. \A v \in Workers \ {w} : job'[v] = job[v] /\ at'[v] = at[v]
  BY <1>0 DEF OwnStep, Start, Take, Find, Call, Run, Reply, Goto, poolVars, workerVars
<1>3. at[w] # "run" => pc[w] = "idle"
  BY DEF RelayingInv
<1>4. CASE Start(w)
  <2>1. job[w] = None /\ at'[w] = "find" /\ pc[w] = "idle" /\ UNCHANGED ended
    BY <1>0, <1>3, <1>4 DEF Start, Take, Goto, historyVars
  <2> QED BY <1>0, <1>1, <1>2, <2>1, RelayKept, RequestsAssumption
<1>5. CASE Find(w)
  <2>1. /\ at[w] = "find" /\ at'[w] \in {"find", "call", "reply"}
        /\ pc[w] = "idle" /\ UNCHANGED <<job, ended>>
    BY <1>0, <1>3, <1>5 DEF Find, Goto, historyVars, poolVars, workerVars
  <2> QED BY <1>0, <1>1, <1>2, <2>1, NotYetRelayed, RelayKept
<1>6. CASE Call(w)
  <2>1. at[w] = "call" /\ pc[w] = "idle" /\ UNCHANGED <<job, ended>>
    BY <1>0, <1>3, <1>6 DEF Call, historyVars, poolVars
  <2> QED BY <1>0, <1>1, <1>2, <2>1, NotYetRelayed, RelayKept
<1>7. CASE Reply(w)
  <2>1. /\ at[w] = "reply" /\ at'[w] \in {"reply", "send"} /\ pc[w] = "idle"
        /\ UNCHANGED <<job, ended>>
    BY <1>0, <1>3, <1>7 DEF Reply, Goto, historyVars, poolVars
  <2>2. ASSUME job[w] \in Requests, callOf[job[w]] # None
        PROVE  ended[job[w]] # None /\ RelayDone(job[w])
    <3>1. ASSUME NEW v \in Workers, job[v] = job[w], at[v] = "run" PROVE FALSE
      BY <1>0, <2>1, <3>1, AloneAtWork DEF SystemInv
    <3> QED BY <2>2, <3>1 DEF CallOfInv
  <2>3. \A r \in Requests : RelayDone(r) => RelayDone(r)'
    BY <1>0, <2>1 DEF RelayDone
  <2>4. \A r \in Requests : callOf[r] # None => req[r] # None /\ req[r].meth \in Relays
    BY DEF CallOfInv
  <2> QED BY <1>0, <1>1, <1>2, <2>1, <2>2, <2>3, <2>4, RelayKept
<1>8. CASE Run(w) /\ ~Relaying(w)
  <2>1. at[w] = "run" /\ UNCHANGED job /\ job[w] \in Requests
    BY <1>0, <1>8 DEF Run, poolVars
  <2>2. callOf[job[w]] = None
    BY <1>8, <2>1 DEF CallOfInv, Relaying, Meth
  <2>3. pc[w] = "idle"
    <3>1. pc[w] # "idle" => cur[w] \in Nested
      BY DEF SystemInv, ClientInv, ClientSide!BaseInv, ClientSide!IdsInv
    <3> QED BY <2>2, <3>1, RequestsAssumption DEF RelayingInv
  <2>4. \A r \in Requests : job[w] # r => ended'[r] = ended[r]
    BY <1>0, <1>8, <2>1 DEF Run
  <2> QED BY <1>0, <1>1, <1>2, <2>1, <2>2, <2>3, <2>4, RelayKept
<1> QED BY <1>4, <1>5, <1>6, <1>7, <1>8 DEF OwnStep

LEMMA CallKept ==
  ASSUME SystemInv, WorkInv, RelayInv, NEW w \in Workers,
         BeginCall(w) \/ SendCall(w) \/ CallStep(w)
  PROVE  RelayInv'
<1> USE DEF RelayInv
<1>0. /\ [SystemNext]_systemVars
      /\ UNCHANGED <<job, at, ended>>
      /\ pc \in [Workers -> ClientSide!Locations] /\ cur \in [Workers -> Nested \cup {None}]
      /\ outcome \in [Nested -> ClientSide!Outcomes \cup {None}]
      /\ job \in [Workers -> Requests \cup {None}] /\ (at[w] = "run" => job[w] # None)
      /\ pc[w] # "idle" => cur[w] \in Nested
  BY DEF SystemNext, Working, BeginCall, SendCall, CallStep, serverVars, poolVars, workerVars,
     historyVars, Request, SystemInv, TypeInv, TypeOK, JobInv, ClientInv, ClientSide!BaseInv,
     ClientSide!TypeOK, ClientSide!IdsInv
<1>1. at[w] = "run" => ended[job[w]] = None
  BY DEF WorkInv, WorkerInv, Untried
<1>2. \A r \in Requests : callOf[r] # None => req[r] # None /\ req[r].meth \in Relays
  BY DEF CallOfInv
<1>3. CASE BeginCall(w)
  <2>1. /\ at[w] = "run" /\ job[w] \in Requests /\ Meth(w) \in Relays
        /\ UNCHANGED <<req, outcome>>
        /\ callOf' = [callOf EXCEPT ![job[w]] = cur'[w]]
        /\ pc' = [pc EXCEPT ![w] = "register"]
    BY <1>0, <1>3 DEF BeginCall, Relaying, Client!Begin, Client!Goto, serverVars, brokerVars
  <2>2. PICK n \in Nested : cur' = [cur EXCEPT ![w] = n]
    BY <1>3 DEF BeginCall, Client!Begin
  <2>3. req[job[w]] # None
    BY <2>1, JobSent, NoneAssumption, RequestsAssumption DEF SystemInv
  <2> QED BY <1>0, <1>1, <1>2, <2>1, <2>2, <2>3, RelayKept, RequestsAssumption DEF Meth
<1>4. CASE SendCall(w)
  <2>1. PICK m \in Callees : Request(cur[w], m, "plain")
    BY <1>4 DEF SendCall
  <2>2. /\ pc[w] = "sending" /\ pc' = [pc EXCEPT ![w] = "locking"]
        /\ UNCHANGED <<cur, outcome, callOf>>
    BY <1>4 DEF SendCall, Client!Send, Client!Goto
  <2>3. at[w] = "run" /\ callOf[job[w]] = cur[w] /\ job[w] \in Requests
    BY <1>0, <2>2 DEF RelayingInv
  <2>4. req \in [Requests -> Bodies \cup {None}] /\ cur[w] \in Requests
    BY <1>0, <2>2 DEF SystemInv, TypeInv, TypeOK
  <2>5. \A r \in Requests : req[r] # None => req'[r] = req[r]
    BY <2>1, <2>4 DEF Request
  <2> QED BY <1>0, <1>1, <1>2, <2>2, <2>3, <2>5, RelayKept
<1>5. CASE CallStep(w)
  <2>1. UNCHANGED <<req, cur, callOf>>
    BY <1>5 DEF CallStep, InCall, Client!LockToRegister, Client!Lock, Client!Register,
       Client!LockToWait, Client!Get, Client!HandOver, Client!Take, Client!Wake,
       Client!WakeTimedOut, Client!EndCall, Client!Erase, serverVars, brokerVars
  <2>2. /\ pc[w] # "idle" /\ pc'[w] \in ClientSide!Locations
        /\ \A v \in Workers \ {w} : pc'[v] = pc[v]
    BY <1>0, <1>5 DEF CallStep, InCall, Client!LockToRegister, Client!Lock, Client!Register,
       Client!LockToWait, Client!Get, Client!HandOver, Client!Take, Client!Wake,
       Client!WakeTimedOut, Client!EndCall, Client!Erase, Client!Goto, ClientSide!Locations
  <2>3. at[w] = "run" /\ callOf[job[w]] = cur[w] /\ job[w] \in Requests
    BY <1>0, <2>2 DEF RelayingInv
  <2>4. pc'[w] = "idle" => outcome'[cur[w]] # None
    <3>1. ASSUME Client!Erase(w) PROVE outcome'[cur[w]] # None
      <4>1. outcome' = [outcome EXCEPT ![cur[w]] = ClientSide!Finished(ret[w])]
        BY <3>1 DEF Client!Erase, Client!EndCall, Client!Finished, ClientSide!Finished,
           Client!Decode, ClientSide!Decode
      <4>2. ret[w] \in ClientSide!Results \cup {None}
        BY DEF SystemInv, ClientInv, ClientSide!BaseInv, ClientSide!TypeOK
      <4>3. ClientSide!Finished(ret[w]) # None
        BY <4>2, ClientSide!FinishedIsOutcome, ClientAssumptions
      <4> QED BY <1>0, <2>2, <4>1, <4>3
    <3>2. ASSUME Client!WakeTimedOut(w) PROVE outcome'[cur[w]] # None
      <4>1. outcome' = [outcome EXCEPT ![cur[w]] = ClientSide!TimedOut]
        BY <3>2 DEF Client!WakeTimedOut, Client!EndCall, Client!TimedOut, ClientSide!TimedOut
      <4>2. ClientSide!TimedOut # None
        BY ClientSide!UnrepliedIsOutcome, ClientAssumptions DEF ClientSide!Unreplied
      <4> QED BY <1>0, <2>2, <4>1, <4>2
    <3> QED
      BY <1>0, <1>5, <3>1, <3>2 DEF CallStep, InCall, Client!LockToRegister, Client!Lock,
         Client!Register, Client!LockToWait, Client!Get, Client!HandOver, Client!Take,
         Client!Wake, Client!Goto
  <2> QED BY <1>0, <1>1, <1>2, <2>1, <2>2, <2>3, <2>4, RelayKept
<1> QED BY <1>3, <1>4, <1>5

LEMMA EndRelayKept ==
  ASSUME SystemInv, WorkInv, RelayInv, NEW w \in Workers, EndRelay(w)
  PROVE  RelayInv'
<1> USE DEF RelayInv
<1>0. /\ [SystemNext]_systemVars
      /\ UNCHANGED <<req, job, pc, cur, outcome, callOf>>
      /\ at[w] = "run" /\ pc[w] = "idle" /\ callOf[job[w]] # None
      /\ job[w] \in Requests
      /\ \A v \in Workers \ {w} : at'[v] = at[v]
      /\ \A r \in Requests : r # job[w] => ended'[r] = ended[r]
      /\ ended'[job[w]] = EndOf(outcome[callOf[job[w]]])
  BY DEF SystemNext, Working, EndRelay, Run, Goto, clientVars, brokerVars, poolVars, workerVars,
     SystemInv, TypeInv, TypeOK, JobInv
<1>1. outcome[callOf[job[w]]] # None
  BY <1>0 DEF RelayingInv
<1>2. ended'[job[w]] # None
  BY <1>0, NoneAssumption DEF EndOf, MethodEnds
<1>3. \A r \in Requests : callOf[r] # None => req[r] # None /\ req[r].meth \in Relays
  BY DEF CallOfInv
<1>4. RelayDone(job[w])'
  BY <1>0, <1>1 DEF RelayDone, EndOf
<1> QED BY <1>0, <1>1, <1>2, <1>3, <1>4, RelayKept

LEMMA ReplyKept ==
  ASSUME SystemInv, WorkInv, RelayInv, NEW w \in Workers, SendReply(w)
  PROVE  RelayInv'
<1> USE DEF RelayInv
<1>0. /\ [SystemNext]_systemVars
      /\ UNCHANGED <<req, pc, cur, outcome, callOf, ended>>
      /\ at[w] = "send" /\ at'[w] = "start" /\ job[w] # None /\ pc[w] = "idle"
      /\ \A v \in Workers \ {w} : at'[v] = at[v] /\ job'[v] = job[v]
  BY DEF SystemNext, Working, SendReply, Publish, Done, Goto, Client!Answer, Client!callerVars,
     clientVars, brokerVars, SystemInv, TypeInv, TypeOK, JobInv, RelayingInv
<1>1. ASSUME job[w] \in Requests, callOf[job[w]] # None
      PROVE  ended[job[w]] # None /\ RelayDone(job[w])
  <2>1. ASSUME NEW v \in Workers, job[v] = job[w], at[v] = "run" PROVE FALSE
    BY <1>0, <2>1, AloneAtWork DEF SystemInv
  <2> QED BY <1>1, <2>1 DEF CallOfInv
<1>2. \A r \in Requests : RelayDone(r) => RelayDone(r)'
  BY <1>0 DEF RelayDone
<1>3. \A r \in Requests : callOf[r] # None => req[r] # None /\ req[r].meth \in Relays
  BY DEF CallOfInv
<1> QED BY <1>0, <1>1, <1>2, <1>3, RelayKept

LEMMA RelayStep ==
  SystemInv /\ TruthInv /\ RelayInv /\ [SystemNext]_systemVars => RelayInv'
<1> SUFFICES ASSUME SystemInv, TruthInv, RelayInv, [SystemNext]_systemVars PROVE RelayInv'
  OBVIOUS
<1>1. ASSUME UNCHANGED <<job, at, pc, cur, outcome, callOf, ended>>,
             \A r \in Requests : req[r] # None => req'[r] = req[r]
      PROVE  RelayInv'
  BY <1>1 DEF RelayInv, CallOfInv, RelayingInv, RelayDone
<1>2. ASSUME NEW w \in Workers, Working(w) PROVE RelayInv'
  <2>1. WorkInv
    BY <1>2 DEF Working, OwnStep, BeginCall, SendCall, CallStep, EndRelay, SendReply, TruthInv,
       LiveInv
  <2> QED BY <1>2, <2>1, OwnKept, CallKept, EndRelayKept, ReplyKept DEF Working
<1>3. CASE OuterRequest
  <2>1. PICK r \in Requests, m \in Methods, f \in Forms : Request(r, m, f)
    BY <1>3 DEF OuterRequest, Unsent
  <2>2. req \in [Requests -> Bodies \cup {None}]
    BY DEF SystemInv, TypeInv, TypeOK
  <2> QED
    BY <1>1, <1>3, <2>1, <2>2 DEF OuterRequest, Request, clientVars, poolVars, workerVars,
       historyVars
<1>4. CASE Serve \/ StopServing \/ AtRest \/ UNCHANGED systemVars
  BY <1>1, <1>4 DEF Serve, LoopStep, OnRpcMessage, Detach, StopServing, AtRest, clientVars,
     vars,
     brokerVars, historyVars, workerVars, poolVars, systemVars
<1>5. CASE Deliver
  BY <1>1, <1>5 DEF Deliver, Client!LoopStep, Client!OnResponseSet, Client!OnResponseFind,
     Client!OnResponseDies, Client!callerVars, serverVars, brokerVars, historyVars, workerVars, poolVars
<1> QED BY <1>2, <1>3, <1>4, <1>5 DEF SystemNext

\* The end of the call is that of the method it called, unless it timed out.
LEMMA RelayedEnd ==
  ASSUME SystemInv, RelayInv, ClientSide!OwnReply, CallsEndToEnd
  PROVE  RelaysEndToEnd
<1> SUFFICES ASSUME NEW r \in Requests, callOf[r] # None, ended[r] # None
             PROVE  ended[r] = "runtime_error" <=>
                      \/ outcome[callOf[r]] = Client!TimedOut
                      \/ ended[callOf[r]] = "runtime_error"
  BY DEF RelaysEndToEnd
<1>1. PICK n \in Nested : n = callOf[r]
  BY DEF RelayInv
<1>2. outcome[n] # None /\ ended[r] = EndOf(outcome[n])
  BY <1>1 DEF RelayInv, CallOfInv, RelayDone
<1>3. CASE outcome[n] = Client!TimedOut
  BY <1>1, <1>2, <1>3 DEF EndOf, Client!TimedOut
<1>4. CASE outcome[n] # Client!TimedOut
  <2>1. /\ answer[n] # None
        /\ outcome[n] = [how |-> ClientSide!Decode(answer[n]), of |-> n]
    BY <1>2, <1>4 DEF SystemInv, ClientInv, ClientSide!OwnReply, ClientSide!Unreplied,
       ClientSide!TimedOut, Client!TimedOut
  <2>2. outcome[n].of = n /\ outcome[n].how \in {"value", "error"}
    BY <2>1 DEF ClientSide!Decode
  <2>3. outcome[n].how = "error" <=> ended[n] = "runtime_error"
    BY <1>2, <2>2 DEF CallsEndToEnd
  <2> QED BY <1>1, <1>2, <1>4, <2>2, <2>3 DEF EndOf
<1> QED BY <1>3, <1>4

-----------------------------------------------------------------------------
\* A server whose methods call back keeps the promise of RequestService to all its
\* clients, those of its own methods included (_rpc_worker, send_reply).
THEOREM RequestsServed == SystemSpec => ImplementsRequestService
<1> QED BY ServerPart, Refinement

\* The workers' calls see a CallService, whatever the server and the queues do.
THEOREM CallsServed == SystemSpec => ClientSide!ImplementsCallService
<1>1. ClientSide!Spec => ClientSide!ImplementsCallService
  BY ClientSide!Refinement, ClientAssumptions
<1> QED BY <1>1, ClientPart, PTL

\* A call returns what the method it called ended with, and a method that makes a call
\* ends as that call did: errors travel through workers, queues, the request map and
\* the waiting worker to the caller outside, and nothing else becomes one.
THEOREM EndToEndCorrect == SystemSpec => []EndToEnd
<1>0. ClientSide!Spec => []ClientSide!OwnReply
  BY ClientSide!RepliesMatch, ClientAssumptions
<1>1. SystemSpec => []ClientSide!OwnReply
  BY <1>0, ClientPart, PTL
<1>2. SystemSpec => []CallsEndToEnd
  BY <1>1, SystemInvariant, CarryInit, CarryStep, CarriedEnd, ServerPart, RepliesMatch,
     ThrownUnanswered, PTL DEF SystemSpec
<1>3. SystemSpec => []RelaysEndToEnd
  BY <1>1, <1>2, SystemInvariant, ServerPart, TruthInvariant, RelayInit, RelayStep,
     RelayedEnd, PTL
     DEF SystemSpec
<1> QED BY <1>2, <1>3, PTL DEF EndToEnd
=============================================================================
