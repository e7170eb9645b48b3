----------------------------- MODULE CallService -----------------------------
(***************************************************************************)
(* What MessageQueueClient promises to the threads that make RPC calls     *)
(* through it, with the request map, its mutex, the condition variables    *)
(* and the event-loop thread left out: a call is open from the moment it   *)
(* gets its request id until it returns, the service answers a call at     *)
(* most once, and a call returns either with what the answer to ITS OWN    *)
(* request says or, when it was made with a timeout, by timing out.  A     *)
(* caller may also leave without waiting, and a call whose arguments       *)
(* cannot be encoded fails before the service hears of it.                 *)
(***************************************************************************)
CONSTANTS
  Callers,      \* application threads that share one client
  Ids,          \* request ids ("corr-<uuid>"); bounds the number of calls
  Kinds,        \* the shapes of reply a server may send
  None,         \* "no value"
  Effect        \* [Kinds -> {"value", "error"}]: what a reply makes the call do

VARIABLES
  calling,      \* the id of the call each caller is in, or None
  limited,      \* whether the call of each caller has a timeout
  answer,       \* the kind of the answer to each request, or None
  outcome       \* how each call returned, or None

vars == <<calling, limited, answer, outcome>>

TimedOut == [how |-> "timeout", of |-> None]
NotEncoded == [how |-> "not_encoded", of |-> None]
Posted == [how |-> "posted", of |-> None]

\* A call that returns what the reply to request id says.
Replied(id, kind) == [how |-> Effect[kind], of |-> id]

Init ==
  /\ calling = [c \in Callers |-> None]
  /\ limited = [c \in Callers |-> FALSE]
  /\ answer = [id \in Ids |-> None]
  /\ outcome = [id \in Ids |-> None]

\* Request ids are random UUIDs: no two calls ever share one.
Call(c, id, t) ==
  /\ calling[c] = None
  /\ outcome[id] = None
  /\ \A d \in Callers : calling[d] # id
  /\ calling' = [calling EXCEPT ![c] = id]
  /\ limited' = [limited EXCEPT ![c] = t]
  /\ UNCHANGED <<answer, outcome>>

\* The service answers a call that was made, possibly after it timed out.
Serve(id, k) ==
  /\ outcome[id] # NotEncoded
  /\ outcome[id] # None \/ \E c \in Callers : calling[c] = id
  /\ answer[id] = None
  /\ answer' = [answer EXCEPT ![id] = k]
  /\ UNCHANGED <<calling, limited, outcome>>

Finish(c, o) ==
  /\ outcome' = [outcome EXCEPT ![calling[c]] = o]
  /\ calling' = [calling EXCEPT ![c] = None]
  /\ UNCHANGED <<limited, answer>>

Return(c) ==
  /\ calling[c] # None
  /\ answer[calling[c]] # None
  /\ Finish(c, Replied(calling[c], answer[calling[c]]))

Expire(c) ==
  /\ calling[c] # None
  /\ limited[c]
  /\ Finish(c, TimedOut)

Fail(c) ==
  /\ calling[c] # None
  /\ answer[calling[c]] = None
  /\ Finish(c, NotEncoded)

Leave(c) == calling[c] # None /\ Finish(c, Posted)

Next ==
  \/ \E c \in Callers :
       \/ \E id \in Ids, t \in BOOLEAN : Call(c, id, t)
       \/ Return(c)
       \/ Expire(c)
       \/ Fail(c)
       \/ Leave(c)
  \/ \E id \in Ids, k \in Kinds : Serve(id, k)

Spec == Init /\ [][Next]_vars
==============================================================================
