------------------------------ MODULE ClientRpc ------------------------------
(***************************************************************************)
(* The RPC half of MessageQueueClient (include/client.h, client.inl,       *)
(* src/client.cc): application threads in Caller::call share the map       *)
(* req_events of AsyncResult objects with the event-loop thread, which     *)
(* runs on_response for every message of the callback queue.               *)
(*                                                                         *)
(* The callers take req_events_mtx: call_async to register its request,    *)
(* and Caller::call from before it starts to wait until it has erased its  *)
(* entry.  on_response takes no lock: it looks the entry up and uses it in *)
(* two separate accesses to the map.                                       *)
(*                                                                         *)
(* Outside src/ and modelled from how it is used: std::map,                *)
(* std::condition_variable and the broker with the servers behind it.      *)
(***************************************************************************)
CONSTANTS
  Callers,         \* application threads that share one client
  Ids,             \* request ids; each is used once, so |Ids| bounds the calls
  Kinds,           \* reply shapes, a subset of ReplyKinds
  Timings,         \* {TRUE}: calls with a timeout; FALSE: caller(meth, ...),
                   \* whose ten days never pass in a behaviour
  Unusual,         \* what else applications do, a subset of UnusualUses
  MapRaces,        \* does a find that overlaps an insert or erase go wrong?
  SpuriousWakeups, \* does a condition variable wake up unnotified?
  None             \* no caller, no id, no entry, no result, not answered

\* "result": error is "" or null.  "error_text": a C++ server's e.what().
\* "error_object": a server that packs the exception into a map.
\* "malformed": not the JSON array of four that a reply is.
ReplyKinds == {"result", "error_text", "error_object", "malformed"}

\* "bytes": an argument holds a string that is not UTF-8.  "async": call_async, which
\* is public, without a wait for the reply.
UnusualUses == {"bytes", "async"}

ASSUME CallersAssumption == None \notin Callers
ASSUME IdsAssumption == None \notin Ids
ASSUME KindsAssumption == Kinds \subseteq ReplyKinds /\ None \notin Kinds
ASSUME TimingsAssumption == Timings \subseteq BOOLEAN
ASSUME UnusualAssumption == Unusual \subseteq UnusualUses
ASSUME PlatformAssumption == MapRaces \in BOOLEAN /\ SpuriousWakeups \in BOOLEAN

VARIABLES
  pc,           \* where each caller is in Caller::call / call_async
  cur,          \* the request id of each caller's latest call
  timed,        \* whether that call has a timeout
  ret,          \* local "ret" of Caller::call: what get() returned
  mtx,          \* holder of req_events_mtx
  req_events,   \* the AsyncResult of each registered request, or None
  sent,         \* requests published to the rpc exchange
  answer,       \* the kind of the reply a server gave to each request
  inflight,     \* replies on their way to or in the callback queue
  handling,     \* the id on_response found and is about to complete
  outcome,      \* how each call ended, for the thread that made it
  fault,        \* why the process died, or "none"
  blank,        \* history: requests whose wait ended unnotified
  missed        \* history: requests whose entry find() did not see

callerVars == <<pc, cur, timed, ret, outcome>>
mapVars == <<mtx, req_events>>
serverVars == <<sent, answer>>
loopVars == <<inflight, handling>>
historyVars == <<blank, missed>>
vars == <<callerVars, mapVars, serverVars, loopVars, fault, historyVars>>

Locations == {"idle", "register", "inserting", "sending", "locking",
              "getting", "waiting", "moving", "erasing"}
Results == [id : Ids, kind : Kinds]
AsyncResults == [done : BOOLEAN, result : Results \cup {None}, signalled : BOOLEAN]
Outcomes == [how : {"value", "error", "timeout", "parse_error", "not_encoded", "posted"},
             of : Ids \cup {None}]

ASSUME NoneAssumption == /\ None \notin AsyncResults
                         /\ None \notin Results
                         /\ None \notin Outcomes

Init ==
  /\ pc = [c \in Callers |-> "idle"]
  /\ cur = [c \in Callers |-> None]
  /\ timed = [c \in Callers |-> FALSE]
  /\ ret = [c \in Callers |-> None]
  /\ mtx = None
  /\ req_events = [id \in Ids |-> None]
  /\ sent = {}
  /\ answer = [id \in Ids |-> None]
  /\ inflight = {}
  /\ handling = None
  /\ outcome = [id \in Ids |-> None]
  /\ fault = "none"
  /\ blank = {}
  /\ missed = {}

-----------------------------------------------------------------------------
(* AsyncResult.  Each of set and get runs under the object's own mutex_,   *)
(* which only a wait gives up, so each is one step up to that wait.        *)

Fresh == [done |-> FALSE, result |-> None, signalled |-> FALSE]

\* Fault variant: the flag that a later get() relies on is not raised.
SetWithoutDone(r, waited) == [done |-> FALSE, result |-> r, signalled |-> waited]

\* set(): notify_one reaches the thread in get(), if there is one.
Set(r, waited) == [done |-> TRUE, result |-> r, signalled |-> waited]

\* Only an error that is a JSON string becomes an exception in the caller.
Decode(kind) == IF kind = "error_text" THEN "error" ELSE "value"

TimedOut == [how |-> "timeout", of |-> None]
NotEncoded == [how |-> "not_encoded", of |-> None]
Posted == [how |-> "posted", of |-> None]

\* The end of Caller::call: throw the error, or parse the result; the moved-out
\* or never-set result "" is not JSON.
Finished(r) ==
  IF r = None THEN [how |-> "parse_error", of |-> None]
              ELSE [how |-> Decode(r.kind), of |-> r.id]

-----------------------------------------------------------------------------
(* Caller::call, with call_async inlined.                                  *)

Used(id) == outcome[id] # None \/ \E c \in Callers : pc[c] # "idle" /\ cur[c] = id

Goto(c, l) == pc' = [pc EXCEPT ![c] = l]

Begin(c) ==
  /\ pc[c] = "idle"
  /\ \E id \in Ids, t \in Timings :
       /\ ~Used(id)
       /\ cur' = [cur EXCEPT ![c] = id]
       /\ timed' = [timed EXCEPT ![c] = t]
  /\ Goto(c, "register")
  /\ UNCHANGED <<ret, outcome, mapVars, serverVars, loopVars, fault, historyVars>>

Lock(c, from, to) ==
  /\ pc[c] = from
  /\ mtx = None
  /\ mtx' = c
  /\ Goto(c, to)
  /\ UNCHANGED <<cur, timed, ret, outcome, req_events, serverVars, loopVars, fault,
                 historyVars>>

LockToRegister(c) == Lock(c, "register", "inserting")

Register(c) ==
  /\ pc[c] = "inserting"
  /\ req_events' = [req_events EXCEPT ![cur[c]] = Fresh]
  /\ mtx' = None
  /\ Goto(c, "sending")
  /\ UNCHANGED <<cur, timed, ret, outcome, serverVars, loopVars, fault, historyVars>>

\* Encode and publish; nothing blocks while send_mtx is held.
Send(c) ==
  /\ pc[c] = "sending"
  /\ sent' = sent \cup {cur[c]}
  /\ Goto(c, "locking")
  /\ UNCHANGED <<cur, timed, ret, outcome, mapVars, answer, loopVars, fault, historyVars>>

\* The call ends with outcome o and leaves entry in req_events.
EndCall(c, o, entry) ==
  /\ outcome' = [outcome EXCEPT ![cur[c]] = o]
  /\ req_events' = [req_events EXCEPT ![cur[c]] = entry]
  /\ mtx' = IF mtx = c THEN None ELSE mtx
  /\ Goto(c, "idle")
  /\ UNCHANGED <<cur, timed, ret, serverVars, loopVars, fault, historyVars>>

\* dump() throws out of the call: nothing was sent, but the entry is there already.
SendBytes(c) ==
  /\ pc[c] = "sending"
  /\ "bytes" \in Unusual
  /\ EndCall(c, NotEncoded, req_events[cur[c]])

\* The caller of call_async has its request id and does not come back.
Leave(c) ==
  /\ pc[c] = "locking"
  /\ "async" \in Unusual
  /\ EndCall(c, Posted, req_events[cur[c]])

LockToWait(c) == Lock(c, "locking", "getting")

\* Fault variant: get() does not look at done_.
NotReady(c) == FALSE

\* if (!done_)
Ready(c) == req_events[cur[c]].done

Lowered(e) == [done |-> FALSE, result |-> e.result, signalled |-> FALSE]

\* get() returns a reference to result_: done_ is lowered, mutex_ is released.
HandOver(c) ==
  /\ req_events' = [req_events EXCEPT ![cur[c]] = Lowered(@)]
  /\ Goto(c, "moving")
  /\ UNCHANGED <<cur, timed, ret, outcome, mtx, serverVars, loopVars, fault, missed>>

Get(c) ==
  /\ pc[c] = "getting"
  /\ UNCHANGED blank
  /\ \/ Ready(c) /\ HandOver(c)
     \/ /\ ~Ready(c)
        /\ Goto(c, "waiting")
        /\ UNCHANGED <<cur, timed, ret, outcome, mapVars, serverVars, loopVars, fault, missed>>

\* wait_for has no predicate: any wake-up before the deadline ends the wait.
Wake(c) ==
  /\ pc[c] = "waiting"
  /\ \/ req_events[cur[c]].signalled /\ UNCHANGED blank
     \/ /\ ~req_events[cur[c]].signalled /\ SpuriousWakeups
        /\ blank' = blank \cup {cur[c]}
  /\ HandOver(c)

\* Fault variant: get() hands out the object.
TakenObject(c) == req_events[cur[c]]

\* The local variable gets what is moved out of result_.
Taken(c) == req_events[cur[c]].result

\* ret = ...: the caller moves result_ away, with req_events_mtx but not mutex_.
Take(c) ==
  /\ pc[c] = "moving"
  /\ ret' = [ret EXCEPT ![c] = Taken(c)]
  /\ req_events' = [req_events EXCEPT ![cur[c]].result = None]
  /\ Goto(c, "erasing")
  /\ UNCHANGED <<cur, timed, outcome, mtx, serverVars, loopVars, fault, historyVars>>

\* Fault variants: the timed-out call gives its entry back as well; any return of
\* wait_for is taken for a timeout; wait() instead of wait_for().
WakeTimedOutErasing(c) ==
  pc[c] = "waiting" /\ timed[c] /\ EndCall(c, TimedOut, None)
WakeTimedOutAlways(c) ==
  pc[c] = "waiting" /\ EndCall(c, TimedOut, req_events[cur[c]])

NoDeadline(c) == pc[c] = "none" /\ EndCall(c, TimedOut, req_events[cur[c]])

\* The deadline passes before the thread runs again, notified or not: get()
\* throws, which unlocks req_events_mtx and skips the erase.
WakeTimedOut(c) ==
  /\ pc[c] = "waiting"
  /\ timed[c]
  /\ EndCall(c, TimedOut, req_events[cur[c]])

\* Fault variant: an error reply is thrown before the entry is erased.
EraseUnlessError(c) ==
  /\ pc[c] = "erasing"
  /\ EndCall(c, Finished(ret[c]),
             IF Finished(ret[c]).how = "error" THEN req_events[cur[c]] ELSE None)

\* Erase the entry, then throw the error or parse the result.
Erase(c) ==
  /\ pc[c] = "erasing"
  /\ EndCall(c, Finished(ret[c]), None)

-----------------------------------------------------------------------------
(* on_response, on the event-loop thread.                                  *)

\* A thread that holds req_events_mtx is changing the tree of the map.
Mutating == \E c \in Callers : pc[c] \in {"inserting", "erasing"}
Racing == MapRaces /\ Mutating

\* req_events.find(req_id): racing with a change of the tree it may miss the entry.
OnResponseFind(id) ==
  /\ handling = None
  /\ id \in inflight
  /\ inflight' = inflight \ {id}
  /\ \/ /\ req_events[id] # None
        /\ handling' = id
        /\ UNCHANGED missed
     \/ /\ req_events[id] = None
        /\ UNCHANGED <<handling, missed>>
     \/ /\ req_events[id] # None /\ Racing
        /\ missed' = missed \cup {id}
        /\ UNCHANGED handling
  /\ UNCHANGED <<callerVars, mapVars, serverVars, fault, blank>>

Waited(id) == \E c \in Callers : pc[c] = "waiting" /\ cur[c] = id

\* Fault variant: the reply completes whichever request is being waited for.
WaitedForReqId ==
  IF \E c \in Callers : pc[c] = "waiting"
  THEN cur[CHOOSE c \in Callers : pc[c] = "waiting"] ELSE handling

\* req_id: the correlation id of the message.
ReqId == handling

Moving(id) == \E c \in Callers : pc[c] = "moving" /\ cur[c] = id

\* req_events[req_id]->set(...): operator[] looks the id up again and inserts a null
\* pointer when the entry is gone.
OnResponseSet ==
  /\ handling # None
  /\ answer[handling] # "malformed"
  /\ req_events[ReqId] # None
  /\ req_events' = [req_events EXCEPT ![ReqId] =
                      Set([id |-> handling, kind |-> answer[handling]], Waited(ReqId))]
  /\ handling' = None
  /\ UNCHANGED <<callerVars, mtx, serverVars, inflight, fault, historyVars>>

\* What ends the process: an access to the map meets a change of it; rpc_decode_rep
\* throws out of the loop's thread; the pointer is null; set() and the caller move the
\* same strings.
OnResponseDies ==
  /\ \/ /\ Racing
        /\ handling # None \/ inflight # {}
        /\ fault' = "map_race"
     \/ /\ handling # None
        /\ answer[handling] = "malformed"
        /\ fault' = "decode"
     \/ /\ handling # None
        /\ answer[handling] # "malformed"
        /\ \/ req_events[ReqId] = None /\ fault' = "null_deref"
           \/ Moving(ReqId) /\ fault' = "data_race"
  /\ UNCHANGED <<callerVars, mapVars, serverVars, loopVars, historyVars>>

\* The broker and a server: each request is answered at most once, replies
\* may overtake each other on the way.
Answer(id, k) ==
  /\ id \in sent
  /\ answer[id] = None
  /\ answer' = [answer EXCEPT ![id] = k]
  /\ inflight' = inflight \cup {id}
  /\ UNCHANGED <<callerVars, mapVars, sent, handling, fault, historyVars>>

-----------------------------------------------------------------------------
Alive == fault = "none"

CallStep(c) ==
  \/ LockToRegister(c) \/ Register(c) \/ Send(c) \/ SendBytes(c) \/ Leave(c)
  \/ LockToWait(c) \/ Get(c) \/ Wake(c) \/ WakeTimedOut(c) \/ Take(c) \/ Erase(c)

CallerStep(c) == Alive /\ CallStep(c)
LoopStep == Alive /\ (OnResponseSet \/ OnResponseDies \/ \E id \in Ids : OnResponseFind(id))
ServerStep == \E id \in Ids, k \in Kinds : Answer(id, k)

\* The process died, or every id was used and every call returned.
Stopped ==
  /\ ~Alive \/ \A c \in Callers : pc[c] = "idle" /\ \A id \in Ids : Used(id)
  /\ UNCHANGED vars

Next ==
  \/ \E c \in Callers : (Alive /\ Begin(c)) \/ CallerStep(c)
  \/ LoopStep
  \/ ServerStep
  \/ Stopped

Spec == Init /\ [][Next]_vars

(* Fairness: the operating system runs every thread that can run, and      *)
(* deadlines pass.  Nothing makes an application call or a server answer.  *)
FairSpec ==
  /\ Spec
  /\ \A c \in Callers : WF_vars(CallerStep(c))
  /\ WF_vars(LoopStep)

\* Every request is answered sooner or later.
ServedSpec == FairSpec /\ WF_vars(ServerStep)

-----------------------------------------------------------------------------
(* Properties.                                                             *)

\* Type correctness of every variable of the module.
TypeOK ==
  /\ pc \in [Callers -> Locations]
  /\ cur \in [Callers -> Ids \cup {None}]
  /\ timed \in [Callers -> BOOLEAN]
  /\ ret \in [Callers -> Results \cup {None}]
  /\ mtx \in Callers \cup {None}
  /\ req_events \in [Ids -> AsyncResults \cup {None}]
  /\ sent \subseteq Ids
  /\ answer \in [Ids -> Kinds \cup {None}]
  /\ inflight \subseteq Ids
  /\ handling \in Ids \cup {None}
  /\ outcome \in [Ids -> Outcomes \cup {None}]
  /\ fault \in {"none", "decode", "map_race", "null_deref", "data_race"}
  /\ blank \subseteq Ids
  /\ missed \subseteq Ids

\* The outcomes that no reply decides.
Unreplied == {TimedOut, NotEncoded, Posted}

\* A call that a reply ended returned what the reply to its own request says: get()
\* never hands out a result that was not set, nor one that belongs to another request
\* (AsyncResult, Caller::call, on_response), if no wait ends unnotified.
OwnReply ==
  \A id \in Ids :
    (outcome[id] # None /\ outcome[id] \notin Unreplied) =>
      /\ answer[id] # None
      /\ outcome[id] = [how |-> Decode(answer[id]), of |-> id]

\* If no wait ends unnotified, on_response never uses an entry that was erased between
\* its two accesses to req_events: the thread that erases it waits for this very reply.
NoNullDeref == fault # "null_deref"

\* On any platform: a call fails to parse a blank result, and on_response uses an entry
\* that is gone or moves a result under its reader, for one reason only: the wait for
\* that very reply ended unnotified, which wait_for without a predicate lets happen
\* (AsyncResult::get).  Every other reply still ends its own call.
BlankExplained ==
  /\ fault \in {"null_deref", "data_race"} => handling \in blank
  /\ \A id \in Ids \ blank :
       (outcome[id] # None /\ outcome[id] \notin Unreplied) =>
         outcome[id] = [how |-> Decode(answer[id]), of |-> id]

\* The calls in which req_events has, or must have, an entry.
Registered(c) == pc[c] \in {"sending", "locking", "getting", "waiting", "moving", "erasing"}

\* req_events grows in three ways: a call times out, its arguments cannot be encoded
\* after its entry was made, or nobody waits for it.  Every other entry is that of a
\* call in progress: an error, a blank result or a late reply leaves none behind.
LeaksExplained ==
  \A id \in Ids :
    req_events[id] # None =>
      \/ outcome[id] \in Unreplied
      \/ \E c \in Callers : Registered(c) /\ cur[c] = id

\* A reply that on_response is done with has reached its call, whatever the
\* order of sending, locking, waiting and replying: done_ is up, and a thread
\* that was already waiting has been notified.
Consumed(id) == answer[id] # None /\ id \notin inflight /\ handling # id
Reached(c) ==
  /\ req_events[cur[c]] # None
  /\ req_events[cur[c]].done
  /\ pc[c] = "waiting" => req_events[cur[c]].signalled
Unserved(c) == pc[c] \in {"locking", "getting", "waiting"} /\ Consumed(cur[c])
ReplyNotLost == \A c \in Callers : Unserved(c) => Reached(c)

\* On any platform: the only replies lost between the event loop and a call are those
\* whose entry find() did not see, because without req_events_mtx it ran while another
\* call changed the tree of the map (on_response).
LostOnlyInRace == \A c \in Callers : Unserved(c) => Reached(c) \/ cur[c] \in missed

\* Every call returns, also one without a timeout and also when its reply
\* overtakes the caller on its way into get().
EveryCallReturns == \A c \in Callers : pc[c] # "idle" ~> pc[c] = "idle"

\* A call that was given a timeout returns, answered or not.
TimedCallReturns ==
  \A c \in Callers : (pc[c] # "idle" /\ timed[c]) ~> pc[c] = "idle"

\* The client implements the call service: the refinement mapping forgets the
\* map, the locks and the loop, and keeps who is in which call.
Service == INSTANCE CallService WITH
  calling <- [c \in Callers |-> IF pc[c] = "idle" THEN None ELSE cur[c]],
  limited <- timed,
  Effect <- [k \in Kinds |-> Decode(k)]
ImplementsCallService == Service!Spec
==============================================================================
