--------------------------- MODULE ClientRpcProofs ---------------------------
(***************************************************************************)
(* Proofs about ClientRpc, for any sets of callers, request ids and reply  *)
(* kinds and for every platform.  The parts of the inductive invariant     *)
(* come first: each relates the place a call is at to the mutex, to its    *)
(* entry in req_events and to the way its reply has come.                  *)
(***************************************************************************)
EXTENDS ClientRpc, TLAPS

\* req_events_mtx is held exactly in these places, so by one thread at most.
Holding(c) == pc[c] \in {"inserting", "getting", "waiting", "moving", "erasing"}
MutexInv == \A c \in Callers : Holding(c) <=> mtx = c

\* Calls in progress have ids of their own, which have no outcome yet.
IdsInv ==
  \A c \in Callers : pc[c] # "idle" =>
    /\ cur[c] \in Ids
    /\ outcome[cur[c]] = None
    /\ \A d \in Callers : (pc[d] # "idle" /\ cur[d] = cur[c]) => d = c

\* A registered call has an entry, and what else is in the map is explained.
EntryInv ==
  /\ \A c \in Callers : Registered(c) => req_events[cur[c]] # None
  /\ LeaksExplained

\* A request exists once it was sent, a reply once the request was answered.
WireInv ==
  /\ \A c \in Callers :
       pc[c] \in {"register", "inserting", "sending"} => cur[c] \notin sent
  /\ \A id \in sent : Used(id)
  /\ \A id \in Ids : outcome[id] = NotEncoded => id \notin sent
  /\ \A id \in Ids : answer[id] # None => id \in sent
  /\ \A id \in inflight : answer[id] # None
  /\ handling # None => answer[handling] # None /\ handling \notin inflight

\* The one reply to a request is in exactly one place on its way to the call; a wait
\* that ended unnotified is the only way past it.
ResultInv ==
  \A id \in Ids : req_events[id] # None =>
    /\ req_events[id].signalled => req_events[id].done
    /\ req_events[id].done => req_events[id].result # None \/ id \in blank
    /\ req_events[id].result # None =>
         Consumed(id) /\ req_events[id].result = [id |-> id, kind |-> answer[id]]
MovingInv ==
  \A c \in Callers : pc[c] = "moving" =>
    \/ req_events[cur[c]].result # None /\ ~req_events[cur[c]].done
    \/ cur[c] \in blank
ReturnInv ==
  \A c \in Callers : pc[c] = "erasing" =>
    \/ Consumed(cur[c]) /\ ret[c] = [id |-> cur[c], kind |-> answer[cur[c]]]
    \/ cur[c] \in blank
HandlingInv ==
  handling # None => req_events[handling] # None \/ handling \in blank
OutcomeInv ==
  \A id \in Ids \ blank :
    (outcome[id] # None /\ outcome[id] \notin Unreplied) =>
      answer[id] # None /\ outcome[id] = [how |-> Decode(answer[id]), of |-> id]
DeathInv == fault \in {"null_deref", "data_race"} => handling \in blank

\* Where each call, each request and each message is.
BaseInv == TypeOK /\ MutexInv /\ IdsInv /\ EntryInv /\ WireInv

\* How each reply gets to its call.
ReplyInv ==
  ResultInv /\ MovingInv /\ ReturnInv /\ HandlingInv /\ OutcomeInv /\ DeathInv

-----------------------------------------------------------------------------
USE CallersAssumption, IdsAssumption, KindsAssumption, TimingsAssumption,
    PlatformAssumption, NoneAssumption

(* What the operations of AsyncResult and the end of a call produce.       *)

LEMMA FreshIsEntry ==
  /\ Fresh \in AsyncResults
  /\ Fresh # None
  /\ Fresh.result = None
  /\ ~Fresh.done
  /\ ~Fresh.signalled
<1>1. Fresh \in AsyncResults
  BY DEF Fresh, AsyncResults
<1>2. Fresh # None
  BY <1>1
<1>3. ~Fresh.done /\ ~Fresh.signalled /\ Fresh.result = None
  BY DEF Fresh
<1> QED BY <1>1, <1>2, <1>3

LEMMA SetIsEntry ==
  ASSUME NEW r \in Results, NEW w \in BOOLEAN
  PROVE  /\ Set(r, w) \in AsyncResults
         /\ Set(r, w) # None
         /\ Set(r, w).done
         /\ Set(r, w).result = r
         /\ Set(r, w).signalled = w
<1>1. Set(r, w) \in AsyncResults
  BY DEF Set, AsyncResults
<1>2. Set(r, w) # None
  BY <1>1
<1>3. Set(r, w).done /\ Set(r, w).result = r /\ Set(r, w).signalled = w
  BY DEF Set
<1> QED BY <1>1, <1>2, <1>3

LEMMA FinishedIsOutcome ==
  ASSUME NEW r \in Results \cup {None}
  PROVE  /\ Finished(r) \in Outcomes
         /\ Finished(r) # None
         /\ Finished(r) \notin Unreplied
<1>1. CASE r = None
  BY <1>1 DEF Finished, Outcomes, Unreplied, TimedOut, NotEncoded, Posted
<1>2. CASE r # None
  <2>1. r.id \in Ids /\ r.id # None
    BY <1>2 DEF Results
  <2>2. Finished(r) = [how |-> Decode(r.kind), of |-> r.id]
    BY <1>2 DEF Finished
  <2> QED BY <2>1, <2>2 DEF Decode, Outcomes, Unreplied, TimedOut, NotEncoded, Posted
<1> QED BY <1>1, <1>2

LEMMA UnrepliedIsOutcome ==
  ASSUME NEW o \in Unreplied
  PROVE  o \in Outcomes /\ o # None
BY DEF Unreplied, TimedOut, NotEncoded, Posted, Outcomes

LEMMA UnrepliedDiffer ==
  TimedOut # NotEncoded /\ Posted # NotEncoded
BY DEF TimedOut, NotEncoded, Posted

LEMMA BaseInit == Init => BaseInv
BY DEF Init, BaseInv, TypeOK, MutexInv, Holding, IdsInv, EntryInv, Registered,
       LeaksExplained, WireInv, Locations, NotEncoded, Outcomes

\* What get() does to the entry when it returns.
LEMMA HandOverEntry ==
  ASSUME BaseInv, NEW c \in Callers, pc[c] \in {"getting", "waiting"}, HandOver(c)
  PROVE  /\ cur[c] \in Ids
         /\ req_events[cur[c]] \in AsyncResults
         /\ \E e \in AsyncResults :
              /\ req_events' = [req_events EXCEPT ![cur[c]] = e]
              /\ e # None /\ ~e.done /\ ~e.signalled
              /\ e.result = req_events[cur[c]].result
<1>1. cur[c] \in Ids /\ req_events[cur[c]] \in AsyncResults
  BY DEF BaseInv, TypeOK, IdsInv, EntryInv, Registered
<1> DEFINE e == Lowered(req_events[cur[c]])
<1>2. req_events' = [req_events EXCEPT ![cur[c]] = e]
  BY DEF HandOver
<1>3. e \in AsyncResults
  BY <1>1 DEF AsyncResults, Lowered
<1>4. e # None /\ ~e.done /\ ~e.signalled /\ e.result = req_events[cur[c]].result
  BY <1>3 DEF Lowered
<1> HIDE DEF e
<1> QED BY <1>1, <1>2, <1>3, <1>4

LEMMA TakeEntry ==
  ASSUME BaseInv, NEW c \in Callers, Take(c)
  PROVE  /\ cur[c] \in Ids
         /\ req_events[cur[c]].result \in Results \cup {None}
         /\ \E e \in AsyncResults :
              /\ req_events' = [req_events EXCEPT ![cur[c]] = e]
              /\ e # None /\ e.result = None
              /\ e.done = req_events[cur[c]].done
              /\ e.signalled = req_events[cur[c]].signalled
<1>1. cur[c] \in Ids /\ req_events[cur[c]] \in AsyncResults
  BY DEF BaseInv, TypeOK, IdsInv, EntryInv, Registered, Take
<1> DEFINE x == req_events[cur[c]]
           e == [done |-> x.done, result |-> None, signalled |-> x.signalled]
<1>2. [x EXCEPT !.result = None] = e
  BY <1>1 DEF AsyncResults
<1>3. req_events' = [req_events EXCEPT ![cur[c]] = e]
  BY <1>1, <1>2 DEF Take, BaseInv, TypeOK
<1>4. e \in AsyncResults /\ x.result \in Results \cup {None}
  BY <1>1 DEF AsyncResults
<1>5. e # None /\ e.result = None /\ e.done = x.done /\ e.signalled = x.signalled
  BY <1>4
<1> HIDE DEF e
<1> QED BY <1>1, <1>3, <1>4, <1>5

\* What both ends of a wait in get() share.
LEMMA HandOverBase ==
  ASSUME BaseInv, NEW c \in Callers, pc[c] \in {"getting", "waiting"}, HandOver(c),
         blank' \subseteq Ids
  PROVE  BaseInv'
<1> USE DEF BaseInv, TypeOK, MutexInv, Holding, IdsInv, EntryInv, Registered,
            LeaksExplained, WireInv, Used, Locations, callerVars, mapVars,
            serverVars, loopVars, historyVars
<1>0. /\ cur[c] \in Ids
      /\ \E e \in AsyncResults : req_events' = [req_events EXCEPT ![cur[c]] = e] /\ e # None
  BY HandOverEntry
<1>1. TypeOK'
  BY <1>0 DEF HandOver, Goto
<1>2. MutexInv'
  BY <1>0 DEF HandOver, Goto
<1>3. IdsInv'
  BY <1>0 DEF HandOver, Goto
<1>4. EntryInv'
  BY <1>0 DEF HandOver, Goto
<1>5. WireInv'
  BY <1>0 DEF HandOver, Goto
<1> QED BY <1>1, <1>2, <1>3, <1>4, <1>5

\* Every end of a call: an outcome, and the entry erased or left to one that
\* explains it.
LEMMA EndCallBase ==
  ASSUME BaseInv, NEW c \in Callers, NEW o \in Outcomes, o # None, pc[c] # "idle",
         NEW e \in AsyncResults \cup {None}, EndCall(c, o, e),
         o \in Unreplied \/ e = None,
         o = NotEncoded => cur[c] \notin sent
  PROVE  BaseInv'
<1> USE DEF BaseInv, TypeOK, MutexInv, Holding, IdsInv, EntryInv, Registered,
            LeaksExplained, WireInv, Used, Locations, callerVars, mapVars,
            serverVars, loopVars, historyVars
<1>0. cur[c] \in Ids
  OBVIOUS
<1>1. TypeOK'
  BY <1>0 DEF EndCall, Goto
<1>2. MutexInv'
  BY <1>0 DEF EndCall, Goto
<1>3. IdsInv'
  BY <1>0 DEF EndCall, Goto
<1>4. EntryInv'
  BY <1>0 DEF EndCall, Goto, Unreplied, TimedOut, NotEncoded, Posted
<1>5. WireInv'
  BY <1>0 DEF EndCall, Goto
<1> QED BY <1>1, <1>2, <1>3, <1>4, <1>5

\* A call leaves its own entry as it is.
LEMMA LeaveBase ==
  ASSUME BaseInv, NEW c \in Callers, pc[c] \in {"sending", "locking", "waiting"},
         NEW o \in Unreplied, EndCall(c, o, req_events[cur[c]]),
         o = NotEncoded => pc[c] = "sending"
  PROVE  BaseInv'
<1>1. req_events[cur[c]] \in AsyncResults \cup {None}
  BY DEF BaseInv, TypeOK, IdsInv
<1>2. o \in Outcomes /\ o # None
  BY UnrepliedIsOutcome
<1>3. o = NotEncoded => cur[c] \notin sent
  BY DEF BaseInv, WireInv
<1> QED BY <1>1, <1>2, <1>3, EndCallBase

LEMMA BaseStep ==
  ASSUME BaseInv, [Next]_vars
  PROVE  BaseInv'
<1> USE DEF BaseInv, TypeOK, MutexInv, Holding, IdsInv, EntryInv, Registered,
            LeaksExplained, WireInv, Used, Locations, callerVars, mapVars,
            serverVars, loopVars, historyVars
<1>1. ASSUME NEW c \in Callers, Begin(c) PROVE BaseInv'
  BY <1>1 DEF Begin, Goto
<1>2. ASSUME NEW c \in Callers, LockToRegister(c) PROVE BaseInv'
  BY <1>2 DEF LockToRegister, Lock, Goto
<1>3. ASSUME NEW c \in Callers, Register(c) PROVE BaseInv'
  BY <1>3, FreshIsEntry DEF Register, Goto
<1>4. ASSUME NEW c \in Callers, Send(c) PROVE BaseInv'
  <2>1. outcome[cur[c]] # NotEncoded
    BY <1>4, UnrepliedIsOutcome DEF Send, Unreplied
  <2> QED BY <1>4, <2>1 DEF Send, Goto
<1>5. ASSUME NEW c \in Callers, LockToWait(c) PROVE BaseInv'
  BY <1>5 DEF LockToWait, Lock, Goto
<1>6. ASSUME NEW c \in Callers, Get(c) PROVE BaseInv'
  <2>1. CASE HandOver(c)
    BY <1>6, <2>1, HandOverBase DEF Get
  <2>2. CASE ~HandOver(c)
    <3>0. ~HandOver(c) /\ Get(c)
      BY <1>6, <2>2
    <3>1. TypeOK'
      BY <3>0 DEF Get, Goto
    <3>2. MutexInv'
      BY <3>0 DEF Get, Goto
    <3>3. IdsInv'
      BY <3>0 DEF Get, Goto
    <3>4. EntryInv'
      BY <3>0 DEF Get, Goto
    <3>5. WireInv'
      BY <3>0 DEF Get, Goto
    <3> QED BY <3>1, <3>2, <3>3, <3>4, <3>5
  <2> QED BY <2>1, <2>2
<1>7. ASSUME NEW c \in Callers, Wake(c) PROVE BaseInv'
  BY <1>7, HandOverBase DEF Wake
<1>8. ASSUME NEW c \in Callers, WakeTimedOut(c) PROVE BaseInv'
  BY <1>8, LeaveBase, UnrepliedDiffer DEF WakeTimedOut, Unreplied
<1>9. ASSUME NEW c \in Callers, Erase(c) PROVE BaseInv'
  <2>1. Finished(ret[c]) # NotEncoded
    BY FinishedIsOutcome DEF Unreplied
  <2> QED BY <1>9, <2>1, FinishedIsOutcome, EndCallBase DEF Erase
<1>10. ASSUME NEW id \in Ids, OnResponseFind(id) PROVE BaseInv'
  BY <1>10 DEF OnResponseFind
<1>11. CASE OnResponseSet
  <2> DEFINE e == Set([id |-> handling, kind |-> answer[handling]], Waited(handling))
  <2>entry. /\ handling \in Ids
            /\ e \in AsyncResults
            /\ e # None
    <3>1. handling \in Ids /\ [id |-> handling, kind |-> answer[handling]] \in Results
      BY <1>11 DEF OnResponseSet, Results
    <3>2. Waited(handling) \in BOOLEAN
      BY DEF Waited
    <3> QED BY <3>1, <3>2, SetIsEntry
  <2>step. /\ handling' = None
           /\ req_events[handling] # None
           /\ req_events' = [req_events EXCEPT ![handling] = e]
           /\ UNCHANGED <<callerVars, mtx, serverVars, inflight, fault, historyVars>>
    BY <1>11 DEF OnResponseSet, ReqId
  <2> HIDE DEF e
  <2>1. TypeOK'
    BY <2>entry, <2>step
  <2>2. MutexInv'
    BY <2>entry, <2>step
  <2>3. IdsInv'
    BY <2>entry, <2>step
  <2>4. EntryInv'
    BY <2>entry, <2>step
  <2>5. WireInv'
    BY <2>entry, <2>step
  <2> QED BY <2>1, <2>2, <2>3, <2>4, <2>5
<1>12. ASSUME NEW id \in Ids, NEW k \in Kinds, Answer(id, k) PROVE BaseInv'
  BY <1>12 DEF Answer
<1>13. CASE UNCHANGED vars
  BY <1>13 DEF vars
<1>14. CASE OnResponseDies
  BY <1>14 DEF OnResponseDies
<1>15. ASSUME NEW c \in Callers, SendBytes(c) PROVE BaseInv'
  BY <1>15, LeaveBase DEF SendBytes, Unreplied
<1>16. ASSUME NEW c \in Callers, Leave(c) PROVE BaseInv'
  BY <1>16, LeaveBase, UnrepliedDiffer DEF Leave, Unreplied
<1>17. ASSUME NEW c \in Callers, Take(c) PROVE BaseInv'
  <2>0. /\ cur[c] \in Ids /\ req_events[cur[c]].result \in Results \cup {None}
        /\ \E e \in AsyncResults : req_events' = [req_events EXCEPT ![cur[c]] = e] /\ e # None
    BY <1>17, TakeEntry
  <2>1. TypeOK'
    BY <1>17, <2>0 DEF Take, Taken, Goto
  <2>2. MutexInv'
    BY <1>17, <2>0 DEF Take, Goto
  <2>3. IdsInv'
    BY <1>17, <2>0 DEF Take, Goto
  <2>4. EntryInv'
    BY <1>17, <2>0 DEF Take, Goto
  <2>5. WireInv'
    BY <1>17, <2>0 DEF Take, Goto
  <2> QED BY <2>1, <2>2, <2>3, <2>4, <2>5
<1> QED
  BY <1>1, <1>2, <1>3, <1>4, <1>5, <1>6, <1>7, <1>8, <1>9, <1>10, <1>11,
     <1>12, <1>13, <1>14, <1>15, <1>16, <1>17
     DEF Next, CallerStep, CallStep, LoopStep, ServerStep, Stopped

LEMMA ReplyInit == Init => ReplyInv
BY DEF Init, ReplyInv, ResultInv, MovingInv, ReturnInv, HandlingInv, OutcomeInv, DeathInv

\* A wait in get() ends with a result only after that result was set, or unnotified.
LEMMA HandOverReply ==
  ASSUME BaseInv, ReplyInv, NEW c \in Callers,
         pc[c] \in {"getting", "waiting"}, HandOver(c),
         \/ req_events[cur[c]].done /\ UNCHANGED blank
         \/ blank' = blank \cup {cur[c]}
  PROVE  ReplyInv'
<1> USE DEF BaseInv, TypeOK, IdsInv, EntryInv, Registered, WireInv, ReplyInv,
            ResultInv, MovingInv, ReturnInv, HandlingInv, OutcomeInv, DeathInv,
            Consumed, callerVars, mapVars, serverVars, loopVars
<1>0. /\ cur[c] \in Ids
      /\ \E e \in AsyncResults :
           /\ req_events' = [req_events EXCEPT ![cur[c]] = e]
           /\ e # None /\ ~e.done /\ ~e.signalled
           /\ e.result = req_events[cur[c]].result
  BY HandOverEntry
<1>1. ResultInv'
  BY <1>0 DEF HandOver, Goto
<1>2. MovingInv'
  <2>1. req_events[cur[c]] # None
    OBVIOUS
  <2>2. req_events'[cur[c]].result = req_events[cur[c]].result /\ ~req_events'[cur[c]].done
    BY <1>0
  <2>3. pc' = [pc EXCEPT ![c] = "moving"] /\ UNCHANGED cur
    BY DEF HandOver, Goto
  <2>4. req_events[cur[c]].result # None \/ cur[c] \in blank'
    BY <2>1, <1>0
  <2>5. ASSUME NEW d \in Callers, d # c, pc[d] = "moving"
        PROVE  req_events'[cur[d]] = req_events[cur[d]] /\ blank \subseteq blank'
    <3>1. cur[d] # cur[c] /\ cur[d] \in Ids
      BY <2>5
    <3> QED BY <1>0, <3>1
  <2> QED BY <2>2, <2>3, <2>4, <2>5
<1>3. ReturnInv'
  BY <1>0 DEF HandOver, Goto
<1>4. HandlingInv'
  BY <1>0 DEF HandOver, Goto
<1>5. OutcomeInv' /\ DeathInv'
  BY <1>0 DEF HandOver, Goto
<1> QED BY <1>1, <1>2, <1>3, <1>4, <1>5

\* A call that ends with o, its own reply's outcome or one that no reply decides, and
\* its entry kept or erased.
LEMMA EndCallReply ==
  ASSUME BaseInv, ReplyInv, NEW c \in Callers, NEW o, NEW e, EndCall(c, o, e),
         pc[c] # "idle",
         \/ e = req_events[cur[c]]
         \/ e = None /\ (handling = cur[c] => cur[c] \in blank),
         \/ o \in Unreplied
         \/ cur[c] \in blank
         \/ answer[cur[c]] # None /\ o = [how |-> Decode(answer[cur[c]]), of |-> cur[c]]
  PROVE  ReplyInv'
<1> USE DEF BaseInv, TypeOK, IdsInv, WireInv, ReplyInv, Consumed, callerVars, mapVars,
            serverVars, loopVars, historyVars
<1>0. /\ cur[c] \in Ids
      /\ outcome' = [outcome EXCEPT ![cur[c]] = o]
      /\ req_events' = [req_events EXCEPT ![cur[c]] = e]
      /\ pc' = [pc EXCEPT ![c] = "idle"]
      /\ UNCHANGED <<cur, ret, answer, inflight, handling, fault, blank>>
      /\ \A d \in Callers : (d # c /\ pc[d] # "idle") => cur[d] # cur[c]
  BY DEF EndCall, Goto
<1>1. ResultInv'
  BY <1>0 DEF ResultInv
<1>2. MovingInv'
  BY <1>0 DEF MovingInv
<1>3. ReturnInv'
  BY <1>0 DEF ReturnInv
<1>4. HandlingInv'
  BY <1>0 DEF HandlingInv
<1>5. OutcomeInv'
  BY <1>0 DEF OutcomeInv
<1>6. DeathInv'
  BY <1>0 DEF DeathInv
<1> QED BY <1>1, <1>2, <1>3, <1>4, <1>5, <1>6

LEMMA ReplyStep ==
  ASSUME BaseInv, ReplyInv, [Next]_vars
  PROVE  ReplyInv'
<1> USE DEF BaseInv, TypeOK, IdsInv, EntryInv, Registered, WireInv, ReplyInv,
            ResultInv, MovingInv, ReturnInv, HandlingInv, OutcomeInv, DeathInv,
            Consumed, callerVars, mapVars, serverVars, loopVars, historyVars
<1>1. ASSUME NEW c \in Callers, Begin(c) PROVE ReplyInv'
  BY <1>1 DEF Begin, Goto
<1>2. ASSUME NEW c \in Callers, LockToRegister(c) PROVE ReplyInv'
  BY <1>2 DEF LockToRegister, Lock, Goto
<1>3. ASSUME NEW c \in Callers, Register(c) PROVE ReplyInv'
  <2>1. ResultInv'
    BY <1>3, FreshIsEntry DEF Register, Goto
  <2>2. MovingInv'
    BY <1>3 DEF Register, Goto
  <2>3. ReturnInv' /\ HandlingInv' /\ OutcomeInv' /\ DeathInv'
    BY <1>3, FreshIsEntry DEF Register, Goto
  <2> QED BY <2>1, <2>2, <2>3
<1>4. ASSUME NEW c \in Callers, Send(c) PROVE ReplyInv'
  BY <1>4 DEF Send, Goto
<1>5. ASSUME NEW c \in Callers, LockToWait(c) PROVE ReplyInv'
  BY <1>5 DEF LockToWait, Lock, Goto
<1>6. ASSUME NEW c \in Callers, Get(c) PROVE ReplyInv'
  <2>1. CASE Ready(c) /\ HandOver(c)
    <3>1. pc[c] = "getting" /\ UNCHANGED blank /\ req_events[cur[c]].done
      BY <1>6, <2>1 DEF Get, Ready
    <3> QED BY <2>1, <3>1, HandOverReply
  <2>2. CASE /\ pc' = [pc EXCEPT ![c] = "waiting"]
             /\ UNCHANGED <<cur, ret, outcome, req_events, answer, inflight, handling,
                            fault, blank>>
    <3>1. ResultInv'
      BY <2>2
    <3>2. MovingInv' /\ ReturnInv'
      BY <2>2
    <3>3. HandlingInv' /\ OutcomeInv' /\ DeathInv'
      BY <2>2
    <3> QED BY <3>1, <3>2, <3>3
  <2>3. \/ Ready(c) /\ HandOver(c)
        \/ /\ pc' = [pc EXCEPT ![c] = "waiting"]
           /\ UNCHANGED <<cur, ret, outcome, req_events, answer, inflight, handling,
                          fault, blank>>
    <3> HIDE DEF BaseInv, ReplyInv
    <3> QED BY <1>6 DEF Get, Goto
  <2> QED BY <2>1, <2>2, <2>3
<1>7. ASSUME NEW c \in Callers, Wake(c) PROVE ReplyInv'
  <2>1. cur[c] \in Ids /\ req_events[cur[c]] # None
    BY <1>7 DEF Wake
  <2>2. req_events[cur[c]].signalled => req_events[cur[c]].done
    BY <2>1
  <2> QED BY <1>7, <2>2, HandOverReply DEF Wake
<1>8. ASSUME NEW c \in Callers, WakeTimedOut(c) PROVE ReplyInv'
  BY <1>8, EndCallReply DEF WakeTimedOut, Unreplied
<1>9. ASSUME NEW c \in Callers, Erase(c) PROVE ReplyInv'
  <2>1. \/ Consumed(cur[c]) /\ ret[c] = [id |-> cur[c], kind |-> answer[cur[c]]]
        \/ cur[c] \in blank
    <3>1. ReturnInv /\ pc[c] = "erasing"
      BY <1>9 DEF Erase
    <3> HIDE DEF BaseInv, ReplyInv
    <3> QED BY <3>1
  <2>2. cur[c] \in Ids
    BY <1>9 DEF Erase
  <2>3. ASSUME Consumed(cur[c]), ret[c] = [id |-> cur[c], kind |-> answer[cur[c]]]
        PROVE  Finished(ret[c]) = [how |-> Decode(answer[cur[c]]), of |-> cur[c]]
    <3>1. ret[c] # None
      BY <2>2, <2>3 DEF Results
    <3> QED BY <2>3, <3>1 DEF Finished
  <2> QED BY <1>9, <2>1, <2>3, EndCallReply DEF Erase
<1>10. ASSUME NEW id \in Ids, OnResponseFind(id), Alive PROVE ReplyInv'
  BY <1>10 DEF OnResponseFind, Alive
<1>11. CASE OnResponseSet /\ Alive
  <2> DEFINE r == [id |-> handling, kind |-> answer[handling]]
             e == Set(r, Waited(handling))
  <2>1. /\ handling \in Ids
        /\ r \in Results
        /\ answer[handling] # None
        /\ handling \notin inflight
        /\ fault = "none"
    BY <1>11 DEF OnResponseSet, Results, Alive
  <2>2. Waited(handling) \in BOOLEAN
    BY DEF Waited
  <2>3. e.done /\ e.result = r /\ r # None /\ e # None
    BY <2>1, <2>2, SetIsEntry
  <2>4. /\ req_events' = [req_events EXCEPT ![handling] = e]
        /\ handling' = None
        /\ UNCHANGED <<inflight, answer, pc, cur, ret, outcome, fault, blank>>
    BY <1>11 DEF OnResponseSet, ReqId
  <2> HIDE DEF e
  <2>5. ResultInv'
    BY <2>1, <2>3, <2>4
  <2>6. MovingInv'
    BY <2>1, <2>3, <2>4
  <2>7. ReturnInv' /\ HandlingInv' /\ OutcomeInv' /\ DeathInv'
    BY <2>1, <2>4
  <2> QED BY <2>5, <2>6, <2>7
<1>12. ASSUME NEW id \in Ids, NEW k \in Kinds, Answer(id, k) PROVE ReplyInv'
  <2>0. /\ answer[id] = None
        /\ answer' = [answer EXCEPT ![id] = k]
        /\ inflight' = inflight \cup {id}
        /\ UNCHANGED <<req_events, handling, pc, cur, ret, outcome, fault, blank>>
    BY <1>12 DEF Answer
  <2>1. ResultInv'
    <3>1. answer \in [Ids -> Kinds \cup {None}] /\ ResultInv
      OBVIOUS
    <3> HIDE DEF BaseInv, TypeOK, IdsInv, EntryInv, WireInv, ReplyInv, ReturnInv,
                 HandlingInv, OutcomeInv, MovingInv, DeathInv
    <3> QED BY <2>0, <3>1
  <2>2. ReturnInv'
    BY <2>0
  <2>3. MovingInv' /\ HandlingInv' /\ OutcomeInv' /\ DeathInv'
    BY <2>0
  <2> QED BY <2>1, <2>2, <2>3
<1>13. CASE UNCHANGED vars
  BY <1>13 DEF vars
<1>14. CASE OnResponseDies
  <2>0. UNCHANGED <<req_events, answer, inflight, handling, pc, cur, ret, outcome, blank>>
    BY <1>14 DEF OnResponseDies
  <2>1. \/ fault' \in {"map_race", "decode"}
        \/ handling # None /\ (req_events[handling] = None \/ Moving(handling))
    <3> HIDE DEF BaseInv, ReplyInv
    <3> QED BY <1>14 DEF OnResponseDies, ReqId
  <2>2. ASSUME handling # None, Moving(handling) PROVE handling \in blank
    <3>1. PICK c \in Callers : pc[c] = "moving" /\ cur[c] = handling
      BY <2>2 DEF Moving
    <3>2. req_events[handling] # None /\ handling \in Ids
      BY <2>2, <3>1
    <3>3. req_events[handling].result = None
      BY <3>2
    <3> QED BY <3>1, <3>3
  <2>3. DeathInv'
    BY <2>0, <2>1, <2>2
  <2> QED BY <2>0, <2>3
<1>15. ASSUME NEW c \in Callers, SendBytes(c) PROVE ReplyInv'
  BY <1>15, EndCallReply DEF SendBytes, Unreplied
<1>16. ASSUME NEW c \in Callers, Leave(c) PROVE ReplyInv'
  BY <1>16, EndCallReply DEF Leave, Unreplied
<1>17. ASSUME NEW c \in Callers, Take(c) PROVE ReplyInv'
  <2>0. /\ cur[c] \in Ids /\ req_events[cur[c]] # None
        /\ pc' = [pc EXCEPT ![c] = "erasing"]
        /\ ret' = [ret EXCEPT ![c] = req_events[cur[c]].result]
        /\ UNCHANGED <<cur, outcome, answer, inflight, handling, fault, blank>>
        /\ \A d \in Callers : (d # c /\ pc[d] # "idle") => cur[d] # cur[c]
    BY <1>17 DEF Take, Taken, Goto
  <2>e. PICK e \in AsyncResults :
          /\ req_events' = [req_events EXCEPT ![cur[c]] = e]
          /\ e # None /\ e.result = None
          /\ e.done = req_events[cur[c]].done
          /\ e.signalled = req_events[cur[c]].signalled
    BY <1>17, TakeEntry
  <2>1. ResultInv'
    <3>1. /\ e.signalled => e.done
          /\ e.done => cur[c] \in blank
      BY <1>17, <2>0, <2>e DEF Take
    <3> HIDE DEF BaseInv, ReplyInv, MovingInv, ReturnInv, HandlingInv, OutcomeInv, DeathInv,
                 IdsInv, EntryInv, WireInv
    <3>2. ResultInv /\ req_events \in [Ids -> AsyncResults \cup {None}]
      BY DEF BaseInv, ReplyInv
    <3> QED BY <2>0, <2>e, <3>1, <3>2
  <2>2. MovingInv'
    BY <2>0, <2>e
  <2>3. ReturnInv'
    BY <1>17, <2>0, <2>e DEF Take
  <2>4. HandlingInv'
    BY <2>0, <2>e
  <2>5. OutcomeInv' /\ DeathInv'
    BY <2>0
  <2> QED BY <2>1, <2>2, <2>3, <2>4, <2>5
<1> QED
  BY <1>1, <1>2, <1>3, <1>4, <1>5, <1>6, <1>7, <1>8, <1>9, <1>10, <1>11,
     <1>12, <1>13, <1>14, <1>15, <1>16, <1>17
     DEF Next, CallerStep, CallStep, LoopStep, ServerStep, Stopped

\* Unnotified wake-ups leave their mark in blank.
LEMMA BlankStep ==
  ASSUME ~SpuriousWakeups, BaseInv, blank = {}, [Next]_vars
  PROVE  blank' = {}
BY DEF Next, CallerStep, CallStep, LoopStep, ServerStep, Stopped, Begin, LockToRegister,
   Lock, Register, Send, SendBytes, Leave, LockToWait, Get, Wake, WakeTimedOut, Take, Erase,
   EndCall, OnResponseFind, OnResponseSet, OnResponseDies, Answer, historyVars, vars

-----------------------------------------------------------------------------
(* Lost replies.                                                           *)

LEMMA LostStep ==
  ASSUME BaseInv, LostOnlyInRace, [Next]_vars
  PROVE  LostOnlyInRace'
<1> USE DEF BaseInv, TypeOK, IdsInv, EntryInv, Registered, WireInv, LostOnlyInRace,
            Unserved, Reached, Consumed, callerVars, mapVars, serverVars, loopVars,
            historyVars
<1>1. ASSUME NEW c \in Callers, Begin(c) PROVE LostOnlyInRace'
  BY <1>1 DEF Begin, Goto
<1>2. ASSUME NEW c \in Callers, LockToRegister(c) PROVE LostOnlyInRace'
  BY <1>2 DEF LockToRegister, Lock, Goto
<1>3. ASSUME NEW c \in Callers, Register(c) PROVE LostOnlyInRace'
  BY <1>3, FreshIsEntry DEF Register, Goto
<1>4. ASSUME NEW c \in Callers, Send(c) PROVE LostOnlyInRace'
  BY <1>4 DEF Send, Goto
<1>5. ASSUME NEW c \in Callers, LockToWait(c) PROVE LostOnlyInRace'
  BY <1>5 DEF LockToWait, Lock, Goto
<1>h. ASSUME NEW c \in Callers, pc[c] \in {"getting", "waiting"}, HandOver(c)
      PROVE  LostOnlyInRace'
  <2>1. /\ cur[c] \in Ids
        /\ \E e : req_events' = [req_events EXCEPT ![cur[c]] = e]
    BY <1>h, HandOverEntry
  <2>2. /\ pc' = [pc EXCEPT ![c] = "moving"]
        /\ UNCHANGED <<cur, answer, inflight, handling, missed>>
    BY <1>h DEF HandOver, Goto
  <2> QED BY <1>h, <2>1, <2>2
<1>6. ASSUME NEW c \in Callers, Get(c) PROVE LostOnlyInRace'
  <2>1. CASE HandOver(c)
    BY <1>6, <1>h, <2>1 DEF Get
  <2>2. CASE /\ ~Ready(c) /\ pc' = [pc EXCEPT ![c] = "waiting"]
             /\ UNCHANGED <<cur, req_events, answer, inflight, handling, missed>>
    BY <1>6, <2>2 DEF Get, Ready
  <2> QED BY <1>6, <2>1, <2>2 DEF Get, Goto
<1>7. ASSUME NEW c \in Callers, Wake(c) PROVE LostOnlyInRace'
  BY <1>7, <1>h DEF Wake
<1>e. ASSUME NEW c \in Callers, NEW o, NEW e, EndCall(c, o, e), pc[c] # "idle"
      PROVE  LostOnlyInRace'
  BY <1>e DEF EndCall, Goto
<1>8. ASSUME NEW c \in Callers, WakeTimedOut(c) PROVE LostOnlyInRace'
  BY <1>8, <1>e DEF WakeTimedOut
<1>9. ASSUME NEW c \in Callers, Erase(c) PROVE LostOnlyInRace'
  BY <1>9, <1>e DEF Erase
<1>10. ASSUME NEW id \in Ids, OnResponseFind(id) PROVE LostOnlyInRace'
  BY <1>10 DEF OnResponseFind
<1>11. CASE OnResponseSet
  <2> DEFINE r == [id |-> handling, kind |-> answer[handling]]
             e == Set(r, Waited(handling))
  <2>1. handling \in Ids /\ r \in Results
    BY <1>11 DEF OnResponseSet, Results
  <2>2. Waited(handling) \in BOOLEAN
    BY DEF Waited
  <2>3. e # None /\ e.done /\ e.signalled = Waited(handling)
    BY <2>1, <2>2, SetIsEntry
  <2>4. /\ req_events' = [req_events EXCEPT ![handling] = e]
        /\ UNCHANGED <<pc, cur, answer, inflight, missed>>
    BY <1>11 DEF OnResponseSet, ReqId
  <2> HIDE DEF e
  <2> SUFFICES ASSUME NEW c \in Callers, Unserved(c)'
               PROVE  Reached(c)' \/ cur[c] \in missed
    BY <2>4
  <2>5. cur[c] \in Ids /\ req_events[cur[c]] # None
    BY <2>4
  <2>6. CASE cur[c] = handling
    <3>1. req_events'[cur[c]] = e /\ cur'[c] = cur[c]
      BY <2>1, <2>4, <2>5, <2>6
    <3>2. pc[c] = "waiting" => e.signalled
      BY <2>3, <2>6 DEF Waited
    <3> QED BY <2>3, <2>4, <3>1, <3>2
  <2>7. CASE cur[c] # handling
    <3>1. req_events'[cur[c]] = req_events[cur[c]] /\ cur'[c] = cur[c]
      BY <2>4, <2>5, <2>7
    <3>2. Unserved(c)
      BY <2>4, <2>7
    <3> QED BY <2>4, <3>1, <3>2
  <2> QED BY <2>6, <2>7
<1>12. ASSUME NEW id \in Ids, NEW k \in Kinds, Answer(id, k) PROVE LostOnlyInRace'
  BY <1>12 DEF Answer
<1>13. CASE UNCHANGED vars
  BY <1>13 DEF vars
<1>14. CASE OnResponseDies
  BY <1>14 DEF OnResponseDies
<1>15. ASSUME NEW c \in Callers, SendBytes(c) PROVE LostOnlyInRace'
  BY <1>15, <1>e DEF SendBytes
<1>16. ASSUME NEW c \in Callers, Leave(c) PROVE LostOnlyInRace'
  BY <1>16, <1>e DEF Leave
<1>17. ASSUME NEW c \in Callers, Take(c) PROVE LostOnlyInRace'
  <2>1. cur[c] \in Ids /\ \E e : req_events' = [req_events EXCEPT ![cur[c]] = e]
    BY <1>17, TakeEntry
  <2>2. /\ pc[c] = "moving" /\ pc' = [pc EXCEPT ![c] = "erasing"]
        /\ UNCHANGED <<cur, answer, inflight, handling, missed>>
    BY <1>17 DEF Take, Goto
  <2> QED BY <2>1, <2>2
<1> QED
  BY <1>1, <1>2, <1>3, <1>4, <1>5, <1>6, <1>7, <1>8, <1>9, <1>10, <1>11,
     <1>12, <1>13, <1>14, <1>15, <1>16, <1>17
     DEF Next, CallerStep, CallStep, LoopStep, ServerStep, Stopped

\* In a client with one caller, a request whose entry was not seen is one that nobody
\* waits for any more: the call in progress is busy with the map.
MissedInv ==
  \A id \in missed :
    outcome[id] # None \/ \E c \in Callers : pc[c] = "erasing" /\ cur[c] = id

LEMMA MissedStep ==
  ASSUME \A c, d \in Callers : c = d, BaseInv, MissedInv, [Next]_vars
  PROVE  MissedInv'
<1> USE DEF BaseInv, TypeOK, IdsInv, WireInv, MissedInv, Used, callerVars, mapVars,
            serverVars, loopVars, historyVars
<1>1. ASSUME NEW c \in Callers, pc[c] # "erasing", UNCHANGED <<outcome, missed>>,
             \A d \in Callers : d # c => pc'[d] = pc[d] /\ cur'[d] = cur[d]
      PROVE  MissedInv'
  BY <1>1
<1>2. ASSUME NEW c \in Callers, NEW o \in Outcomes, o # None, NEW e, EndCall(c, o, e),
             pc[c] # "idle"
      PROVE  MissedInv'
  BY <1>2 DEF EndCall, Goto
<1>3. ASSUME NEW c \in Callers, CallStep(c) PROVE MissedInv'
  <2>1. CASE LockToRegister(c) \/ Register(c) \/ Send(c) \/ LockToWait(c) \/ Get(c)
             \/ Wake(c) \/ Take(c)
    BY <1>1, <2>1 DEF LockToRegister, Lock, Register, Send, LockToWait, Get, Wake, Take,
       HandOver, Goto
  <2>2. CASE SendBytes(c) \/ Leave(c) \/ WakeTimedOut(c)
    BY <1>2, <2>2, UnrepliedIsOutcome DEF SendBytes, Leave, WakeTimedOut, Unreplied
  <2>3. CASE Erase(c)
    BY <1>2, <2>3, FinishedIsOutcome DEF Erase
  <2> QED BY <1>3, <2>1, <2>2, <2>3 DEF CallStep
<1>4. ASSUME NEW c \in Callers, Begin(c) PROVE MissedInv'
  BY <1>1, <1>4 DEF Begin, Goto
<1>5. ASSUME NEW id \in Ids, OnResponseFind(id) PROVE MissedInv'
  <2>1. UNCHANGED <<pc, cur, outcome>>
    BY <1>5 DEF OnResponseFind
  <2>2. CASE UNCHANGED missed
    BY <2>1, <2>2
  <2>3. CASE missed' = missed \cup {id} /\ Racing
    <3>1. PICK c \in Callers : pc[c] \in {"inserting", "erasing"}
      BY <2>3 DEF Racing, Mutating
    <3>2. id \in sent /\ Used(id)
      BY <1>5 DEF OnResponseFind
    <3>3. outcome[id] # None \/ cur[c] = id
      BY <3>2
    <3>4. cur[c] = id => pc[c] = "erasing"
      BY <3>1, <3>2
    <3> QED BY <2>1, <2>3, <3>1, <3>3, <3>4
  <2> QED BY <1>5, <2>2, <2>3 DEF OnResponseFind
<1>6. CASE OnResponseSet \/ OnResponseDies \/ ServerStep \/ Stopped \/ UNCHANGED vars
  BY <1>6 DEF OnResponseSet, OnResponseDies, ServerStep, Answer, Stopped, vars
<1> QED
  BY <1>3, <1>4, <1>5, <1>6 DEF Next, CallerStep, LoopStep

-----------------------------------------------------------------------------
(* The theorems.                                                           *)

\* On every platform the mutex, the request ids, the entries, the messages and the
\* results stay in the relation the theorems build on.
LEMMA BaseInvariant == Spec => [](BaseInv /\ ReplyInv)
<1>1. Init => BaseInv /\ ReplyInv
  BY BaseInit, ReplyInit
<1>2. BaseInv /\ ReplyInv /\ [Next]_vars => (BaseInv /\ ReplyInv)'
  BY BaseStep, ReplyStep
<1> QED BY <1>1, <1>2, PTL DEF Spec

\* Every variable keeps its type, whatever the platform does.
THEOREM TypeCorrect == Spec => []TypeOK
<1>1. BaseInv => TypeOK
  BY DEF BaseInv
<1> QED BY <1>1, BaseInvariant, PTL

\* Calls that timed out, calls whose arguments could not be encoded (the entry is made
\* before rpc_encode_req) and requests nobody waits for are what grows req_events, on
\* every platform: also when on_response races with the map or dies of it.
THEOREM Leaks == Spec => []LeaksExplained
<1>1. BaseInv => LeaksExplained
  BY DEF BaseInv, EntryInv
<1> QED BY <1>1, BaseInvariant, PTL

\* On every platform blank results, the null pointer of on_response and the race
\* between set() and the caller's move come from unnotified wake-ups alone.
THEOREM BlanksExplained == Spec => []BlankExplained
<1>1. BaseInv /\ ReplyInv => BlankExplained
  BY DEF BaseInv, ReplyInv, BlankExplained, OutcomeInv, DeathInv
<1> QED BY <1>1, BaseInvariant, PTL

LEMMA BlankInvariant ==
  ASSUME ~SpuriousWakeups
  PROVE  Spec => [](BaseInv /\ ReplyInv /\ blank = {})
<1>1. Init => blank = {}
  BY DEF Init
<1>2. BaseInv /\ blank = {} /\ [Next]_vars => (blank = {})'
  BY BlankStep
<1> QED BY <1>1, <1>2, BaseInvariant, PTL DEF Spec

\* Without unnotified wake-ups a call returns what the reply to its own request
\* says, also while on_response races with the map.
THEOREM RepliesMatch ==
  ASSUME ~SpuriousWakeups
  PROVE  Spec => []OwnReply
<1>1. ReplyInv /\ blank = {} => OwnReply
  BY DEF ReplyInv, OutcomeInv, OwnReply
<1> QED BY <1>1, BlankInvariant, PTL

\* Without unnotified wake-ups on_response's second access to req_events finds
\* the entry its first access found.
THEOREM NoEntryVanishes ==
  ASSUME ~SpuriousWakeups
  PROVE  Spec => []NoNullDeref
<1>1. ReplyInv /\ blank = {} => NoNullDeref
  BY DEF ReplyInv, DeathInv, NoNullDeref
<1> QED BY <1>1, BlankInvariant, PTL

\* On every platform a reply reaches its call, unless find() in on_response, which takes
\* no lock, did not see the entry because another call was changing the map.
THEOREM LostRepliesExplained == Spec => []LostOnlyInRace
<1>1. Init => LostOnlyInRace
  BY DEF Init, LostOnlyInRace, Unserved
<1>2. BaseInv /\ LostOnlyInRace /\ [Next]_vars => LostOnlyInRace'
  BY LostStep
<1> QED BY <1>1, <1>2, BaseInvariant, PTL DEF Spec

\* A client used by one thread at a time loses no reply, on every platform: the missing
\* lock of on_response harms only threads that share a client.
THEOREM NothingLostAlone ==
  ASSUME \A c, d \in Callers : c = d
  PROVE  Spec => []ReplyNotLost
<1>1. Init => MissedInv
  BY DEF Init, MissedInv
<1>2. BaseInv /\ MissedInv /\ [Next]_vars => MissedInv'
  BY MissedStep
<1>3. BaseInv /\ MissedInv /\ LostOnlyInRace => ReplyNotLost
  BY DEF BaseInv, IdsInv, MissedInv, LostOnlyInRace, ReplyNotLost, Unserved
<1> QED BY <1>1, <1>2, <1>3, BaseInvariant, LostRepliesExplained, PTL DEF Spec

-----------------------------------------------------------------------------
(* The client implements the call service.                                 *)

LEMMA ServiceInit == Init => Service!Init
BY DEF Init, Service!Init

LEMMA ServiceStep ==
  ASSUME BaseInv, ReplyInv, blank = {}, [Next]_vars
  PROVE  [Service!Next]_(Service!vars)
<1>1. ASSUME NEW c \in Callers, Begin(c) PROVE [Service!Next]_(Service!vars)
  <2>1. PICK id \in Ids, t \in Timings :
          /\ ~Used(id)
          /\ cur' = [cur EXCEPT ![c] = id]
          /\ timed' = [timed EXCEPT ![c] = t]
    BY <1>1 DEF Begin
  <2>2. Service!Call(c, id, t)
    BY <1>1, <2>1 DEF Begin, Goto, Service!Call, Used, BaseInv, TypeOK, serverVars
  <2> QED BY <2>1, <2>2 DEF Service!Next
<1>2. ASSUME NEW c \in Callers, LockToRegister(c) PROVE [Service!Next]_(Service!vars)
  BY <1>2 DEF LockToRegister, Lock, Goto, Service!vars, BaseInv, TypeOK,
     serverVars, mapVars, loopVars
<1>3. ASSUME NEW c \in Callers, Register(c) PROVE [Service!Next]_(Service!vars)
  BY <1>3 DEF Register, Goto, Service!vars, BaseInv, TypeOK, serverVars,
     mapVars, loopVars
<1>4. ASSUME NEW c \in Callers, Send(c) PROVE [Service!Next]_(Service!vars)
  BY <1>4 DEF Send, Goto, Service!vars, BaseInv, TypeOK, serverVars, mapVars,
     loopVars
<1>5. ASSUME NEW c \in Callers, LockToWait(c) PROVE [Service!Next]_(Service!vars)
  BY <1>5 DEF LockToWait, Lock, Goto, Service!vars, BaseInv, TypeOK,
     serverVars, mapVars, loopVars
<1>6. ASSUME NEW c \in Callers, Get(c) PROVE [Service!Next]_(Service!vars)
  BY <1>6 DEF Get, Ready, Goto, HandOver, Service!vars, BaseInv, TypeOK, serverVars,
     mapVars, loopVars
<1>7. ASSUME NEW c \in Callers, Wake(c) PROVE [Service!Next]_(Service!vars)
  BY <1>7 DEF Wake, HandOver, Goto, Service!vars, BaseInv, TypeOK, serverVars,
     mapVars, loopVars
<1>8. ASSUME NEW c \in Callers, WakeTimedOut(c) PROVE [Service!Next]_(Service!vars)
  <2>1. cur[c] \in Ids
    BY <1>8 DEF WakeTimedOut, BaseInv, IdsInv
  <2>2. Service!Expire(c)
    BY <1>8, <2>1 DEF WakeTimedOut, EndCall, Goto, Service!Expire, Service!Finish,
       Service!TimedOut, TimedOut, BaseInv, TypeOK, serverVars
  <2> QED BY <2>2 DEF Service!Next
<1>9. ASSUME NEW c \in Callers, Erase(c) PROVE [Service!Next]_(Service!vars)
  <2>1. /\ cur[c] \in Ids
        /\ answer[cur[c]] \in Kinds
        /\ ret[c] = [id |-> cur[c], kind |-> answer[cur[c]]]
    BY <1>9 DEF Erase, EndCall, ReplyInv, ReturnInv, Consumed, BaseInv, TypeOK, IdsInv
  <2>2. ret[c] # None
    BY <2>1 DEF Results
  <2>3. Finished(ret[c]) = [how |-> Decode(answer[cur[c]]), of |-> cur[c]]
    BY <2>1, <2>2 DEF Finished
  <2>4. Service!Return(c)
    BY <1>9, <2>1, <2>3 DEF Erase, EndCall, Goto, Service!Return, Service!Finish,
       Service!Replied, BaseInv, TypeOK, serverVars
  <2> QED BY <2>4 DEF Service!Next
<1>10. ASSUME NEW id \in Ids, OnResponseFind(id) PROVE [Service!Next]_(Service!vars)
  BY <1>10 DEF OnResponseFind, Service!vars, callerVars, serverVars
<1>11. CASE OnResponseSet
  BY <1>11 DEF OnResponseSet, ReqId, Service!vars, callerVars, serverVars
<1>12. ASSUME NEW id \in Ids, NEW k \in Kinds, Answer(id, k) PROVE [Service!Next]_(Service!vars)
  <2>1. Used(id) /\ outcome[id] # NotEncoded
    BY <1>12 DEF Answer, BaseInv, WireInv
  <2>2. Service!Serve(id, k)
    BY <1>12, <2>1 DEF Answer, Used, Service!Serve, callerVars, NotEncoded, Service!NotEncoded
  <2> QED BY <2>2 DEF Service!Next
<1>13. CASE UNCHANGED vars
  BY <1>13 DEF vars, callerVars, serverVars, Service!vars
<1>14. CASE OnResponseDies
  BY <1>14 DEF OnResponseDies, Service!vars, callerVars, serverVars
<1>15. ASSUME NEW c \in Callers, SendBytes(c) PROVE [Service!Next]_(Service!vars)
  <2>1. cur[c] \in Ids /\ answer[cur[c]] = None
    BY <1>15 DEF SendBytes, BaseInv, IdsInv, WireInv
  <2>2. Service!Fail(c)
    BY <1>15, <2>1 DEF SendBytes, EndCall, Goto, Service!Fail, Service!Finish,
       Service!NotEncoded, NotEncoded, BaseInv, TypeOK, serverVars
  <2> QED BY <2>2 DEF Service!Next
<1>16. ASSUME NEW c \in Callers, Leave(c) PROVE [Service!Next]_(Service!vars)
  <2>1. cur[c] \in Ids
    BY <1>16 DEF Leave, BaseInv, IdsInv
  <2>2. Service!Leave(c)
    BY <1>16, <2>1 DEF Leave, EndCall, Goto, Service!Leave, Service!Finish,
       Service!Posted, Posted, BaseInv, TypeOK, serverVars
  <2> QED BY <2>2 DEF Service!Next
<1>17. ASSUME NEW c \in Callers, Take(c) PROVE [Service!Next]_(Service!vars)
  BY <1>17 DEF Take, Goto, Service!vars, BaseInv, TypeOK, serverVars, mapVars, loopVars
<1> QED
  BY <1>1, <1>2, <1>3, <1>4, <1>5, <1>6, <1>7, <1>8, <1>9, <1>10, <1>11,
     <1>12, <1>13, <1>14, <1>15, <1>16, <1>17 DEF Next, CallerStep, CallStep, LoopStep, ServerStep,
     Stopped

\* Without unnotified wake-ups the map, the mutex, the condition variables and
\* the event loop together implement CallService: every step of the client is
\* a step of that service or invisible to it.
THEOREM Refinement ==
  ASSUME ~SpuriousWakeups
  PROVE  Spec => ImplementsCallService
<1>1. BaseInv /\ ReplyInv /\ blank = {} /\ [Next]_vars => [Service!Next]_(Service!vars)
  BY ServiceStep
<1> QED
  BY <1>1, ServiceInit, BlankInvariant, PTL
     DEF Spec, ImplementsCallService, Service!Spec

==============================================================================
