--------------------------- MODULE ServerRpcProofs ---------------------------
(***************************************************************************)
(* Proofs about ServerRpc for any workers, requests and methods, also when *)
(* accesses to rpc_func_map race: type correctness, that requests are      *)
(* neither lost nor doubled between the broker and their reply, that       *)
(* replies are truthful and sent by one worker at a time, and what the     *)
(* process can die of.                                                     *)
(***************************************************************************)
EXTENDS ServerRpc, FiniteSetTheorems, TLAPS

\* A worker is in _rpc_worker exactly while it has a task; it sends no "".
JobInv ==
  \A w \in Workers :
    /\ at[w] # "start" <=> job[w] # None
    /\ at[w] = "send" => res[w] \notin {"blank", "foreign"}

TypeInv == TypeOK /\ JobInv

\* send_mtx is held exactly while a worker sends.
LockInv == \A w \in Workers : at[w] = "send" <=> send_mtx = w

\* The four places a request can be in, each without the others.
InBroker(r) ==
  /\ \E i \in Nat : Queued(r) = {i}
  /\ InPool(r) = {} /\ OnWorkers(r) = {} /\ ~Replied(r)
InQueue(r) ==
  /\ \E i \in Nat : InPool(r) = {i}
  /\ Queued(r) = {} /\ OnWorkers(r) = {} /\ ~Replied(r)
InWork(r) ==
  /\ \E w \in Workers : OnWorkers(r) = {w}
  /\ Queued(r) = {} /\ InPool(r) = {} /\ ~Replied(r)
Nowhere(r) == Queued(r) = {} /\ InPool(r) = {} /\ OnWorkers(r) = {}

PlaceInv ==
  \A r \in Requests :
    IF req[r] = None THEN Nowhere(r) /\ ~Replied(r)
    ELSE InBroker(r) \/ InQueue(r) \/ InWork(r) \/ (Nowhere(r) /\ Replied(r))

-----------------------------------------------------------------------------
USE RequestsAssumption, MethodsAssumption, ShapesAssumption, RacesAssumption

LEMMA TypeInit == Init => TypeInv
<1> SUFFICES ASSUME Init PROVE TypeInv
  OBVIOUS
<1>1. tasks \in Seq(Requests) /\ ready \in Seq(Requests)
  BY DEF Init, PoolInit
<1>2. QED
  BY <1>1 DEF Init, PoolInit, TypeInv, TypeOK, JobInv, Places, Res

LEMMA TakeType ==
  ASSUME tasks \in Seq(Requests), tasks # <<>>
  PROVE  Head(tasks) \in Requests /\ Tail(tasks) \in Seq(Requests)
OBVIOUS

\* What a worker has a task for was sent by a client.
LEMMA JobSent ==
  ASSUME TypeInv, PlaceInv, NEW w \in Workers, job[w] # None
  PROVE  job[w] \in Requests /\ req[job[w]] \in Bodies
<1>1. job[w] \in Requests
  BY DEF TypeInv, TypeOK
<1>2. w \in OnWorkers(job[w])
  BY DEF OnWorkers
<1>3. req[job[w]] # None
  BY <1>1, <1>2 DEF PlaceInv, Nowhere
<1>4. QED
  BY <1>1, <1>3 DEF TypeInv, TypeOK

LEMMA TypeStep == TypeInv /\ PlaceInv /\ [Next]_vars => TypeInv'
<1> SUFFICES ASSUME TypeInv, PlaceInv, [Next]_vars PROVE TypeInv'
  OBVIOUS
<1> USE DEF TypeInv, TypeOK, JobInv, Places, Res, Goto, Terminate, poolVars, brokerVars,
            mapVars, workerVars, historyVars
<1>1. ASSUME NEW r \in Requests, NEW m \in Methods, NEW f \in Forms, Request(r, m, f)
      PROVE  TypeInv'
  <2>1. ready' \in Seq(Requests)
    BY <1>1 DEF Request
  <2>2. req' \in [Requests -> Bodies \cup {None}]
    BY <1>1 DEF Request, Bodies
  <2>3. QED
    BY <1>1, <2>1, <2>2 DEF Request
<1>2. CASE LoopStep
  <2>1. ready' \in Seq(Requests) /\ tasks' \in Seq(Requests)
    BY <1>2 DEF LoopStep, OnRpcMessage, Detach
  <2>2. QED
    BY <1>2, <2>1 DEF LoopStep, OnRpcMessage, Detach
<1>3. ASSUME NEW w \in Workers, TaskStep(w) PROVE TypeInv'
  <2>1. CASE Start(w)
    <3>1. /\ tasks' \in Seq(Requests)
          /\ job' \in [Workers -> Requests \cup {None}]
          /\ job'[w] # None
      BY <2>1, TakeType DEF Start, Take
    <3>2. \A v \in Workers \ {w} : job'[v] = job[v] /\ at'[v] = at[v] /\ res'[v] = res[v]
      BY <2>1 DEF Start, Take
    <3>3. at' \in [Workers -> Places] /\ at'[w] = "find"
      BY <2>1 DEF Start
    <3>4. res' \in [Workers -> Res]
      BY <2>1 DEF Start
    <3>5. QED
      BY <2>1, <3>1, <3>2, <3>3, <3>4 DEF Start
  <2>2. CASE Find(w)
    BY <2>2 DEF Find
  <2>3. CASE Call(w)
    <3>1. rpc_func_map' \subseteq Methods
      <4>1. Meth(w) \in Methods
        BY <2>3, JobSent DEF Call, Bodies, Meth
      <4>2. QED
        BY <2>3, <4>1 DEF Call
    <3>2. QED
      BY <2>3, <3>1 DEF Call
  <2>4. CASE Run(w)
    <3>1. \A e \in Ends : Shown(e) \in Res
      BY DEF Shown
    <3>2. res' \in [Workers -> Res]
      BY <2>4, <3>1 DEF Run
    <3> QED BY <2>4, <3>1, <3>2 DEF Run, Shown
  <2>5. CASE Reply(w)
    BY <2>5 DEF Reply, Parsable, Dumpable, LockSend
  <2>6. CASE Publish(w)
    BY <2>6 DEF Publish, Message, Done, Replies
  <2>7. QED
    BY <1>3, <2>1, <2>2, <2>3, <2>4, <2>5, <2>6 DEF TaskStep
<1>4. CASE EditStep
  BY <1>4 DEF EditStep, BeginEdit, EndEdit
<1>5. CASE UNCHANGED vars
  BY <1>5 DEF vars
<1>6. QED
  BY <1>1, <1>2, <1>3, <1>4, <1>5 DEF Next, ClientStep, WorkerStep, Stopped

-----------------------------------------------------------------------------
(* Where a value occurs in a queue, when one is added and when the first   *)
(* one is taken.                                                           *)

Indices(s, r) == {i \in DOMAIN s : s[i] = r}

LEMMA IndicesAppend ==
  ASSUME NEW s \in Seq(Requests), NEW x \in Requests, NEW r \in Requests
  PROVE  /\ r # x => Indices(Append(s, x), r) = Indices(s, r)
         /\ Indices(s, x) = {} => Indices(Append(s, x), x) = {Len(s) + 1}
<1> DEFINE t == Append(s, x)
<1>1. /\ DOMAIN s = 1..Len(s) /\ Len(s) \in Nat
      /\ DOMAIN t = 1..Len(s) + 1
      /\ \A i \in 1..Len(s) : t[i] = s[i]
      /\ t[Len(s) + 1] = x
  OBVIOUS
<1> HIDE DEF t
<1>2. r # x => Indices(t, r) = Indices(s, r)
  BY <1>1 DEF Indices
<1>3. ASSUME Indices(s, x) = {} PROVE Indices(t, x) = {Len(s) + 1}
  BY <1>1, <1>3 DEF Indices
<1>4. QED
  BY <1>2, <1>3 DEF t

LEMMA IndicesTail ==
  ASSUME NEW s \in Seq(Requests), s # <<>>, NEW r \in Requests
  PROVE  /\ Head(s) \in Requests
         /\ Indices(s, Head(s)) # {}
         /\ Indices(s, r) = {} => Indices(Tail(s), r) = {}
         /\ \A i \in Nat : Indices(s, r) = {i} =>
              IF r = Head(s) THEN Indices(Tail(s), r) = {}
              ELSE Indices(Tail(s), r) = {i - 1} /\ i - 1 \in Nat
<1> DEFINE t == Tail(s)
<1>1. /\ DOMAIN s = 1..Len(s) /\ Len(s) \in Nat \ {0}
      /\ DOMAIN t = 1..Len(s) - 1
      /\ \A i \in 1..Len(s) - 1 : t[i] = s[i + 1]
      /\ Head(s) = s[1] /\ Head(s) \in Requests
  OBVIOUS
<1> HIDE DEF t
<1>2. 1 \in Indices(s, Head(s))
  BY <1>1 DEF Indices
<1>3. ASSUME Indices(s, r) = {} PROVE Indices(t, r) = {}
  BY <1>1, <1>3 DEF Indices
<1>4. ASSUME NEW i \in Nat, Indices(s, r) = {i}, r = Head(s) PROVE Indices(t, r) = {}
  <2>1. i = 1
    BY <1>2, <1>4
  <2>2. ASSUME NEW j \in Indices(t, r) PROVE FALSE
    <3>1. j + 1 \in Indices(s, r)
      BY <1>1 DEF Indices
    <3>2. j \in Nat \ {0}
      BY <1>1 DEF Indices
    <3>3. QED
      BY <1>4, <2>1, <3>1, <3>2
  <2>3. QED
    BY <2>2
<1>5. ASSUME NEW i \in Nat, Indices(s, r) = {i}, r # Head(s)
      PROVE  Indices(t, r) = {i - 1} /\ i - 1 \in Nat
  <2>1. i \in 1..Len(s) /\ s[i] = r /\ i # 1
    BY <1>1, <1>5 DEF Indices
  <2>2. i - 1 \in Indices(t, r) /\ i - 1 \in Nat
    BY <1>1, <2>1 DEF Indices
  <2>3. ASSUME NEW j \in Indices(t, r) PROVE j = i - 1
    <3>1. j \in Nat /\ j + 1 \in Indices(s, r)
      BY <1>1 DEF Indices
    <3>2. QED
      BY <1>5, <3>1
  <2>4. QED
    BY <2>2, <2>3
<1>6. QED
  BY <1>1, <1>2, <1>3, <1>4, <1>5 DEF t

-----------------------------------------------------------------------------
(* A request goes from the broker to the queue of the pool, to a worker    *)
(* and to its reply, and no other step moves it.                           *)

\* What a queue or a worker holds is in no other place.
LEMMA OnlyPlace ==
  ASSUME PlaceInv, NEW r \in Requests
  PROVE  /\ Queued(r) # {} => req[r] # None /\ InBroker(r)
         /\ InPool(r) # {} => req[r] # None /\ InQueue(r)
         /\ OnWorkers(r) # {} => req[r] # None /\ InWork(r)
BY DEF PlaceInv, Nowhere, InBroker, InQueue, InWork

\* A request whose four places are as before is where it was.
LEMMA SamePlace ==
  ASSUME PlaceInv, NEW r \in Requests,
         Queued(r)' = Queued(r), InPool(r)' = InPool(r), OnWorkers(r)' = OnWorkers(r),
         (Replied(r)' <=> Replied(r)), req'[r] = req[r]
  PROVE  IF req'[r] = None THEN Nowhere(r)' /\ ~Replied(r)'
         ELSE InBroker(r)' \/ InQueue(r)' \/ InWork(r)' \/ (Nowhere(r)' /\ Replied(r)')
BY DEF PlaceInv, Nowhere, InBroker, InQueue, InWork

LEMMA PlaceInit == Init => PlaceInv
<1> SUFFICES ASSUME Init, NEW r \in Requests PROVE Nowhere(r) /\ ~Replied(r)
  BY DEF Init, PlaceInv
<1>1. Queued(r) = {} /\ InPool(r) = {} /\ OnWorkers(r) = {}
  BY DEF Init, PoolInit, Queued, InPool, OnWorkers
<1>2. QED
  BY <1>1 DEF Nowhere, Replied, Init

LEMMA RequestPlace ==
  ASSUME TypeInv, PlaceInv, NEW x \in Requests, NEW m \in Methods, NEW f \in Forms,
         Request(x, m, f)
  PROVE  PlaceInv'
<1>1. /\ req'[x] # None /\ \A r \in Requests \ {x} : req'[r] = req[r]
      /\ ready \in Seq(Requests) /\ ready' = Append(ready, x)
      /\ UNCHANGED <<tasks, job, replies>>
  <2>1. [meth |-> m, form |-> f] \in Bodies /\ None \notin Bodies
    BY NoneAssumption DEF Bodies
  <2>2. QED
    BY <2>1 DEF Request, TypeInv, TypeOK, poolVars, historyVars
<1>2. ASSUME NEW r \in Requests
      PROVE  /\ InPool(r)' = InPool(r) /\ OnWorkers(r)' = OnWorkers(r)
             /\ (Replied(r)' <=> Replied(r))
             /\ r # x => Queued(r)' = Queued(r)
  BY <1>1, IndicesAppend DEF InPool, OnWorkers, Replied, Queued, Indices
<1>3. InBroker(x)'
  <2>1. Nowhere(x) /\ ~Replied(x)
    BY DEF PlaceInv, Request
  <2>2. Queued(x)' = {Len(ready) + 1} /\ Len(ready) + 1 \in Nat
    BY <1>1, <2>1, IndicesAppend DEF Nowhere, Queued, Indices
  <2>3. QED
    BY <1>2, <2>1, <2>2 DEF Nowhere, InBroker
<1>4. QED
  BY <1>1, <1>2, <1>3, SamePlace DEF PlaceInv

LEMMA LoopPlace == ASSUME TypeInv, PlaceInv, OnRpcMessage PROVE PlaceInv'
<1>0. PICK x \in Requests : x = Head(ready) /\ Queued(x) # {}
  BY IndicesTail DEF OnRpcMessage, TypeInv, TypeOK, Queued, Indices
<1>1. /\ ready \in Seq(Requests) /\ ready # <<>> /\ ready' = Tail(ready)
      /\ tasks \in Seq(Requests) /\ tasks' = Append(tasks, x)
      /\ UNCHANGED <<job, req, replies>>
  BY <1>0 DEF OnRpcMessage, Detach, TypeInv, TypeOK, historyVars
<1>3. ASSUME NEW r \in Requests
      PROVE  /\ OnWorkers(r)' = OnWorkers(r)
             /\ (Replied(r)' <=> Replied(r))
             /\ r # x => InPool(r)' = InPool(r)
  BY <1>0, <1>1, IndicesAppend DEF InPool, OnWorkers, Replied, Indices
<1>4. InQueue(x)' /\ req'[x] # None
  <2>1. InBroker(x) /\ req[x] # None
    BY <1>0, OnlyPlace
  <2>2. Queued(x)' = {}
    BY <1>0, <1>1, <2>1, IndicesTail DEF InBroker, Queued, Indices
  <2>3. InPool(x)' = {Len(tasks) + 1} /\ Len(tasks) + 1 \in Nat
    BY <1>0, <1>1, <2>1, IndicesAppend DEF InBroker, InPool, Indices
  <2>4. QED
    BY <1>0, <1>1, <1>3, <2>1, <2>2, <2>3 DEF InBroker, InQueue
<1>5. ASSUME NEW r \in Requests, r # x
      PROVE  IF req'[r] = None THEN Nowhere(r)' /\ ~Replied(r)'
             ELSE InBroker(r)' \/ InQueue(r)' \/ InWork(r)' \/ (Nowhere(r)' /\ Replied(r)')
  <2>1. CASE Queued(r) = {}
    <3>1. Queued(r)' = {}
      BY <1>1, <2>1, IndicesTail DEF Queued, Indices
    <3>2. QED
      BY <1>1, <1>3, <1>5, <2>1, <3>1, SamePlace
  <2>2. CASE Queued(r) # {}
    <3>1. InBroker(r) /\ req[r] # None
      BY <2>2, OnlyPlace
    <3>2. PICK i \in Nat : Queued(r) = {i}
      BY <3>1 DEF InBroker
    <3>3. Queued(r)' = {i - 1} /\ i - 1 \in Nat
      <4>1. Indices(ready, r) = {i} /\ r # Head(ready)
        BY <1>0, <1>5, <3>2 DEF Queued, Indices
      <4>2. Indices(Tail(ready), r) = {i - 1} /\ i - 1 \in Nat
        BY <1>1, <4>1, IndicesTail
      <4>3. QED
        BY <1>1, <4>2 DEF Queued, Indices
    <3>4. InBroker(r)'
      BY <1>3, <1>5, <3>1, <3>3 DEF InBroker
    <3>5. QED
      BY <1>1, <3>1, <3>4
  <2>3. QED
    BY <2>1, <2>2
<1>6. QED
  BY <1>4, <1>5 DEF PlaceInv

LEMMA StartPlace == ASSUME TypeInv, PlaceInv, NEW w \in Workers, Start(w) PROVE PlaceInv'
<1>0. PICK x \in Requests : x = Head(tasks) /\ InPool(x) # {}
  BY IndicesTail DEF Start, Take, TypeInv, TypeOK, InPool, Indices
<1>1. /\ tasks \in Seq(Requests) /\ tasks # <<>> /\ tasks' = Tail(tasks)
      /\ job[w] = None /\ job'[w] = x
      /\ \A v \in Workers \ {w} : job'[v] = job[v]
      /\ UNCHANGED <<ready, req, replies>>
  BY <1>0 DEF Start, Take, TypeInv, TypeOK, brokerVars, historyVars
<1>2. ASSUME NEW r \in Requests
      PROVE  /\ Queued(r)' = Queued(r)
             /\ (Replied(r)' <=> Replied(r))
             /\ r # x => OnWorkers(r)' = OnWorkers(r)
             /\ r = x => OnWorkers(r)' = OnWorkers(r) \cup {w}
  BY <1>1 DEF Queued, Replied, OnWorkers
<1>3. InWork(x)' /\ req'[x] # None
  <2>1. InQueue(x) /\ req[x] # None
    BY <1>0, OnlyPlace
  <2>2. InPool(x)' = {}
    BY <1>0, <1>1, <2>1, IndicesTail DEF InQueue, InPool, Indices
  <2>3. OnWorkers(x)' = {w}
    BY <1>2, <2>1 DEF InQueue
  <2>4. QED
    BY <1>1, <1>2, <2>1, <2>2, <2>3 DEF InQueue, InWork
<1>4. ASSUME NEW r \in Requests, r # x
      PROVE  IF req'[r] = None THEN Nowhere(r)' /\ ~Replied(r)'
             ELSE InBroker(r)' \/ InQueue(r)' \/ InWork(r)' \/ (Nowhere(r)' /\ Replied(r)')
  <2>1. CASE InPool(r) = {}
    <3>1. InPool(r)' = {}
      BY <1>1, <2>1, IndicesTail DEF InPool, Indices
    <3>2. QED
      BY <1>1, <1>2, <1>4, <2>1, <3>1, SamePlace
  <2>2. CASE InPool(r) # {}
    <3>1. InQueue(r) /\ req[r] # None
      BY <2>2, OnlyPlace
    <3>2. PICK i \in Nat : InPool(r) = {i}
      BY <3>1 DEF InQueue
    <3>3. InPool(r)' = {i - 1} /\ i - 1 \in Nat
      <4>1. Indices(tasks, r) = {i} /\ r # Head(tasks)
        BY <1>0, <1>4, <3>2 DEF InPool, Indices
      <4>2. Indices(Tail(tasks), r) = {i - 1} /\ i - 1 \in Nat
        BY <1>1, <4>1, IndicesTail
      <4>3. QED
        BY <1>1, <4>2 DEF InPool, Indices
    <3>4. InQueue(r)'
      BY <1>2, <1>4, <3>1, <3>3 DEF InQueue
    <3>5. QED
      BY <1>1, <3>1, <3>4
  <2>3. QED
    BY <2>1, <2>2
<1>5. QED
  BY <1>3, <1>4 DEF PlaceInv

LEMMA PublishPlace ==
  ASSUME TypeInv, PlaceInv, NEW w \in Workers, Publish(w) PROVE PlaceInv'
<1>0. PICK x \in Requests : x = job[w] /\ req[x] \in Bodies
  BY JobSent DEF Publish, TypeInv, JobInv
<1>1. /\ job[w] = x /\ job'[w] = None
      /\ \A v \in Workers \ {w} : job'[v] = job[v]
      /\ replies' = replies \cup {[id |-> x, body |-> res[w]]}
      /\ UNCHANGED <<ready, tasks, req>>
  BY <1>0 DEF Publish, Message, Done, TypeInv, TypeOK, brokerVars
<1>2. ASSUME NEW r \in Requests
      PROVE  /\ Queued(r)' = Queued(r)
             /\ InPool(r)' = InPool(r)
             /\ r # x => (Replied(r)' <=> Replied(r)) /\ OnWorkers(r)' = OnWorkers(r)
             /\ r = x => Replied(r)' /\ OnWorkers(r)' = OnWorkers(r) \ {w}
  <2>1. Queued(r)' = Queued(r) /\ InPool(r)' = InPool(r)
    BY <1>1 DEF Queued, InPool
  <2>2. /\ r # x => (Replied(r)' <=> Replied(r))
        /\ r = x => Replied(r)'
    <3>1. PICK m : m.id = x /\ replies' = replies \cup {m}
      BY <1>1
    <3>2. Replied(r)' <=> Replied(r) \/ r = x
      BY <3>1, Zenon DEF Replied
    <3>3. QED
      BY <3>2
  <2>3. /\ r # x => OnWorkers(r)' = OnWorkers(r)
        /\ r = x => OnWorkers(r)' = OnWorkers(r) \ {w}
    <3>1. \A v \in Workers : job'[v] = r <=> job[v] = r /\ (v # w \/ r # x)
      BY <1>0, <1>1
    <3>2. job[w] = x
      BY <1>1
    <3>3. QED
      BY <3>1, <3>2 DEF OnWorkers
  <2>4. QED
    BY <2>1, <2>2, <2>3
<1>3. Nowhere(x)' /\ Replied(x)' /\ req'[x] # None
  <2>1. InWork(x) /\ w \in OnWorkers(x) /\ req[x] # None
    <3>1. w \in OnWorkers(x)
      BY <1>1 DEF OnWorkers
    <3>2. QED
      BY <3>1, OnlyPlace
  <2>2. OnWorkers(x)' = {}
    BY <1>2, <2>1 DEF InWork
  <2>3. QED
    BY <1>1, <1>2, <2>1, <2>2 DEF InWork, Nowhere
<1>4. QED
  BY <1>1, <1>2, <1>3, SamePlace DEF PlaceInv

LEMMA PlaceStep == TypeInv /\ PlaceInv /\ [Next]_vars => PlaceInv'
<1> SUFFICES ASSUME TypeInv, PlaceInv, [Next]_vars PROVE PlaceInv'
  OBVIOUS
<1>1. ASSUME UNCHANGED <<req, ready, tasks, job, replies>> PROVE PlaceInv'
  <2>1. ASSUME NEW r \in Requests
        PROVE  /\ Queued(r)' = Queued(r) /\ InPool(r)' = InPool(r)
               /\ OnWorkers(r)' = OnWorkers(r) /\ (Replied(r)' <=> Replied(r))
    BY <1>1 DEF Queued, InPool, OnWorkers, Replied
  <2>2. QED
    BY <1>1, <2>1, SamePlace DEF PlaceInv
<1>2. CASE ClientStep
  BY <1>2, RequestPlace DEF ClientStep
<1>3. CASE LoopStep
  BY <1>3, LoopPlace DEF LoopStep
<1>4. ASSUME NEW w \in Workers, TaskStep(w) PROVE PlaceInv'
  <2>1. CASE Find(w) \/ Call(w) \/ Run(w) \/ Reply(w)
    BY <1>1, <2>1 DEF Find, Call, Run, Reply, poolVars, brokerVars, historyVars
  <2>2. QED
    BY <1>4, <2>1, StartPlace, PublishPlace DEF TaskStep
<1>5. CASE EditStep
  BY <1>1, <1>5 DEF EditStep, BeginEdit, EndEdit, poolVars, brokerVars, historyVars
<1>6. CASE UNCHANGED vars
  BY <1>1, <1>6 DEF vars, poolVars, brokerVars, historyVars
<1>7. QED
  BY <1>2, <1>3, <1>4, <1>5, <1>6 DEF Next, WorkerStep, Stopped

LEMMA PlaceInvariant == Spec => [](TypeInv /\ PlaceInv)
<1>1. QED
  BY TypeInit, TypeStep, PlaceInit, PlaceStep, PTL DEF Spec

(* TypeOK: the state of the RPC server keeps its types.                    *)
THEOREM TypeCorrect == Spec => []TypeOK
<1>1. TypeInv => TypeOK
  BY DEF TypeInv
<1>2. QED
  BY <1>1, PlaceInvariant, PTL

(* InOnePlace: a request that was sent is in the broker, in the pool, on   *)
(* one worker or answered, and in no two of these places.                  *)
THEOREM NothingLost == Spec => []InOnePlace
<1>1. ASSUME PlaceInv PROVE InOnePlace
  <2> SUFFICES ASSUME NEW r \in Requests, req[r] # None
               PROVE  Cardinality(Queued(r)) + Cardinality(InPool(r))
                        + Cardinality(OnWorkers(r)) + (IF Replied(r) THEN 1 ELSE 0) = 1
    BY DEF InOnePlace
  <2>1. Cardinality({}) = 0 /\ \A i : Cardinality({i}) = 1
    BY FS_EmptySet, FS_Singleton
  <2>2. InBroker(r) \/ InQueue(r) \/ InWork(r) \/ (Nowhere(r) /\ Replied(r))
    BY <1>1 DEF PlaceInv
  <2> DEFINE q == Cardinality(Queued(r))
             p == Cardinality(InPool(r))
             o == Cardinality(OnWorkers(r))
  <2>3. \/ q = 1 /\ p = 0 /\ o = 0 /\ ~Replied(r)
        \/ q = 0 /\ p = 1 /\ o = 0 /\ ~Replied(r)
        \/ q = 0 /\ p = 0 /\ o = 1 /\ ~Replied(r)
        \/ q = 0 /\ p = 0 /\ o = 0 /\ Replied(r)
    BY <2>1, <2>2 DEF InBroker, InQueue, InWork, Nowhere
  <2> HIDE DEF q, p, o
  <2>4. q + p + o + (IF Replied(r) THEN 1 ELSE 0) = 1
    BY <2>3
  <2>5. QED
    BY <2>4 DEF q, p, o
<1>2. QED
  BY <1>1, PlaceInvariant, PTL

-----------------------------------------------------------------------------
(* ReplyExclusive: send_mtx keeps all workers but one out of send_channel. *)

LEMMA LockInit == Init => LockInv
BY WorkersAssumption DEF Init, LockInv

LEMMA LockStep == TypeInv /\ LockInv /\ [Next]_vars => LockInv'
<1> SUFFICES ASSUME TypeInv, LockInv, [Next]_vars PROVE LockInv'
  OBVIOUS
<1> USE WorkersAssumption DEF TypeInv, TypeOK, LockInv, Goto, workerVars
<1>1. CASE ClientStep \/ LoopStep \/ EditStep
  BY <1>1 DEF ClientStep, Request, LoopStep, OnRpcMessage, EditStep, BeginEdit, EndEdit
<1>2. ASSUME NEW w \in Workers, TaskStep(w) PROVE LockInv'
  <2>1. CASE Start(w)
    BY <2>1 DEF Start
  <2>2. CASE Find(w)
    BY <2>2 DEF Find
  <2>3. CASE Call(w)
    BY <2>3 DEF Call
  <2>4. CASE Run(w)
    BY <2>4 DEF Run
  <2>5. CASE Reply(w)
    BY <2>5 DEF Reply, LockSend
  <2>6. CASE Publish(w)
    BY <2>6 DEF Publish
  <2>7. QED
    BY <1>2, <2>1, <2>2, <2>3, <2>4, <2>5, <2>6 DEF TaskStep
<1>3. CASE UNCHANGED vars
  BY <1>3 DEF vars
<1>4. QED
  BY <1>1, <1>2, <1>3 DEF Next, WorkerStep, Stopped

(* ReplyExclusive: no two workers publish a reply at the same time, since   *)
(* send_reply publishes between the lock and the unlock of send_mtx.        *)
THEOREM OneSender == Spec => []ReplyExclusive
<1>1. LockInv => ReplyExclusive
  BY DEF LockInv, ReplyExclusive
<1>2. QED
  BY <1>1, PlaceInvariant, LockInit, LockStep, PTL DEF Spec

-----------------------------------------------------------------------------
(* RepliesTruthful and Survives.  While the process lives, a worker's      *)
(* place and its res say how far its request has come; a method has not    *)
(* ended for a request that is neither on a worker nor answered.           *)

Untried(r) == ended[r] = None
Formed(w, f, s) == Form(w) = f /\ res[w] = s

WorkerInv(w) ==
  /\ at[w] \in {"find", "call", "run"} => Untried(job[w]) /\ res[w] = "blank"
  /\ at[w] \in {"call", "run"} => Form(w) = "plain"
  /\ at[w] \in {"reply", "send"} =>
       \/ Formed(w, "keywords", "error") /\ Untried(job[w])
       \/ Formed(w, "plain", "blank") /\ Untried(job[w])
       \/ Formed(w, "plain", "value") /\ ended[job[w]] \in {"value", "blank_error"}
       \/ Formed(w, "plain", "error") /\ ended[job[w]] = "runtime_error"
       \/ Formed(w, "plain", "foreign") /\ ended[job[w]] = "foreign_error"
WorkInv == \A w \in Workers : WorkerInv(w)
IdleInv ==
  \A r \in Requests : OnWorkers(r) = {} /\ ~Replied(r) => Untried(r)

\* The map is as it was until somebody edits it, and workers saw it so.
SawInitial(w) ==
  /\ at[w] \in {"call", "run"} => Meth(w) \in Initial
  /\ at[w] = "reply" /\ res[w] = "blank" => Meth(w) \notin Initial
MapInv ==
  /\ editing # None => edited
  /\ ~edited => rpc_func_map = Initial /\ \A w \in Workers : SawInitial(w)

LiveInv == Alive => WorkInv /\ IdleInv /\ MapInv
TruthInv == LiveInv /\ RepliesTruthful /\ Survives

LEMMA TruthInit == Init => TruthInv
<1> SUFFICES ASSUME Init PROVE TruthInv
  OBVIOUS
<1>1. WorkInv /\ IdleInv /\ MapInv
  BY DEF Init, WorkInv, WorkerInv, IdleInv, MapInv, SawInitial, Untried
<1>2. RepliesTruthful /\ Survives
  BY DEF Init, RepliesTruthful, Survives, Alive
<1>3. QED
  BY <1>1, <1>2 DEF TruthInv, LiveInv

\* A new request changes nothing for those that were sent before.
LEMMA RequestTruth ==
  ASSUME TypeInv, PlaceInv, TruthInv, NEW x \in Requests, NEW m \in Methods,
         NEW f \in Forms, Request(x, m, f)
  PROVE  TruthInv'
<1>1. /\ UNCHANGED <<job, at, res, ended, replies, edited, editing, rpc_func_map, fault>>
      /\ \A r \in Requests : req[r] # None => req'[r] = req[r]
  BY DEF Request, TypeInv, TypeOK, poolVars, mapVars, workerVars, historyVars
<1>2. ASSUME NEW w \in Workers, job[w] # None PROVE req'[job[w]] = req[job[w]]
  BY <1>1, <1>2, JobSent, NoneAssumption
<1>3. ASSUME NEW p \in replies PROVE p.id \in Requests /\ req'[p.id] = req[p.id]
  <2>1. p.id \in Requests /\ Replied(p.id)
    BY DEF Replied, TypeInv, TypeOK, Replies
  <2>2. QED
    BY <1>1, <2>1 DEF PlaceInv
<1>4. RepliesTruthful'
  BY <1>1, <1>3 DEF TruthInv, RepliesTruthful
<1>5. Survives'
  <2>1. \A r \in Requests : req[r] # None /\ ~Callable(r) => req'[r] # None /\ ~Callable(r)'
    BY <1>1 DEF Callable
  <2>2. QED
    BY <1>1, <2>1 DEF TruthInv, Survives, Alive
<1>6. LiveInv'
  <2>1. ASSUME Alive' PROVE WorkInv' /\ IdleInv' /\ MapInv'
    <3>1. WorkInv /\ IdleInv /\ MapInv
      BY <1>1, <2>1 DEF TruthInv, LiveInv, Alive
    <3>2. ASSUME NEW w \in Workers, at[w] # "start"
          PROVE  Meth(w)' = Meth(w) /\ Form(w)' = Form(w)
      BY <1>1, <1>2, <3>2 DEF Meth, Form, TypeInv, JobInv
    <3>3. WorkInv'
      BY <1>1, <3>1, <3>2 DEF WorkInv, WorkerInv, Untried, Formed
    <3>4. IdleInv'
      BY <1>1, <3>1 DEF IdleInv, Untried, OnWorkers, Replied
    <3>5. MapInv'
      BY <1>1, <3>1, <3>2 DEF MapInv, SawInitial
    <3>6. QED
      BY <3>3, <3>4, <3>5
  <2>2. QED
    BY <2>1 DEF LiveInv
<1>7. QED
  BY <1>4, <1>5, <1>6 DEF TruthInv

\* A request is on one worker at most, and what is on a worker is not answered.
LEMMA AloneAtWork ==
  ASSUME PlaceInv, TypeInv, NEW w \in Workers, job[w] # None
  PROVE  /\ job[w] \in Requests /\ ~Replied(job[w])
         /\ \A v \in Workers : job[v] = job[w] => v = w
<1>1. job[w] \in Requests /\ w \in OnWorkers(job[w])
  BY DEF OnWorkers, TypeInv, TypeOK
<1>2. InWork(job[w])
  BY <1>1, OnlyPlace
<1>3. QED
  BY <1>1, <1>2 DEF InWork, OnWorkers

\* A step of a worker inside its task that ends no method and sends no reply:
\* what is left to show is about this worker, and what the process died of.
LEMMA WorkerTruth ==
  ASSUME TypeInv, PlaceInv, TruthInv, Alive, NEW w \in Workers,
         UNCHANGED <<req, job, ended, replies, edited, editing>>,
         \A v \in Workers \ {w} : at'[v] = at[v] /\ res'[v] = res[v],
         Alive' => UNCHANGED rpc_func_map /\ WorkerInv(w)' /\ (~edited => SawInitial(w)'),
         ~Alive' => Survives'
  PROVE  TruthInv'
<1>1. RepliesTruthful'
  BY DEF TruthInv, RepliesTruthful
<1>2. Survives'
  BY DEF Survives
<1>3. ASSUME Alive' PROVE WorkInv' /\ IdleInv' /\ MapInv'
  <2>1. WorkInv /\ IdleInv /\ MapInv
    BY DEF TruthInv, LiveInv
  <2>2. ASSUME NEW v \in Workers \ {w} PROVE WorkerInv(v)' /\ (~edited => SawInitial(v)')
    BY <2>1 DEF WorkInv, WorkerInv, MapInv, SawInitial, Untried, Formed, Form, Meth
  <2>3. WorkInv' /\ MapInv'
    BY <1>3, <2>1, <2>2 DEF WorkInv, MapInv
  <2>4. IdleInv'
    BY <2>1 DEF IdleInv, Untried, OnWorkers, Replied
  <2>5. QED
    BY <2>3, <2>4
<1>4. QED
  BY <1>1, <1>2, <1>3 DEF TruthInv, LiveInv

\* A request that need not be answered is a known cause of death.
LEMMA KnownCause ==
  ASSUME NEW r \in Requests, req[r] \in Bodies, ~Callable(r), UNCHANGED req
  PROVE  Survives'
<1>1. req'[r] # None
  BY NoneAssumption
<1>2. ~Callable(r)'
  BY DEF Callable
<1>3. QED
  BY <1>1, <1>2 DEF Survives

LEMMA FindTruth ==
  ASSUME TypeInv, PlaceInv, TruthInv, Alive, NEW w \in Workers, Find(w)
  PROVE  TruthInv'
<1>1. /\ UNCHANGED <<req, job, ended, replies, edited, editing, rpc_func_map>>
      /\ \A v \in Workers \ {w} : at'[v] = at[v] /\ res'[v] = res[v]
  BY DEF Find, Goto, TypeInv, TypeOK, poolVars, brokerVars, mapVars, workerVars, historyVars
<1>2. /\ WorkInv /\ MapInv /\ WorkerInv(w)
      /\ job[w] \in Requests /\ req[job[w]] \in Bodies
  BY JobSent DEF TruthInv, LiveInv, WorkInv, Find, TypeInv, JobInv
<1>3. ASSUME Alive' PROVE WorkerInv(w)' /\ (~edited => SawInitial(w)')
  <2>1. Untried(job[w]) /\ res[w] = "blank"
    BY <1>2 DEF WorkerInv, Find
  <2>2. \/ Form(w) = "keywords" /\ at'[w] = "reply" /\ res'[w] = "error"
        \/ /\ Form(w) = "plain" /\ res'[w] = "blank"
           /\ at'[w] \in {"call", "reply"}
           /\ at'[w] = "call" => Meth(w) \in rpc_func_map
           /\ at'[w] = "reply" => Meth(w) \notin rpc_func_map \/ Racing
    <3>1. Form(w) \in {"plain", "keywords", "malformed"}
      BY <1>2 DEF Form, Bodies, RequestForms
    <3>2. QED
      BY <1>3, <2>1, <3>1 DEF Find, Refused, Terminate, Alive, Goto, TypeInv, TypeOK
  <2>3. WorkerInv(w)'
    BY <1>1, <2>1, <2>2 DEF WorkerInv, Untried, Formed, Form
  <2>4. ~edited => SawInitial(w)'
    BY <1>1, <1>2, <2>2 DEF SawInitial, MapInv, Racing, Meth
  <2>5. QED
    BY <2>3, <2>4
<1>4. ASSUME ~Alive' PROVE Survives'
  <2>1. Form(w) = "malformed" \/ Racing
    BY <1>4 DEF Find, Alive
  <2>2. CASE Racing
    BY <1>1, <1>2, <2>2 DEF Racing, MapInv, Survives
  <2>3. CASE Form(w) = "malformed"
    BY <1>1, <1>2, <2>3, KnownCause DEF Callable, Form
  <2>4. QED
    BY <2>1, <2>2, <2>3
<1>5. QED
  BY <1>1, <1>3, <1>4, WorkerTruth

LEMMA CallTruth ==
  ASSUME TypeInv, PlaceInv, TruthInv, Alive, NEW w \in Workers, Call(w)
  PROVE  TruthInv'
<1>1. /\ UNCHANGED <<req, job, ended, replies, edited, editing, res>>
      /\ \A v \in Workers \ {w} : at'[v] = at[v]
  BY DEF Call, Goto, TypeInv, TypeOK, poolVars, brokerVars, historyVars
<1>2. WorkInv /\ MapInv /\ WorkerInv(w)
  BY DEF TruthInv, LiveInv, WorkInv
<1>3. ASSUME Alive'
      PROVE  UNCHANGED rpc_func_map /\ WorkerInv(w)' /\ (~edited => SawInitial(w)')
  <2>1. at[w] = "call" /\ at'[w] = "run" /\ UNCHANGED rpc_func_map
    BY <1>3 DEF Call, Terminate, Alive, Goto, TypeInv, TypeOK
  <2>2. WorkerInv(w)'
    BY <1>1, <1>2, <2>1 DEF WorkerInv, Untried, Formed, Form
  <2>3. ~edited => SawInitial(w)'
    BY <1>1, <1>2, <2>1 DEF MapInv, SawInitial, Meth
  <2>4. QED
    BY <2>1, <2>2, <2>3
<1>4. ASSUME ~Alive' PROVE Survives'
  <2>1. at[w] = "call" /\ (Meth(w) \notin rpc_func_map \/ Racing)
    BY <1>4 DEF Call, Alive
  <2>2. edited
    BY <1>2, <2>1 DEF MapInv, SawInitial, Racing
  <2>3. QED
    BY <1>1, <2>2 DEF Survives
<1>5. QED
  BY <1>1, <1>3, <1>4, WorkerTruth

LEMMA ReplyTruth ==
  ASSUME TypeInv, PlaceInv, TruthInv, Alive, NEW w \in Workers, Reply(w)
  PROVE  TruthInv'
<1>1. /\ UNCHANGED <<req, job, ended, replies, edited, editing, res, rpc_func_map>>
      /\ \A v \in Workers \ {w} : at'[v] = at[v]
  BY DEF Reply, Goto, TypeInv, TypeOK, poolVars, brokerVars, mapVars, historyVars
<1>2. /\ WorkInv /\ MapInv /\ WorkerInv(w) /\ at[w] = "reply"
      /\ job[w] \in Requests /\ req[job[w]] \in Bodies
  BY JobSent DEF TruthInv, LiveInv, WorkInv, Reply, TypeInv, JobInv
<1>3. ASSUME Alive' PROVE WorkerInv(w)' /\ (~edited => SawInitial(w)')
  <2>1. at'[w] = "send"
    BY <1>3 DEF Reply, Terminate, Alive, Goto, TypeInv, TypeOK
  <2>2. WorkerInv(w)'
    BY <1>1, <1>2, <2>1 DEF WorkerInv, Untried, Formed, Form
  <2>3. QED
    BY <2>1, <2>2 DEF SawInitial
<1>4. ASSUME ~Alive' PROVE Survives'
  <2>1. res[w] \in {"blank", "foreign"}
    BY <1>4 DEF Reply, Parsable, Dumpable, Alive
  <2>2. Form(w) = "plain"
    BY <1>2, <2>1 DEF WorkerInv, Formed
  <2>3. CASE edited
    BY <1>1, <2>3 DEF Survives
  <2>4. CASE res[w] = "blank" /\ ~edited
    <3>1. Meth(w) \notin Initial
      BY <1>2, <2>4 DEF MapInv, SawInitial
    <3>2. QED
      BY <1>1, <1>2, <2>2, <3>1, KnownCause DEF Callable, Form, Meth
  <2>5. CASE res[w] = "foreign"
    <3>1. ended[job[w]] = "foreign_error"
      BY <1>2, <2>5 DEF WorkerInv, Formed
    <3>2. QED
      BY <1>1, <1>2, <3>1 DEF Survives
  <2>6. QED
    BY <2>1, <2>3, <2>4, <2>5
<1>5. QED
  BY <1>1, <1>3, <1>4, WorkerTruth

LEMMA RunTruth ==
  ASSUME TypeInv, PlaceInv, TruthInv, Alive, NEW w \in Workers, Run(w)
  PROVE  TruthInv'
<1>0. PICK r \in Requests : /\ r = job[w] /\ ~Replied(r) /\ w \in OnWorkers(r)
                           /\ \A v \in Workers : job[v] = r => v = w
  BY AloneAtWork DEF Run, TypeInv, JobInv, OnWorkers
<1>1. /\ UNCHANGED <<req, job, replies, edited, editing, rpc_func_map>>
      /\ \A v \in Workers \ {w} : at'[v] = at[v] /\ res'[v] = res[v]
      /\ \A q \in Requests \ {r} : ended'[q] = ended[q]
  BY <1>0 DEF Run, Goto, TypeInv, TypeOK, poolVars, brokerVars, mapVars, workerVars
<1>2. WorkInv /\ IdleInv /\ MapInv /\ WorkerInv(w) /\ Form(w) = "plain"
  BY DEF TruthInv, LiveInv, WorkInv, WorkerInv, Run
<1>3. \/ /\ Alive' /\ at'[w] = "reply"
         /\ \/ ended'[r] \in {"value", "blank_error"} /\ res'[w] = "value"
            \/ ended'[r] = "runtime_error" /\ res'[w] = "error"
            \/ ended'[r] = "foreign_error" /\ res'[w] = "foreign"
      \/ ~Alive' /\ ended'[r] = "exception"
  BY <1>0 DEF Run, Caught, Shown, MethodEnds, Terminate, Alive, Goto, TypeInv, TypeOK
<1>4. RepliesTruthful'
  <2>1. ASSUME NEW p \in replies PROVE p.id \in Requests /\ ended'[p.id] = ended[p.id]
    <3>1. p.id \in Requests /\ Replied(p.id)
      BY DEF Replied, TypeInv, TypeOK, Replies
    <3>2. QED
      BY <1>0, <1>1, <3>1
  <2>2. QED
    BY <1>1, <2>1 DEF TruthInv, RepliesTruthful
<1>5. Survives'
  BY <1>3 DEF Survives
<1>6. ASSUME Alive' PROVE WorkInv' /\ IdleInv' /\ MapInv'
  <2>1. WorkerInv(w)' /\ SawInitial(w)'
    BY <1>0, <1>1, <1>2, <1>3, <1>6 DEF WorkerInv, SawInitial, Formed, Form
  <2>2. ASSUME NEW v \in Workers \ {w} PROVE WorkerInv(v)' /\ (~edited => SawInitial(v)')
    <3>1. at[v] # "start" => job[v] \in Requests \ {r}
      BY <1>0 DEF TypeInv, TypeOK, JobInv
    <3>2. WorkerInv(v) /\ (~edited => SawInitial(v))
      BY <1>2 DEF WorkInv, MapInv
    <3>3. WorkerInv(v)'
      BY <1>1, <3>1, <3>2 DEF WorkerInv, Untried, Formed, Form
    <3>4. ~edited => SawInitial(v)'
      BY <1>1, <3>2 DEF SawInitial, Meth
    <3>5. QED
      BY <3>3, <3>4
  <2>3. WorkInv' /\ MapInv'
    BY <1>1, <1>2, <2>1, <2>2 DEF WorkInv, MapInv
  <2>4. IdleInv'
    <3>1. ASSUME NEW q \in Requests, OnWorkers(q)' = {}, ~Replied(q)' PROVE Untried(q)'
      <4>1. OnWorkers(q) = {} /\ ~Replied(q)
        BY <1>1, <3>1 DEF OnWorkers, Replied
      <4>2. q # r /\ Untried(q)
        BY <1>0, <1>2, <4>1 DEF IdleInv
      <4>3. QED
        BY <1>1, <4>2 DEF Untried
    <3>2. QED
      BY <3>1 DEF IdleInv
  <2>5. QED
    BY <2>3, <2>4
<1>7. QED
  BY <1>4, <1>5, <1>6 DEF TruthInv, LiveInv

LEMMA StartTruth ==
  ASSUME TypeInv, PlaceInv, TruthInv, Alive, NEW w \in Workers, Start(w)
  PROVE  TruthInv'
<1>0. PICK x \in Requests : x = Head(tasks) /\ InPool(x) # {}
  BY IndicesTail DEF Start, Take, TypeInv, TypeOK, InPool, Indices
<1>1. /\ UNCHANGED <<req, ended, replies, edited, editing, rpc_func_map, fault>>
      /\ \A v \in Workers \ {w} : at'[v] = at[v] /\ res'[v] = res[v] /\ job'[v] = job[v]
      /\ job'[w] = x /\ at'[w] = "find" /\ res'[w] = "blank"
  BY <1>0 DEF Start, Take, Goto, TypeInv, TypeOK, brokerVars, mapVars, historyVars
<1>2. WorkInv /\ IdleInv /\ MapInv
  BY DEF TruthInv, LiveInv
<1>3. RepliesTruthful' /\ Survives'
  BY <1>1 DEF TruthInv, RepliesTruthful, Survives, Alive
<1>4. WorkInv' /\ MapInv'
  <2>1. Untried(x)
    BY <1>0, <1>2, OnlyPlace DEF IdleInv, InQueue
  <2>2. WorkerInv(w)' /\ SawInitial(w)'
    BY <1>1, <2>1 DEF WorkerInv, SawInitial, Untried
  <2>3. ASSUME NEW v \in Workers \ {w} PROVE WorkerInv(v)' /\ (~edited => SawInitial(v)')
    BY <1>1, <1>2 DEF WorkInv, WorkerInv, MapInv, SawInitial, Untried, Formed, Form, Meth
  <2>4. QED
    BY <1>1, <1>2, <2>2, <2>3 DEF WorkInv, MapInv
<1>5. IdleInv'
  <2>1. ASSUME NEW q \in Requests, OnWorkers(q)' = {}, ~Replied(q)' PROVE Untried(q)'
    <3>1. ~Replied(q) /\ \A v \in Workers : job'[v] # q
      BY <1>1, <2>1 DEF Replied, OnWorkers
    <3>2. job[w] = None
      BY DEF Start, Take
    <3>3. OnWorkers(q) = {}
      BY <1>1, <3>1, <3>2 DEF OnWorkers
    <3>4. QED
      BY <1>1, <1>2, <3>1, <3>3 DEF IdleInv, Untried
  <2>2. QED
    BY <2>1 DEF IdleInv
<1>6. QED
  BY <1>3, <1>4, <1>5 DEF TruthInv, LiveInv

LEMMA PublishTruth ==
  ASSUME TypeInv, PlaceInv, TruthInv, Alive, NEW w \in Workers, Publish(w)
  PROVE  TruthInv'
<1>0. PICK r \in Requests : r = job[w] /\ req[r] \in Bodies
  BY JobSent DEF Publish, TypeInv, JobInv
<1>1. /\ UNCHANGED <<req, res, ended, edited, editing, rpc_func_map, fault>>
      /\ \A v \in Workers \ {w} : at'[v] = at[v] /\ job'[v] = job[v]
      /\ job'[w] = None /\ at'[w] = "start"
      /\ replies' = replies \cup {[id |-> r, body |-> res[w]]}
  BY <1>0 DEF Publish, Message, Done, Goto, TypeInv, TypeOK, brokerVars, mapVars
<1>2. /\ WorkInv /\ IdleInv /\ MapInv /\ WorkerInv(w)
      /\ at[w] = "send" /\ res[w] \notin {"blank", "foreign"}
  BY DEF TruthInv, LiveInv, WorkInv, Publish, TypeInv, JobInv
<1>3. Survives'
  BY <1>1 DEF Survives, Alive
<1>4. RepliesTruthful'
  <2>1. \/ req[r].form = "keywords" /\ res[w] = "error" /\ ended[r] = None
        \/ req[r].form = "plain" /\ res[w] = "value" /\ ended[r] \in {"value", "blank_error"}
        \/ req[r].form = "plain" /\ res[w] = "error" /\ ended[r] = "runtime_error"
    BY <1>0, <1>2 DEF WorkerInv, Formed, Form, Untried
  <2>2. None \notin {"value", "blank_error", "runtime_error"}
    BY NoneAssumption DEF MethodEnds
  <2>3. PICK m : m.id = r /\ m.body = res[w] /\ replies' = replies \cup {m}
    BY <1>1
  <2>4. ASSUME NEW p \in replies'
        PROVE  /\ req[p.id].form \in {"plain", "keywords"}
               /\ req[p.id].form = "plain" =>
                    /\ ended[p.id] \notin {None, "exception", "foreign_error"}
                    /\ (p.body = "error") = (ended[p.id] = "runtime_error")
               /\ req[p.id].form = "keywords" => p.body = "error" /\ ended[p.id] = None
    <3>1. CASE p \in replies
      BY <3>1 DEF TruthInv, RepliesTruthful
    <3>2. CASE p = m
      BY <2>1, <2>2, <2>3, <3>2
    <3>3. QED
      BY <2>3, <3>1, <3>2
  <2>5. QED
    BY <1>1, <2>4 DEF RepliesTruthful
<1>5. WorkInv' /\ MapInv'
  <2>1. WorkerInv(w)' /\ SawInitial(w)'
    BY <1>1 DEF WorkerInv, SawInitial
  <2>2. ASSUME NEW v \in Workers \ {w} PROVE WorkerInv(v)' /\ (~edited => SawInitial(v)')
    BY <1>1, <1>2 DEF WorkInv, WorkerInv, MapInv, SawInitial, Untried, Formed, Form, Meth
  <2>3. QED
    BY <1>1, <1>2, <2>1, <2>2 DEF WorkInv, MapInv
<1>6. IdleInv'
  <2>1. ASSUME NEW q \in Requests, OnWorkers(q)' = {}, ~Replied(q)' PROVE Untried(q)'
    <3>1. PICK m : m.id = r /\ replies' = replies \cup {m}
      BY <1>1
    <3>2. q # r /\ ~Replied(q)
      BY <2>1, <3>1 DEF Replied
    <3>3. OnWorkers(q) = {}
      BY <1>0, <1>1, <2>1, <3>2 DEF OnWorkers
    <3>4. QED
      BY <1>1, <1>2, <3>2, <3>3 DEF IdleInv, Untried
  <2>2. QED
    BY <2>1 DEF IdleInv
<1>7. QED
  BY <1>3, <1>4, <1>5, <1>6 DEF TruthInv, LiveInv

\* The event loop and the application do not touch the workers' state; who erases a
\* method that executes has changed the map.
LEMMA OthersTruth ==
  ASSUME TypeInv, PlaceInv, TruthInv, Alive, LoopStep \/ EditStep
  PROVE  TruthInv'
<1>1. UNCHANGED <<req, job, at, res, ended, replies>> /\ (fault' # fault => EndEdit)
  BY DEF LoopStep, OnRpcMessage, Detach, EditStep, BeginEdit, EndEdit, poolVars, brokerVars,
         workerVars, historyVars
<1>2. WorkInv /\ IdleInv /\ MapInv
  BY DEF TruthInv, LiveInv
<1>3. RepliesTruthful' /\ Survives'
  <2>1. RepliesTruthful'
    BY <1>1 DEF TruthInv, RepliesTruthful
  <2>2. fault' = fault => Alive'
    BY DEF Alive
  <2>3. EndEdit => edited'
    BY <1>2 DEF EndEdit, MapInv
  <2>4. Alive' \/ edited'
    BY <1>1, <2>2, <2>3
  <2> QED BY <2>1, <2>4 DEF Survives
<1>4. WorkInv'
  BY <1>1, <1>2 DEF WorkInv, WorkerInv, Untried, Formed, Form
<1>5. IdleInv'
  BY <1>1, <1>2 DEF IdleInv, Untried, OnWorkers, Replied
<1>6. MapInv'
  <2>1. CASE LoopStep
    BY <1>1, <1>2, <2>1 DEF LoopStep, OnRpcMessage, MapInv, SawInitial, Meth, mapVars
  <2>2. CASE EditStep
    BY <1>2, <2>2 DEF EditStep, BeginEdit, EndEdit, MapInv
  <2>3. QED
    BY <2>1, <2>2
<1>7. QED
  BY <1>3, <1>4, <1>5, <1>6 DEF TruthInv, LiveInv

LEMMA TruthStep == TypeInv /\ PlaceInv /\ TruthInv /\ [Next]_vars => TruthInv'
<1> SUFFICES ASSUME TypeInv, PlaceInv, TruthInv, [Next]_vars PROVE TruthInv'
  OBVIOUS
<1>1. CASE ClientStep
  BY <1>1, RequestTruth DEF ClientStep
<1>2. CASE LoopStep \/ EditStep
  BY <1>2, OthersTruth DEF LoopStep, EditStep
<1>3. ASSUME NEW w \in Workers, WorkerStep(w) PROVE TruthInv'
  BY <1>3, StartTruth, FindTruth, CallTruth, RunTruth, ReplyTruth, PublishTruth
     DEF WorkerStep, TaskStep
<1>4. CASE UNCHANGED vars
  <2>1. UNCHANGED <<req, job, at, res, ended, replies, edited, editing, rpc_func_map, fault>>
    BY <1>4 DEF vars, poolVars, brokerVars, mapVars, workerVars, historyVars
  <2>2. RepliesTruthful' /\ Survives' /\ (Alive' => Alive)
    BY <2>1 DEF TruthInv, RepliesTruthful, Survives, Callable, Alive
  <2>3. (WorkInv /\ IdleInv /\ MapInv) => (WorkInv' /\ IdleInv' /\ MapInv')
    BY <2>1 DEF WorkInv, WorkerInv, IdleInv, MapInv, SawInitial, Untried, Formed, Form, Meth,
                OnWorkers, Replied
  <2>4. QED
    BY <2>2, <2>3 DEF TruthInv, LiveInv
<1>5. QED
  BY <1>1, <1>2, <1>3, <1>4 DEF Next, Stopped

LEMMA TruthInvariant == Spec => []TruthInv
<1>1. QED
  BY PlaceInvariant, TruthInit, TruthStep, PTL DEF Spec

(* RepliesTruthful: a reply says how the method of its own request ended.  *)
THEOREM RepliesMatch == Spec => []RepliesTruthful
<1>1. TruthInv => RepliesTruthful
  BY DEF TruthInv
<1>2. QED
  BY <1>1, TruthInvariant, PTL

(* Survives: the process dies of the listed causes and of nothing else.    *)
THEOREM KnownDeaths == Spec => []Survives
<1>1. TruthInv => Survives
  BY DEF TruthInv
<1>2. QED
  BY <1>1, TruthInvariant, PTL

-----------------------------------------------------------------------------
(* The end of a process whose method threw is also the end of its replies. *)

ThrowInv == \A r \in Requests : ended[r] = "exception" => ~Alive /\ ~Replied(r)

LEMMA ThrowInit == Init => ThrowInv
BY NoneAssumption DEF Init, ThrowInv, MethodEnds

LEMMA ThrowStep == TypeInv /\ PlaceInv /\ ThrowInv /\ [Next]_vars => ThrowInv'
<1> SUFFICES ASSUME TypeInv, PlaceInv, ThrowInv, [Next]_vars PROVE ThrowInv'
  OBVIOUS
<1>1. ASSUME UNCHANGED <<ended, replies, fault>> PROVE ThrowInv'
  BY <1>1 DEF ThrowInv, Alive, Replied
<1>2. ASSUME NEW w \in Workers, Alive, Run(w) PROVE ThrowInv'
  <2>1. job[w] \in Requests /\ ~Replied(job[w])
    BY <1>2, AloneAtWork DEF Run, TypeInv, JobInv
  <2>2. PICK e \in Ends : /\ ended' = [ended EXCEPT ![job[w]] = e]
                          /\ e = "exception" => ~Alive'
    BY <1>2 DEF Run, Caught, Terminate, Alive
  <2>3. UNCHANGED replies /\ ended \in [Requests -> Ends \cup {None}]
    BY <1>2 DEF Run, TypeInv, TypeOK
  <2> QED BY <1>2, <2>1, <2>2, <2>3 DEF ThrowInv, Replied
<1>3. ASSUME NEW w \in Workers, Alive, UNCHANGED ended PROVE ThrowInv'
  BY <1>3 DEF ThrowInv
<1>4. ASSUME NEW w \in Workers, WorkerStep(w) PROVE ThrowInv'
  BY <1>2, <1>3, <1>4 DEF WorkerStep, TaskStep, Start, Find, Call, Reply, Publish,
     historyVars
<1>5. CASE ClientStep \/ LoopStep \/ Stopped \/ UNCHANGED vars
  BY <1>1, <1>5 DEF ClientStep, Request, LoopStep, OnRpcMessage, Stopped, historyVars, vars
<1>6. CASE EditStep
  <2>1. Alive /\ UNCHANGED <<ended, replies>>
    BY <1>6 DEF EditStep, BeginEdit, EndEdit, historyVars
  <2> QED BY <2>1 DEF ThrowInv
<1> QED BY <1>4, <1>5, <1>6 DEF Next

\* A request whose method threw something other than a runtime_error is never
\* answered: the exception leaves _rpc_worker before send_reply, and no other worker
\* goes on.
THEOREM ThrownUnanswered == Spec => []ThrowInv
<1>1. QED
  BY PlaceInvariant, ThrowInit, ThrowStep, PTL DEF Spec

-----------------------------------------------------------------------------
(* The server implements RequestService.                                   *)

\* A method that runs was registered before the server ran, or later by the application:
\* the empty function that operator[] puts into rpc_func_map never runs.
KnownInv ==
  Alive => /\ rpc_func_map \subseteq Initial \cup Editable
           /\ \A w \in Workers : at[w] = "run" => Meth(w) \in Initial \cup Editable

LEMMA KnownInit == Init => KnownInv
BY DEF Init, KnownInv

LEMMA KnownStep == TypeInv /\ PlaceInv /\ KnownInv /\ [Next]_vars => KnownInv'
<1> SUFFICES ASSUME TypeInv, PlaceInv, KnownInv, [Next]_vars, Alive' PROVE KnownInv'
  BY DEF KnownInv
<1> USE DEF KnownInv, Alive, Goto, Terminate, poolVars, brokerVars, mapVars, workerVars,
            historyVars
<1>1. CASE ClientStep
  <2>1. PICK r \in Requests : /\ req[r] = None /\ \A q \in Requests \ {r} : req'[q] = req[q]
                             /\ UNCHANGED <<job, at, rpc_func_map, fault>>
    BY <1>1 DEF ClientStep, Request, TypeInv, TypeOK
  <2>2. ASSUME NEW w \in Workers, at[w] = "run" PROVE Meth(w)' = Meth(w)
    <3>1. job[w] \in Requests /\ job[w] # r
      BY <2>1, <2>2, JobSent, NoneAssumption DEF TypeInv, JobInv
    <3> QED BY <2>1, <3>1 DEF Meth
  <2> QED BY <2>1, <2>2
<1>2. CASE LoopStep
  BY <1>2 DEF LoopStep, OnRpcMessage, Detach, Meth
<1>3. CASE EditStep
  BY <1>3 DEF EditStep, BeginEdit, EndEdit, TypeInv, TypeOK, Meth
<1>4. ASSUME NEW w \in Workers, WorkerStep(w) PROVE KnownInv'
  <2>1. /\ \A v \in Workers \ {w} : at'[v] = at[v] /\ job'[v] = job[v]
        /\ UNCHANGED <<req, rpc_func_map>>
        /\ at'[w] = "run" => job'[w] = job[w] /\ Meth(w) \in rpc_func_map
    BY <1>4 DEF WorkerStep, TaskStep, Start, Find, Call, Run, Reply, Publish, Take, Done,
       TypeInv, TypeOK
  <2>2. Alive
    BY <1>4 DEF WorkerStep
  <2> QED BY <2>1, <2>2 DEF Meth
<1>5. CASE UNCHANGED vars
  BY <1>5 DEF vars, Meth
<1> QED BY <1>1, <1>2, <1>3, <1>4, <1>5 DEF Next, Stopped

\* What the process dies of, other than of a method, RequestService allows.
LEMMA GoesDown ==
  ASSUME ThrowInv, Alive, ~Alive', Survives', UNCHANGED <<req, edited, ended, replies>>
  PROVE  Service!GoDown
<1>1. \A r \in Requests : req[r] # None /\ ~Callable(r) => Service!Unanswerable(r)
  BY DEF Callable, Service!Unanswerable
<1>2. \A r \in Requests : ended[r] # "exception"
  BY DEF ThrowInv
<1>3. \/ edited
      \/ \E r \in Requests : (req[r] # None /\ ~Callable(r)) \/ ended[r] = "foreign_error"
  BY <1>2 DEF Survives, Callable
<1> QED BY <1>1, <1>3 DEF Service!GoDown

LEMMA RunServes ==
  ASSUME TypeInv, PlaceInv, TruthInv, KnownInv, Alive, NEW w \in Workers, Run(w)
  PROVE  Service!Next
<1>1. job[w] \in Requests /\ req[job[w]] # None
  BY JobSent, NoneAssumption DEF Run, TypeInv, JobInv
<1>2. req[job[w]].form = "plain" /\ ended[job[w]] = None
  BY DEF Run, TruthInv, LiveInv, WorkInv, WorkerInv, Untried, Form
<1>3. Service!Known(req[job[w]].meth)
  BY DEF Run, KnownInv, TruthInv, LiveInv, MapInv, SawInitial, Meth, Service!Known
<1>4. PICK e \in Ends : /\ ended' = [ended EXCEPT ![job[w]] = e]
                        /\ Alive' <=> e # "exception"
  BY DEF Run, Caught, Terminate, Alive, ShapesAssumption, MethodEnds
<1>5. UNCHANGED <<req, edited, replies>>
  BY DEF Run, brokerVars, mapVars
<1>6. Service!Run(job[w], e)
  BY <1>1, <1>2, <1>3, <1>4, <1>5 DEF Service!Run
<1> QED BY <1>1, <1>6 DEF Service!Next

LEMMA PublishServes ==
  ASSUME TypeInv, PlaceInv, TruthInv, Alive, NEW w \in Workers, Publish(w)
  PROVE  Service!Next
<1>1. /\ job[w] \in Requests /\ req[job[w]] # None
      /\ \A p \in replies : p.id # job[w]
  BY JobSent, AloneAtWork, NoneAssumption DEF Publish, TypeInv, JobInv, Replied
<1>2. /\ res[w] \in {"value", "error"}
      /\ \/ req[job[w]].form = "keywords" /\ res[w] = "error" /\ ended[job[w]] = None
         \/ /\ req[job[w]].form = "plain" /\ ended[job[w]] \notin {None, "foreign_error"}
            /\ res[w] = IF ended[job[w]] = "runtime_error" THEN "error" ELSE "value"
  BY NoneAssumption
     DEF Publish, TypeInv, JobInv, TruthInv, LiveInv, WorkInv, WorkerInv, Formed, Form, Untried,
         MethodEnds
<1>3. /\ replies' = replies \cup {[id |-> job[w], body |-> res[w]]}
      /\ UNCHANGED <<req, edited, ended, fault>>
  BY DEF Publish, Message, brokerVars, mapVars
<1>4. Service!Answer(job[w], res[w])
  BY <1>1, <1>2, <1>3 DEF Service!Answer, Alive
<1> QED BY <1>1, <1>2, <1>4 DEF Service!Next

LEMMA ServiceStep ==
  TypeInv /\ PlaceInv /\ TruthInv /\ ThrowInv /\ KnownInv /\ [Next]_vars
    => [Service!Next]_(Service!vars)
<1> SUFFICES ASSUME TypeInv, PlaceInv, TruthInv, ThrowInv, KnownInv, [Next]_vars
             PROVE  [Service!Next]_(Service!vars)
  OBVIOUS
<1> USE DEF poolVars, brokerVars, mapVars, workerVars, historyVars, Alive, Service!vars
<1>1. ASSUME NEW r \in Requests, NEW m \in Methods, NEW f \in Forms, Request(r, m, f)
      PROVE  Service!Next
  <2>1. Service!Ask(r, m, f)
    BY <1>1 DEF Request, Service!Ask
  <2> QED BY <2>1 DEF Service!Next
<1>2. CASE LoopStep
  BY <1>2 DEF LoopStep, OnRpcMessage
<1>3. ASSUME NEW m \in Editable, Alive, BeginEdit(m) PROVE Service!Next
  BY <1>3 DEF BeginEdit, Service!Edit, Service!Next
<1>4. ASSUME Alive, EndEdit PROVE [Service!Next]_(Service!vars)
  <2>1. UNCHANGED <<req, edited, ended, replies>> /\ edited
    BY <1>4 DEF EndEdit, TruthInv, LiveInv, MapInv
  <2>2. CASE Alive'
    BY <1>4, <2>1, <2>2
  <2>3. CASE ~Alive'
    BY <1>4, <2>1, <2>3 DEF Service!GoDown, Service!Next
  <2> QED BY <2>2, <2>3
<1>5. ASSUME NEW w \in Workers, Alive, Start(w) \/ Find(w) \/ Call(w) \/ Reply(w)
      PROVE  [Service!Next]_(Service!vars)
  <2>1. UNCHANGED <<req, edited, ended, replies>>
    BY <1>5 DEF Start, Find, Call, Reply
  <2>2. CASE Alive'
    BY <1>5, <2>1, <2>2
  <2>3. CASE ~Alive'
    <3>1. Survives'
      BY TruthStep DEF TruthInv
    <3> QED BY <1>5, <2>1, <2>3, <3>1, GoesDown DEF Service!Next
  <2> QED BY <2>2, <2>3
<1>6. ASSUME NEW w \in Workers, WorkerStep(w) PROVE [Service!Next]_(Service!vars)
  BY <1>5, <1>6, RunServes, PublishServes DEF WorkerStep, TaskStep
<1>7. CASE UNCHANGED vars
  BY <1>7 DEF vars
<1> QED BY <1>1, <1>2, <1>3, <1>4, <1>6, <1>7 DEF Next, ClientStep, EditStep, Stopped

\* For any workers, requests and methods, with racing accesses to rpc_func_map: what the
\* server does with the broker, the pool, the map and send_mtx is what RequestService
\* promises (_on_rpc_message, _rpc_worker, send_reply, register_rpc, unregister_rpc).
THEOREM Refinement == Spec => ImplementsRequestService
<1>1. Init => Service!Init
  BY DEF Init, Service!Init, Alive
<1>2. Spec => [](TypeInv /\ PlaceInv /\ TruthInv /\ ThrowInv /\ KnownInv)
  BY PlaceInvariant, TruthInvariant, ThrowInit, ThrowStep, KnownInit, KnownStep, PTL DEF Spec
<1> QED BY <1>1, <1>2, ServiceStep, PTL DEF Spec, ImplementsRequestService, Service!Spec
=============================================================================
