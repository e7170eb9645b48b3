--------------------------- MODULE RunServerProofs ---------------------------
(***************************************************************************)
(* Proofs about RunServer for any pool, any bounds and either value of     *)
(* "block": type correctness, which sockets wait_conn leaves open,     *)
(* and that run_server does not return before its loop has ended.          *)
(***************************************************************************)
EXTENDS RunServer, TLAPS

Msgs == 1..MaxMessages

\* The two helpers of the thread pool keep its types.
LEMMA DetachType ==
  ASSUME NEW t \in Msgs, tasks \in Seq(Msgs), job \in [Workers -> Msgs \cup {None}],
         Detach(t)
  PROVE  tasks' \in Seq(Msgs) /\ job' \in [Workers -> Msgs \cup {None}]
  BY DEF Detach

LEMMA TakeType ==
  ASSUME NEW w \in Workers, tasks \in Seq(Msgs), job \in [Workers -> Msgs \cup {None}],
         Take(w)
  PROVE  tasks' \in Seq(Msgs) /\ job' \in [Workers -> Msgs \cup {None}]
<1>1. Head(tasks) \in Msgs /\ Tail(tasks) \in Seq(Msgs)
  BY DEF Take
<1>2. QED
  BY <1>1 DEF Take

\* wait_conn sleeps only after a try it had left: without this part the next
\* value of "tries" could be out of its range.
TriesLeft == main \in {"dialing", "sleeping"} => tries < MaxTries
TypeInv == TypeOK /\ TriesLeft

LEMMA TypeInit == Init => TypeInv
<1> SUFFICES ASSUME Init PROVE TypeInv
  OBVIOUS
<1>1. tasks \in Seq(Msgs) /\ job \in [Workers -> Msgs \cup {None}]
  BY DEF Init, PoolInit
<1>2. tries \in 0..MaxTries /\ received \in 0..MaxMessages
  BY BoundsAssumption DEF Init
<1>3. block \in BOOLEAN
  BY BlocksAssumption DEF Init
<1>4. QED
  BY <1>1, <1>2, <1>3 DEF Init, TypeOK, Msgs, TypeInv, TriesLeft

LEMMA TypeStep == TypeInv /\ [Next]_vars => TypeInv'
<1> SUFFICES ASSUME TypeInv, [Next]_vars PROVE TypeInv'
  OBVIOUS
<1> USE BoundsAssumption DEF TypeInv, TriesLeft, TypeOK
<1>1. CASE MainStep
  <2>1. CASE Probe
    <3>1. tries \in 0..MaxTries - 1
      BY <2>1 DEF Probe, MoreTries
    <3>2. sockets' \subseteq 0..MaxTries - 1 /\ main' \in {"dialing", "sleeping"}
      BY <2>1, <3>1 DEF Probe
    <3>3. UNCHANGED <<poolVars, block, tries, is_setuped, maps, loopVars, fault>>
      BY <2>1 DEF Probe
    <3>4. QED
      BY <3>1, <3>2, <3>3 DEF poolVars, loopVars
  <2>2. CASE Retry
    <3>1. tries' \in 0..MaxTries /\ main' \in {"probing", "setup"}
      BY <2>2 DEF Retry, MoreTries, NextTry
    <3>2. QED
      BY <2>2, <3>1 DEF Retry, poolVars, loopVars
  <2>3. CASE Setup \/ StartThread
    BY <2>3 DEF Setup, StartThread, poolVars, loopVars
  <2>4. CASE Leave \/ Join
    BY <2>4 DEF Leave, Join, AfterCatch, Terminate, poolVars, mainVars, loopVars
  <2>5. CASE DestroyMaps \/ DestroyPool
    BY <2>5 DEF DestroyMaps, DestroyPool, poolVars, loopVars
  <2>6. CASE Dial
    BY <2>6 DEF Dial, Closed, poolVars, loopVars
  <2>7. QED
    BY <1>1, <2>1, <2>2, <2>3, <2>4, <2>5, <2>6 DEF MainStep
<1>2. CASE LoopStep
  BY <1>2 DEF LoopStep, Run, Close, poolVars, mainVars
<1>3. CASE Surroundings
  <2>1. CASE Connected \/ OnError \/ Stop
    BY <2>1 DEF Connected, OnError, Stop, Terminate, poolVars, mainVars
  <2>2. CASE Receive
    BY <2>2, DetachType DEF Receive, Msgs, mainVars
  <2>3. QED
    BY <1>3, <2>1, <2>2 DEF Surroundings
<1>4. ASSUME NEW w \in Workers, WorkerStep(w) PROVE TypeInv'
  <2>1. CASE Start(w)
    BY <2>1, TakeType DEF Start, Msgs, mainVars, loopVars
  <2>2. CASE Finish(w)
    BY <2>2 DEF Finish, Done, Terminate, poolVars, mainVars, loopVars
  <2>3. QED
    BY <1>4, <2>1, <2>2 DEF WorkerStep
<1>5. CASE UNCHANGED vars
  BY <1>5 DEF vars, poolVars, mainVars, loopVars
<1>6. QED
  BY <1>1, <1>2, <1>3, <1>4, <1>5 DEF Next, Stopped

(* TypeOK: the state of the server's life keeps its types.                 *)
THEOREM TypeCorrect == Spec => []TypeOK
<1>1. TypeInv => TypeOK
  BY DEF TypeInv
<1>2. QED
  BY <1>1, TypeInit, TypeStep, PTL DEF Spec

\* OnlyFailedTriesLeak: wait_conn leaves open the sockets of the tries that failed, and
\* of no other, for any number of tries.
THEOREM SocketsLeak == Spec => []OnlyFailedTriesLeak
<1>1. Init => OnlyFailedTriesLeak
  BY DEF Init, OnlyFailedTriesLeak
<1>2. TypeOK /\ OnlyFailedTriesLeak /\ [Next]_vars => OnlyFailedTriesLeak'
  <2> SUFFICES ASSUME TypeOK, OnlyFailedTriesLeak, [Next]_vars PROVE OnlyFailedTriesLeak'
    OBVIOUS
  <2> USE DEF OnlyFailedTriesLeak
  <2>0. tries \in Nat /\ \A i \in sockets : i \in Nat
    BY BoundsAssumption DEF TypeOK
  <2>1. ASSUME UNCHANGED <<sockets, tries>>, main \notin {"dialing", "sleeping"}
        PROVE  OnlyFailedTriesLeak'
    BY <2>1
  <2>2. CASE Probe
    BY <2>2 DEF Probe
  <2>3. CASE Dial
    BY <2>0, <2>3 DEF Dial, Closed
  <2>4. CASE Retry
    BY <2>0, <2>4 DEF Retry, NextTry
  <2>5. CASE Setup \/ StartThread \/ Leave \/ Join \/ DestroyMaps \/ DestroyPool
    BY <2>5 DEF Setup, StartThread, Leave, Join, DestroyMaps, DestroyPool, mainVars
  <2>6. CASE LoopStep \/ Surroundings \/ UNCHANGED vars
    BY <2>6 DEF LoopStep, Run, Close, Surroundings, Connected, Receive, OnError, Stop,
       mainVars, vars
  <2>7. CASE \E w \in Workers : WorkerStep(w)
    BY <2>7 DEF WorkerStep, Start, Finish, mainVars
  <2> QED BY <2>2, <2>3, <2>4, <2>5, <2>6, <2>7 DEF Next, MainStep, Stopped
<1> QED BY <1>1, <1>2, TypeCorrect, PTL DEF Spec

-----------------------------------------------------------------------------
(* Once the first join() is over the thread of run() has ended, and stays  *)
(* so.                                                                     *)

LifeInv == main \in {"joined", "returned", "waiting", "gone"} => loop = "ended"

LEMMA LifeInit == Init => LifeInv
  BY DEF Init, LifeInv

LEMMA LifeStep == LifeInv /\ [Next]_vars => LifeInv'
<1> SUFFICES ASSUME LifeInv, [Next]_vars PROVE LifeInv'
  OBVIOUS
<1> USE DEF LifeInv
<1>1. CASE MainStep
  <2>1. CASE Probe \/ Dial \/ Retry
    BY <2>1 DEF Probe, Dial, Retry, poolVars, loopVars
  <2>2. CASE Setup \/ StartThread
    BY <2>2 DEF Setup, StartThread, poolVars, loopVars
  <2>3. CASE Leave \/ Join
    BY <2>3 DEF Leave, Join, AfterCatch, poolVars, mainVars, loopVars
  <2>4. CASE DestroyMaps \/ DestroyPool
    BY <2>4 DEF DestroyMaps, DestroyPool, poolVars, loopVars
  <2>5. QED
    BY <1>1, <2>1, <2>2, <2>3, <2>4 DEF MainStep
<1>2. CASE LoopStep
  BY <1>2 DEF LoopStep, Run, Close, poolVars, mainVars
<1>3. CASE Surroundings
  BY <1>3 DEF Surroundings, Connected, Receive, OnError, Stop, poolVars, mainVars
<1>4. ASSUME NEW w \in Workers, WorkerStep(w) PROVE LifeInv'
  <2>1. CASE Start(w)
    BY <2>1 DEF Start, Take, mainVars, loopVars
  <2>2. CASE Finish(w)
    BY <2>2 DEF Finish, Done, poolVars, mainVars, loopVars
  <2>3. QED
    BY <1>4, <2>1, <2>2 DEF WorkerStep
<1>5. CASE UNCHANGED vars
  BY <1>5 DEF vars, poolVars, mainVars, loopVars
<1>6. QED
  BY <1>1, <1>2, <1>3, <1>4, <1>5 DEF Next, Stopped

LEMMA LifeCorrect == Spec => []LifeInv
<1>1. QED
  BY LifeInit, LifeStep, PTL DEF Spec

(* ReturnsAfterLoop: run_server does not return before its loop has ended. *)
THEOREM RunServerWaits == Spec => []ReturnsAfterLoop
<1>1. LifeInv => ReturnsAfterLoop
  BY DEF LifeInv, ReturnsAfterLoop
<1>2. QED
  BY <1>1, LifeCorrect, PTL
==============================================================================
