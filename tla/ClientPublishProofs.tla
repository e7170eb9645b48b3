------------------------- MODULE ClientPublishProofs -------------------------
(***************************************************************************)
(* Proofs about ClientPublish for any threads, routing keys and number of  *)
(* uses, on every platform: type correctness, and that one flag for all    *)
(* routing keys is enough for no event to be lost.                         *)
(***************************************************************************)
EXTENDS ClientPublish, TLAPS

\* Where a thread is about to use its routing key.
Publishing(t) == pc[t] \notin {"idle", "request", "requesting"}

\* Where the bind of its key has left, by this thread or by another one.
AfterBind == {"registering", "inserting", "locking", "checking", "dozing", "waiting", "woken",
              "to_send", "publishing"}

KeysInv ==
  /\ \A t \in Threads : Publishing(t) => key[t] \in Keys
  /\ \A i \in 1..Len(wire) : wire[i].op \in {"bind", "event"} => wire[i].key \in Keys

TypeInv == TypeOK /\ KeysInv

\* The bind of k is among the first n frames of the channel, or was served.
BoundBefore(k, n) ==
  \/ k \in bound
  \/ \E j \in 1..n : j <= Len(wire) /\ wire[j].op = "bind" /\ wire[j].key = k

BindSent(k) == BoundBefore(k, Len(wire))

\* Every event has the bind of its key before it, and so will those to come.
EventsInv ==
  \A i \in 1..Len(wire) :
    wire[i].op = "event" => BoundBefore(wire[i].key, i - 1)
SetInv == \A k \in routing_keys : BindSent(k)
ThreadsInv == \A t \in Threads : pc[t] \in AfterBind => BindSent(key[t])

OrderInv == EventsInv /\ SetInv /\ ThreadsInv /\ NoEventLost

-----------------------------------------------------------------------------
USE ThreadsAssumption, KeysAssumption, MaxUsesAssumption, PlatformAssumption

LEMMA TypeInit == Init => TypeInv
<1> SUFFICES ASSUME Init PROVE TypeInv
  OBVIOUS
<1>1. wire \in Seq(Frames) /\ Len(wire) = 0
  BY DEF Init
<1>2. uses \in 0..MaxUses /\ acks \in [Threads -> Nat]
  BY DEF Init
<1>3. KeysInv
  BY <1>1 DEF Init, KeysInv, Publishing
<1>4. QED
  BY <1>1, <1>2, <1>3 DEF Init, TypeInv, TypeOK, Locations, InChannel

\* A call on the channel adds one frame at the end.
LEMMA SendType ==
  ASSUME TypeInv, NEW t \in Threads, NEW op \in {"declare", "bind", "event", "request"},
         NEW k \in Keys \cup {None}, op \in {"bind", "event"} => k \in Keys,
         Send(t, op, k)
  PROVE  /\ wire' \in Seq(Frames)
         /\ Len(wire') = Len(wire) + 1
         /\ \A i \in 1..Len(wire) : wire'[i] = wire[i]
         /\ wire'[Len(wire')] = [op |-> op, key |-> k, by |-> t]
         /\ \A i \in 1..Len(wire') :
              wire'[i].op \in {"bind", "event"} => wire'[i].key \in Keys
<1> DEFINE f == [op |-> op, key |-> k, by |-> t]
<1>1. f \in Frames /\ wire \in Seq(Frames)
  BY DEF Frames, TypeInv, TypeOK
<1>2. wire' = Append(wire, f)
  BY DEF Send
<1>3. /\ wire' \in Seq(Frames)
      /\ Len(wire') = Len(wire) + 1
      /\ \A i \in 1..Len(wire) : wire'[i] = wire[i]
      /\ wire'[Len(wire) + 1] = f
  <2> HIDE DEF f
  <2> QED BY <1>1, <1>2
<1>4. ASSUME NEW i \in 1..Len(wire'), wire'[i].op \in {"bind", "event"}
      PROVE  wire'[i].key \in Keys
  <2>1. CASE i \in 1..Len(wire)
    BY <1>3, <1>4, <2>1 DEF TypeInv, KeysInv
  <2>2. CASE i = Len(wire) + 1
    BY <1>3, <1>4, <2>2
  <2>3. QED
    BY <1>1, <1>3, <2>1, <2>2
<1>5. QED
  BY <1>3, <1>4

\* The broker takes the first frame.
LEMMA TailType ==
  ASSUME TypeInv, wire # <<>>, wire' = Tail(wire)
  PROVE  /\ wire' \in Seq(Frames)
         /\ Len(wire') = Len(wire) - 1
         /\ Len(wire) \in Nat \ {0}
         /\ \A i \in 1..Len(wire') : wire'[i] = wire[i + 1]
         /\ Head(wire) = wire[1]
         /\ Head(wire) \in Frames
         /\ wire[1].op \in {"bind", "event"} => wire[1].key \in Keys
<1>1. wire \in Seq(Frames)
  BY DEF TypeInv, TypeOK
<1>2. QED
  BY <1>1 DEF TypeInv, KeysInv

LEMMA TypeStep == TypeInv /\ [Next]_vars => TypeInv'
<1> SUFFICES ASSUME TypeInv, [Next]_vars PROVE TypeInv'
  OBVIOUS
<1> USE DEF TypeInv, TypeOK, KeysInv, Publishing, Goto, Locations, InChannel,
            threadVars, flagVars, brokerVars
<1>1. ASSUME NEW t \in Threads, Begin(t) \/ WakeUnnotified(t) PROVE TypeInv'
  <2>1. CASE Begin(t)
    <3>1. /\ pc' \in [Threads -> Locations] /\ key' \in [Threads -> Keys \cup {None}]
          /\ \A u \in Threads : Publishing(u)' => key'[u] \in Keys
      <4>1. CASE Goto(t, "request") /\ UNCHANGED key
        BY <4>1
      <4>2. ASSUME NEW k \in Keys, key' = [key EXCEPT ![t] = k], Goto(t, "lookup")
            PROVE  /\ pc' \in [Threads -> Locations]
                   /\ key' \in [Threads -> Keys \cup {None}]
                   /\ \A u \in Threads : Publishing(u)' => key'[u] \in Keys
        BY <4>2
      <4>3. QED
        BY <2>1, <4>1, <4>2, Zenon DEF Begin
    <3>2. uses' \in 0..MaxUses
      BY <2>1 DEF Begin
    <3>3. QED
      BY <2>1, <3>1, <3>2 DEF Begin
  <2>2. CASE WakeUnnotified(t)
    BY <2>2 DEF WakeUnnotified, Step
  <2>3. QED
    BY <1>1, <2>1, <2>2
<1>2. ASSUME NEW t \in Threads, UseStep(t) PROVE TypeInv'
  <2>1. CASE Lookup(t)
    BY <2>1 DEF Lookup
  <2>2. CASE Declare(t)
    <3>1. key[t] \in Keys
      BY <2>2 DEF Declare, NewKey
    <3>2. QED
      BY <2>2, <3>1, SendType DEF Declare, NewKey, RoutingKey, Following
  <2>3. CASE Bind(t)
    <3>1. key[t] \in Keys
      BY <2>3 DEF Bind, NewKey
    <3>2. QED
      BY <2>3, <3>1, SendType DEF Bind, NewKey, RoutingKey, Following
  <2>4. CASE RegisterCallback(t) \/ Insert(t)
    BY <2>4 DEF RegisterCallback, Insert, Following
  <2>5. CASE LockPub(t) \/ Check(t) \/ Sleep(t) \/ Wake(t)
    BY <2>5 DEF LockPub, Check, Checked, Sleep, Wake, Step
  <2>6. CASE LockSend(t)
    BY <2>6 DEF LockSend
  <2>7. CASE Publish(t)
    <3>1. key[t] \in Keys
      BY <2>7 DEF Publish
    <3>2. QED
      BY <2>7, <3>1, SendType DEF Publish
  <2>8. CASE Request(t)
    BY <2>8, SendType DEF Request
  <2>9. QED
    BY <1>2, <2>1, <2>2, <2>3, <2>4, <2>5, <2>6, <2>7, <2>8 DEF UseStep
<1>3. CASE LoopStep
  <2>1. CASE OnBound
    <3>1. PICK t \in Threads : acks[t] > 0 /\ acks' = [acks EXCEPT ![t] = @ - 1]
      BY <2>1 DEF OnBound
    <3>2. acks[t] - 1 \in Nat
      BY <3>1
    <3>3. acks' \in [Threads -> Nat]
      BY <3>1, <3>2
    <3>4. inited' \in BOOLEAN /\ loop' \in {"idle", "notify"}
      BY <2>1 DEF OnBound, RaiseFlag
    <3>5. QED
      BY <2>1, <3>3, <3>4 DEF OnBound
  <2>2. CASE NotifyAll
    BY <2>2 DEF NotifyAll, Notified, Sleeping
  <2>3. QED
    BY <1>3, <2>1, <2>2 DEF LoopStep
<1>4. CASE BrokerStep
  <2>1. wire[1].op \in {"bind", "event"} => wire[1].key \in Keys
    BY <1>4, TailType DEF BrokerStep, Broker
  <2>2. bound' \subseteq Keys /\ lost' \subseteq Keys /\ acks' \in [Threads -> Nat]
    BY <1>4, <2>1, TailType DEF BrokerStep, Broker, Frames
  <2>3. wire' \in Seq(Frames)
    BY <1>4, TailType DEF BrokerStep, Broker
  <2>4. \A i \in 1..Len(wire') :
          wire'[i].op \in {"bind", "event"} => wire'[i].key \in Keys
    BY <1>4, TailType DEF BrokerStep, Broker
  <2>5. QED
    BY <1>4, <2>2, <2>3, <2>4 DEF BrokerStep, Broker
<1>5. CASE UNCHANGED vars
  BY <1>5 DEF vars
<1>6. QED
  BY <1>1, <1>2, <1>3, <1>4, <1>5 DEF Next, ThreadStep

(* TypeOK: the state of the publishing client keeps its types.             *)
THEOREM TypeCorrect == Spec => []TypeOK
<1>1. TypeInv => TypeOK
  BY DEF TypeInv
<1>2. QED
  BY <1>1, TypeInit, TypeStep, PTL DEF Spec

-----------------------------------------------------------------------------
(* BoundBefore survives every step: a frame joins at the end, and when the *)
(* broker takes the first one all the others move up, unless it is the     *)
(* bind in question, which is then served.                                 *)

LEMMA SameWire ==
  ASSUME UNCHANGED <<wire, bound>>
  PROVE  /\ \A h \in Keys : BindSent(h) => BindSent(h)'
         /\ EventsInv => EventsInv'
<1>1. \A h \in Keys : BindSent(h) => BindSent(h)'
  BY DEF BindSent, BoundBefore
<1>2. EventsInv => EventsInv'
  BY DEF BoundBefore, EventsInv
<1>3. QED
  BY <1>1, <1>2

LEMMA OrderInit == Init => OrderInv
BY DEF Init, OrderInv, EventsInv, SetInv, ThreadsInv, NoEventLost, AfterBind

\* What a thread sends keeps the binds there are, and an event has its own.
LEMMA SendOrder ==
  ASSUME TypeInv, EventsInv, UNCHANGED bound,
         NEW t \in Threads, NEW op \in {"declare", "bind", "event", "request"},
         NEW k \in Keys \cup {None}, op \in {"bind", "event"} => k \in Keys,
         op = "event" => BindSent(k),
         Send(t, op, k)
  PROVE  /\ \A h \in Keys : BindSent(h) => BindSent(h)'
         /\ op = "bind" => BindSent(k)'
         /\ EventsInv'
<1> DEFINE n == Len(wire)
<1>0. /\ Len(wire') = Len(wire) + 1
      /\ \A i \in 1..Len(wire) : wire'[i] = wire[i]
      /\ wire'[Len(wire')] = [op |-> op, key |-> k, by |-> t]
  BY SendType
<1>1. n \in Nat /\ Len(wire') = n + 1
  BY <1>0 DEF TypeInv, TypeOK
<1>2. /\ \A i \in 1..n : wire'[i] = wire[i]
      /\ wire'[n + 1] = [op |-> op, key |-> k, by |-> t]
  BY <1>0
<1> HIDE DEF n
<1>3. ASSUME NEW h \in Keys, BindSent(h) PROVE BindSent(h)'
  BY <1>1, <1>2, <1>3 DEF BindSent, BoundBefore, n
<1>4. ASSUME op = "bind" PROVE BindSent(k)'
  BY <1>1, <1>2, <1>4 DEF BindSent, BoundBefore
<1>5. ASSUME NEW i \in 1..Len(wire'), wire'[i].op = "event"
      PROVE  BoundBefore(wire[i].key, i - 1)'
  <2>1. CASE i \in 1..n
    <3>1. BoundBefore(wire[i].key, i - 1) /\ wire'[i] = wire[i]
      BY <1>2, <1>5, <2>1 DEF EventsInv, n
    <3>2. QED
      BY <1>1, <1>2, <2>1, <3>1 DEF BoundBefore, n
  <2>2. CASE i = n + 1
    <3>1. op = "event" /\ wire'[i].key = k
      BY <1>2, <1>5, <2>2
    <3>2. BoundBefore(k, n)
      BY <3>1 DEF n, BindSent
    <3>3. QED
      BY <1>1, <1>2, <2>2, <3>1, <3>2 DEF BoundBefore, n
  <2>3. QED
    BY <1>1, <1>5, <2>1, <2>2
<1>6. QED
  BY <1>3, <1>4, <1>5 DEF EventsInv, n

\* The broker's step keeps them as well, and finds the key of an event bound.
LEMMA BrokerOrder ==
  ASSUME TypeInv, EventsInv, Broker
  PROVE  /\ \A h \in Keys : BindSent(h) => BindSent(h)'
         /\ EventsInv'
         /\ lost' = lost
<1> DEFINE n == Len(wire)
<1>1. /\ n \in Nat \ {0} /\ Len(wire') = n - 1
      /\ \A i \in 1..n - 1 : wire'[i] = wire[i + 1]
      /\ Head(wire) = wire[1]
  BY TailType DEF Broker
<1>2. /\ bound \subseteq bound'
      /\ wire[1].op = "bind" => wire[1].key \in bound'
  BY <1>1 DEF Broker
<1> HIDE DEF n
<1>3. ASSUME NEW h, NEW m \in 0..n, BoundBefore(h, m)
      PROVE  h \in bound' \/ \E j \in 1..m - 1 :
               j <= Len(wire') /\ wire'[j].op = "bind" /\ wire'[j].key = h
  <2>1. CASE h \in bound
    BY <1>2, <2>1
  <2>2. ASSUME NEW j \in 1..m, wire[j].op = "bind", wire[j].key = h
        PROVE  h \in bound' \/ \E i \in 1..m - 1 :
                 i <= Len(wire') /\ wire'[i].op = "bind" /\ wire'[i].key = h
    <3>1. CASE j = 1
      BY <1>2, <2>2, <3>1
    <3>2. CASE j # 1
      <4>1. j - 1 \in 1..m - 1 /\ j - 1 <= Len(wire') /\ j - 1 \in 1..n - 1
        BY <1>1, <3>2
      <4>2. wire'[j - 1] = wire[j]
        BY <1>1, <4>1
      <4>3. QED
        BY <2>2, <4>1, <4>2
    <3>3. QED
      BY <3>1, <3>2
  <2>3. QED
    BY <1>3, <2>1, <2>2 DEF BoundBefore
<1>4. ASSUME NEW i \in 1..Len(wire'), wire'[i].op = "event"
      PROVE  BoundBefore(wire[i].key, i - 1)'
  <2>1. i + 1 \in 1..n /\ wire'[i] = wire[i + 1] /\ i \in 0..n
    BY <1>1
  <2>2. BoundBefore(wire[i + 1].key, i)
    BY <1>4, <2>1 DEF EventsInv, n
  <2>3. QED
    BY <1>3, <2>1, <2>2 DEF BoundBefore
<1>5. lost' = lost
  <2>1. wire[1].op = "event" => BoundBefore(wire[1].key, 0)
    BY <1>1 DEF EventsInv, n
  <2>2. wire[1].op = "event" => wire[1].key \in bound
    BY <2>1 DEF BoundBefore
  <2>3. QED
    BY <1>1, <2>2 DEF Broker
<1>6. \A h \in Keys : BindSent(h) => BindSent(h)'
  BY <1>1, <1>3 DEF n, BindSent, BoundBefore
<1>7. QED
  BY <1>4, <1>5, <1>6 DEF EventsInv

\* A step of a thread that ends after the bind has left it, for its own key.
LEMMA ThreadOrder ==
  ASSUME TypeInv, OrderInv, NEW t \in Threads,
         \A h \in Keys : BindSent(h) => BindSent(h)', EventsInv', UNCHANGED lost,
         \A u \in Threads \ {t} : pc'[u] = pc[u] /\ key'[u] = key[u],
         pc'[t] \in AfterBind => key'[t] \in Keys /\ BindSent(key[t])',
         \A k \in routing_keys' \ routing_keys : k \in Keys /\ BindSent(k)
  PROVE  OrderInv'
<1>1. SetInv'
  BY DEF OrderInv, SetInv, TypeInv, TypeOK
<1>2. ThreadsInv'
  <2>1. ASSUME NEW u \in Threads \ {t}, pc[u] \in AfterBind PROVE BindSent(key[u])'
    <3>1. key[u] \in Keys /\ BindSent(key[u])
      BY <2>1 DEF OrderInv, ThreadsInv, AfterBind, TypeInv, KeysInv, Publishing
    <3>2. QED
      BY <3>1 DEF BindSent, BoundBefore
  <2>2. QED
    BY <2>1 DEF ThreadsInv
<1>3. QED
  BY <1>1, <1>2 DEF OrderInv, NoEventLost

\* After its bind a thread's key is bound or its bind is on the way; that lasts.
LEMMA AfterSent ==
  ASSUME TypeInv, OrderInv, NEW t \in Threads, pc[t] \in AfterBind
  PROVE  key[t] \in Keys /\ BindSent(key[t])
BY DEF OrderInv, ThreadsInv, AfterBind, TypeInv, KeysInv, Publishing

LEMMA StillSent ==
  ASSUME NEW t \in Threads, key[t] \in Keys, BindSent(key[t]), key'[t] = key[t],
         \A h \in Keys : BindSent(h) => BindSent(h)'
  PROVE  key'[t] \in Keys /\ BindSent(key[t])'
BY DEF BindSent, BoundBefore

LEMMA OrderStep == TypeInv /\ OrderInv /\ [Next]_vars => OrderInv'
<1> SUFFICES ASSUME TypeInv, OrderInv, [Next]_vars PROVE OrderInv'
  OBVIOUS
<1> USE DEF Goto, threadVars, flagVars, brokerVars
<1>1. ASSUME NEW t \in Threads, Begin(t) \/ WakeUnnotified(t) PROVE OrderInv'
  <2>1. UNCHANGED <<wire, bound, lost, routing_keys>>
    BY <1>1 DEF Begin, WakeUnnotified, Step
  <2>2. \A u \in Threads \ {t} : pc'[u] = pc[u] /\ key'[u] = key[u]
    BY <1>1 DEF Begin, WakeUnnotified, Step, TypeInv, TypeOK
  <2>3. pc'[t] \in AfterBind => key'[t] = key[t] /\ pc[t] \in AfterBind
    BY <1>1 DEF Begin, WakeUnnotified, Step, AfterBind, TypeInv, TypeOK
  <2>4. QED
    BY <2>1, <2>2, <2>3, SameWire, ThreadOrder, AfterSent, StillSent DEF OrderInv
<1>2. ASSUME NEW t \in Threads, UseStep(t) PROVE OrderInv'
  <2>1. CASE Lookup(t)
    <3>1. UNCHANGED <<wire, bound, lost, routing_keys, key>>
      BY <2>1 DEF Lookup
    <3>2. \A u \in Threads \ {t} : pc'[u] = pc[u]
      BY <2>1 DEF Lookup, TypeInv, TypeOK
    <3>3. pc'[t] \in AfterBind => key[t] \in routing_keys
      BY <2>1 DEF Lookup, AfterBind, TypeInv, TypeOK
    <3>4. pc'[t] \in AfterBind => key[t] \in Keys /\ BindSent(key[t])
      BY <3>3 DEF OrderInv, SetInv, TypeInv, TypeOK
    <3>5. QED
      BY <3>1, <3>2, <3>4, SameWire, ThreadOrder, StillSent DEF OrderInv
  <2>2. CASE Declare(t)
    <3>1. key[t] \in Keys
      BY <2>2 DEF Declare, NewKey, TypeInv, KeysInv, Publishing
    <3>2. /\ UNCHANGED <<bound, lost, routing_keys, key>>
          /\ Send(t, "declare", key[t])
      BY <2>2 DEF Declare, NewKey, RoutingKey
    <3>3. (\A h \in Keys : BindSent(h) => BindSent(h)') /\ EventsInv'
      BY <3>1, <3>2, SendOrder DEF OrderInv
    <3>4. /\ \A u \in Threads \ {t} : pc'[u] = pc[u]
          /\ pc'[t] \notin AfterBind
      BY <2>2 DEF Declare, NewKey, Following, AfterBind, TypeInv, TypeOK
    <3>5. QED
      BY <3>2, <3>3, <3>4, ThreadOrder
  <2>3. CASE Bind(t)
    <3>1. key[t] \in Keys
      BY <2>3 DEF Bind, NewKey, TypeInv, KeysInv, Publishing
    <3>2. /\ UNCHANGED <<bound, lost, routing_keys, key>>
          /\ Send(t, "bind", key[t])
      BY <2>3 DEF Bind, NewKey, RoutingKey
    <3>3. /\ \A h \in Keys : BindSent(h) => BindSent(h)'
          /\ EventsInv'
      BY <3>1, <3>2, SendOrder DEF OrderInv
    <3>4. BindSent(key[t])'
      <4>1. ASSUME NEW k \in Keys, k = key[t] PROVE BindSent(k)'
        BY <3>2, <4>1, SendOrder DEF OrderInv
      <4>2. QED
        BY <3>1, <3>2, <4>1 DEF BindSent, BoundBefore
    <3>5. \A u \in Threads \ {t} : pc'[u] = pc[u]
      BY <2>3 DEF Bind, NewKey, TypeInv, TypeOK
    <3>6. QED
      BY <3>1, <3>2, <3>3, <3>4, <3>5, ThreadOrder
  <2>9. CASE RegisterCallback(t)
    <3>1. UNCHANGED <<wire, bound, lost, routing_keys, key>>
      BY <2>9 DEF RegisterCallback
    <3>2. pc[t] \in AfterBind /\ \A u \in Threads \ {t} : pc'[u] = pc[u]
      BY <2>9 DEF RegisterCallback, AfterBind, TypeInv, TypeOK
    <3>3. QED
      BY <3>1, <3>2, SameWire, ThreadOrder, AfterSent, StillSent DEF OrderInv
  <2>4. CASE Insert(t)
    <3>1. UNCHANGED <<wire, bound, lost, key>>
      BY <2>4 DEF Insert
    <3>2. key[t] \in Keys /\ BindSent(key[t])
      BY <2>4, AfterSent DEF Insert, AfterBind
    <3>3. /\ \A u \in Threads \ {t} : pc'[u] = pc[u]
          /\ routing_keys' \subseteq routing_keys \cup {key[t]}
      BY <2>4 DEF Insert, TypeInv, TypeOK
    <3>4. QED
      BY <3>1, <3>2, <3>3, SameWire, ThreadOrder, StillSent DEF OrderInv
  <2>5. CASE LockPub(t) \/ Check(t) \/ Sleep(t) \/ Wake(t) \/ LockSend(t)
    <3>1. UNCHANGED <<wire, bound, lost, routing_keys, key>>
      BY <2>5 DEF LockPub, Check, Sleep, Wake, LockSend, Step
    <3>2. /\ \A u \in Threads \ {t} : pc'[u] = pc[u]
          /\ pc'[t] \in AfterBind => pc[t] \in AfterBind
      BY <2>5 DEF LockPub, Check, Sleep, Wake, LockSend, Step, AfterBind, TypeInv, TypeOK
    <3>3. QED
      BY <3>1, <3>2, SameWire, ThreadOrder, AfterSent, StillSent DEF OrderInv
  <2>6. CASE Publish(t)
    <3>1. key[t] \in Keys /\ BindSent(key[t])
      BY <2>6, AfterSent DEF Publish, AfterBind
    <3>2. UNCHANGED <<bound, lost, routing_keys>> /\ Send(t, "event", key[t])
      BY <2>6 DEF Publish
    <3>3. (\A h \in Keys : BindSent(h) => BindSent(h)') /\ EventsInv'
      BY <3>1, <3>2, SendOrder DEF OrderInv
    <3>4. /\ \A u \in Threads \ {t} : pc'[u] = pc[u] /\ key'[u] = key[u]
          /\ pc'[t] \notin AfterBind
      BY <2>6 DEF Publish, AfterBind, TypeInv, TypeOK
    <3>5. QED
      BY <3>2, <3>3, <3>4, ThreadOrder
  <2>7. CASE Request(t)
    <3>1. UNCHANGED <<bound, lost, routing_keys, key>> /\ Send(t, "request", None)
      BY <2>7 DEF Request
    <3>2. (\A h \in Keys : BindSent(h) => BindSent(h)') /\ EventsInv'
      BY <3>1, SendOrder DEF OrderInv
    <3>3. /\ \A u \in Threads \ {t} : pc'[u] = pc[u]
          /\ pc'[t] \notin AfterBind
      BY <2>7 DEF Request, AfterBind, TypeInv, TypeOK
    <3>4. QED
      BY <3>1, <3>2, <3>3, ThreadOrder
  <2>8. QED
    BY <1>2, <2>1, <2>2, <2>3, <2>4, <2>5, <2>6, <2>7, <2>9 DEF UseStep
<1>3. CASE LoopStep
  <2>1. UNCHANGED <<wire, bound, lost, routing_keys, key>>
    BY <1>3 DEF LoopStep, OnBound, NotifyAll
  <2>2. ASSUME NEW t \in Threads, pc'[t] \in AfterBind PROVE pc[t] \in AfterBind
    BY <1>3, <2>2 DEF LoopStep, OnBound, NotifyAll, Notified, Sleeping, AfterBind
  <2>3. SetInv' /\ ThreadsInv'
    BY <2>1, <2>2 DEF OrderInv, SetInv, ThreadsInv, BindSent, BoundBefore
  <2>4. QED
    BY <2>1, <2>3, SameWire DEF OrderInv, NoEventLost
<1>4. CASE BrokerStep
  <2>1. /\ \A h \in Keys : BindSent(h) => BindSent(h)'
        /\ EventsInv' /\ lost' = lost
    BY <1>4, BrokerOrder DEF BrokerStep, OrderInv
  <2>2. UNCHANGED <<pc, key, routing_keys>>
    BY <1>4 DEF BrokerStep, Broker
  <2>3. SetInv'
    BY <2>1, <2>2 DEF OrderInv, SetInv, TypeInv, TypeOK
  <2>4. ASSUME NEW t \in Threads, pc'[t] \in AfterBind PROVE BindSent(key[t])'
    BY <2>1, <2>2, <2>4, AfterSent, StillSent
  <2>5. QED
    BY <2>1, <2>3, <2>4 DEF OrderInv, ThreadsInv, NoEventLost
<1>5. CASE UNCHANGED vars
  <2>1. UNCHANGED <<wire, bound, lost, routing_keys, key, pc>>
    BY <1>5 DEF vars
  <2>2. SetInv' /\ ThreadsInv'
    BY <2>1 DEF OrderInv, SetInv, ThreadsInv, BindSent, BoundBefore
  <2>3. QED
    BY <2>1, <2>2, SameWire DEF OrderInv, NoEventLost
<1>6. QED
  BY <1>1, <1>2, <1>3, <1>4, <1>5 DEF Next, ThreadStep

(* NoEventLost: no event reaches the broker before the bind of its key,    *)
(* although publish only waits for the first bind of any key.              *)
THEOREM NothingLost == Spec => []NoEventLost
<1>1. OrderInv => NoEventLost
  BY DEF OrderInv
<1>2. QED
  BY <1>1, TypeInit, TypeStep, OrderInit, OrderStep, PTL DEF Spec
==============================================================================
