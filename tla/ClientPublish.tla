---------------------------- MODULE ClientPublish ----------------------------
(***************************************************************************)
(* The event half of MessageQueueClient: application threads in publish    *)
(* (include/client.inl) share the set routing_keys_, the flag              *)
(* pub_queue_inited with its mutex and condition variable, and             *)
(* send_channel with the event-loop thread and with call_async.            *)
(*                                                                         *)
(* The first publish of a routing key declares and binds its queue, without *)
(* any lock; every publish then waits, at most once, for the callback of   *)
(* some bind, and sends its event under pub_mtx and send_mtx.  The         *)
(* callback sets the flag and notifies without taking pub_mtx.  It is      *)
(* registered after the bind has left: a bind-ok that is handled before    *)
(* finds no callback.                                                      *)
(*                                                                         *)
(* Outside src/ and modelled from how it is used: std::set,                *)
(* std::condition_variable, AMQP::TcpChannel (frames leave in the order of *)
(* the calls) and the broker (serves them in that order).                  *)
(***************************************************************************)
EXTENDS Naturals, Sequences

CONSTANTS
  Threads,         \* application threads that share one client
  Keys,            \* routing keys
  MaxUses,         \* bound: how often the threads publish or call, in all
  SetRaces,        \* do overlapping accesses to routing_keys_ go wrong?
  SpuriousWakeups, \* does the condition variable wake up unnotified?
  None             \* no thread, no key

ASSUME ThreadsAssumption == None \notin Threads
ASSUME KeysAssumption == None \notin Keys
ASSUME MaxUsesAssumption == MaxUses \in Nat
ASSUME PlatformAssumption == SetRaces \in BOOLEAN /\ SpuriousWakeups \in BOOLEAN

VARIABLES
  pc,            \* where each thread is in publish or call_async
  key,           \* the routing key of the event each thread is publishing
  uses,          \* how often the threads have used the client
  routing_keys,  \* routing_keys_: the keys publish has bound
  inited,        \* pub_queue_inited
  pub_mtx,       \* holder of pub_mtx
  send_mtx,      \* holder of send_mtx
  wire,          \* frames of send_channel the broker has not served
  bound,         \* keys whose queue the broker has bound to the exchange
  acks,          \* how many bind-oks for each thread the event loop has not handled
  loop,          \* the callback of a bind-ok: "idle", or between its two steps
  lost,          \* keys of events the broker could not route
  fault          \* why the process died, or "none"

threadVars == <<pc, key, uses>>
flagVars == <<inited, pub_mtx>>
brokerVars == <<bound, acks, lost>>
vars == <<threadVars, routing_keys, flagVars, send_mtx, wire, brokerVars, loop, fault>>

\* Inside a call on send_channel; the last two hold send_mtx.
InChannel == {"declaring", "binding", "publishing", "requesting"}
Locations == InChannel \cup
  {"idle", "lookup", "registering", "inserting", "locking", "checking", "dozing",
   "waiting", "woken", "to_send", "request"}
Frames == [op : {"declare", "bind", "event", "request"}, key : Keys \cup {None},
           by : Threads]

Init ==
  /\ pc = [t \in Threads |-> "idle"]
  /\ key = [t \in Threads |-> None]
  /\ uses = 0
  /\ routing_keys = {}
  /\ inited = FALSE
  /\ pub_mtx = None
  /\ send_mtx = None
  /\ wire = <<>>
  /\ bound = {}
  /\ acks = [t \in Threads |-> 0]
  /\ loop = "idle"
  /\ lost = {}
  /\ fault = "none"

Goto(t, l) == pc' = [pc EXCEPT ![t] = l]
Send(t, op, k) == wire' = Append(wire, [op |-> op, key |-> k, by |-> t])

-----------------------------------------------------------------------------
(* publish, up to the mutex: no lock is held.                              *)

Begin(t) ==
  /\ pc[t] = "idle"
  /\ uses < MaxUses
  /\ uses' = uses + 1
  /\ \/ \E k \in Keys : key' = [key EXCEPT ![t] = k] /\ Goto(t, "lookup")
     \/ Goto(t, "request") /\ UNCHANGED key
  /\ UNCHANGED <<routing_keys, flagVars, send_mtx, wire, brokerVars, loop, fault>>

\* Another thread is changing the tree of routing_keys_: a find may miss a key,
\* of two inserts one may be lost, and either may follow a dangling node.
Racing(t) == SetRaces /\ \E u \in Threads \ {t} : pc[u] = "inserting"

\* Fault variant: the key counts as bound before its bind has left.
InsertThenBind ==
  [declaring |-> "inserting", inserting |-> "binding", binding |-> "registering",
   registering |-> "locking"]

\* What follows what when a routing key is new.
Following ==
  [declaring |-> "binding", binding |-> "registering", registering |-> "inserting",
   inserting |-> "locking"]

Lookup(t) ==
  /\ pc[t] = "lookup"
  /\ \/ key[t] \in routing_keys /\ Goto(t, "locking") /\ UNCHANGED fault
     \/ /\ key[t] \notin routing_keys \/ Racing(t)
        /\ Goto(t, "declaring")
        /\ UNCHANGED fault
     \/ Racing(t) /\ fault' = "set_race" /\ UNCHANGED pc
  /\ UNCHANGED <<key, uses, routing_keys, flagVars, send_mtx, wire, brokerVars, loop>>

\* Fault variant: the queue is bound without a key.
NoRoutingKey(t) == None

RoutingKey(t) == key[t]

\* declareQueue and bindQueue.
NewKey(t, from, op) ==
  /\ pc[t] = from
  /\ Send(t, op, RoutingKey(t))
  /\ Goto(t, Following[from])
  /\ UNCHANGED <<key, uses, routing_keys, flagVars, send_mtx, brokerVars, loop, fault>>

Declare(t) == NewKey(t, "declaring", "declare")
Bind(t) == NewKey(t, "binding", "bind")

\* A bind of t is not served yet.
OnWire(t) == \E i \in DOMAIN wire : wire[i].op = "bind" /\ wire[i].by = t

\* onSuccess, on an object that belongs to the channel: once the bind-ok has been
\* handled it may be freed, and what is registered there is never called.
RegisterCallback(t) ==
  /\ pc[t] = "registering"
  /\ \/ UNCHANGED fault
     \/ acks[t] = 0 /\ ~OnWire(t) /\ fault' = "freed_deferred"
  /\ Goto(t, Following["registering"])
  /\ UNCHANGED <<key, uses, routing_keys, flagVars, send_mtx, wire, brokerVars, loop>>

Insert(t) ==
  /\ pc[t] = "inserting"
  /\ \/ routing_keys' = routing_keys \cup {key[t]} /\ UNCHANGED fault
     \/ Racing(t) /\ UNCHANGED <<routing_keys, fault>>
     \/ Racing(t) /\ fault' = "set_race" /\ UNCHANGED routing_keys
  /\ Goto(t, Following["inserting"])
  /\ UNCHANGED <<key, uses, flagVars, send_mtx, wire, brokerVars, loop>>

-----------------------------------------------------------------------------
(* publish, under pub_mtx.                                                 *)

\* A step that only moves t on and hands pub_mtx to the thread m, or to None.
Step(t, from, to, m) ==
  /\ pc[t] = from
  /\ Goto(t, to)
  /\ pub_mtx' = m
  /\ UNCHANGED <<key, uses, routing_keys, inited, send_mtx, wire, brokerVars, loop, fault>>

LockPub(t) == pub_mtx = None /\ Step(t, "locking", "checking", t)

\* Fault variant: it waits although the flag is up.
AlwaysWait == "dozing"

\* if (!pub_queue_inited)
Checked == IF inited THEN "to_send" ELSE "dozing"

\* The callback may raise the flag between the check and the wait.
Check(t) == Step(t, "checking", Checked, t)

\* pub_cv.wait(lock) puts the thread to sleep and gives up pub_mtx.
Sleep(t) == Step(t, "dozing", "waiting", None)

\* The wait is over when pub_mtx is taken again; the flag is not read again.
Wake(t) == pub_mtx = None /\ Step(t, "woken", "to_send", t)
WakeUnnotified(t) ==
  SpuriousWakeups /\ pub_mtx = None /\ Step(t, "waiting", "to_send", t)

LockSend(t) ==
  /\ \/ pc[t] = "to_send" /\ Goto(t, "publishing")
     \/ pc[t] = "request" /\ Goto(t, "requesting")
  /\ send_mtx = None
  /\ send_mtx' = t
  /\ UNCHANGED <<key, uses, routing_keys, flagVars, wire, brokerVars, loop, fault>>

Publish(t) ==
  /\ pc[t] = "publishing"
  /\ Send(t, "event", key[t])
  /\ send_mtx' = None
  /\ pub_mtx' = None
  /\ Goto(t, "idle")
  /\ key' = [key EXCEPT ![t] = None]
  /\ UNCHANGED <<uses, routing_keys, inited, brokerVars, loop, fault>>

\* The end of call_async, on the same channel.
Request(t) ==
  /\ pc[t] = "requesting"
  /\ Send(t, "request", None)
  /\ send_mtx' = None
  /\ Goto(t, "idle")
  /\ UNCHANGED <<key, uses, routing_keys, flagVars, brokerVars, loop, fault>>

-----------------------------------------------------------------------------
(* The event-loop thread: the callback of bindQueue.                       *)

RaiseFlag == inited' = TRUE

\* The next bind-ok for t is that of the bind whose callback is not registered yet.
Unheard(t) == pc[t] = "registering" /\ acks[t] = 1 /\ ~OnWire(t)

OnBound ==
  /\ loop = "idle"
  /\ \E t \in Threads :
       /\ acks[t] > 0
       /\ acks' = [acks EXCEPT ![t] = @ - 1]
       /\ \/ ~Unheard(t) /\ RaiseFlag /\ loop' = "notify"
          \/ Unheard(t) /\ UNCHANGED <<inited, loop>>
  /\ UNCHANGED <<threadVars, routing_keys, pub_mtx, send_mtx, wire, bound, lost, fault>>

Sleeping == {t \in Threads : pc[t] = "waiting"}

\* Fault variant: notify_one.
NotifiedOne == IF Sleeping = {} THEN {} ELSE {CHOOSE t \in Sleeping : TRUE}
Notified == Sleeping

NotifyAll ==
  /\ loop = "notify"
  /\ loop' = "idle"
  /\ pc' = [t \in Threads |-> IF t \in Notified THEN "woken" ELSE pc[t]]
  /\ UNCHANGED <<key, uses, routing_keys, flagVars, send_mtx, wire, brokerVars, fault>>

\* The broker serves the frames of the channel in order; an event without a
\* bound queue is dropped.
Broker ==
  /\ wire # <<>>
  /\ wire' = Tail(wire)
  /\ LET f == Head(wire) IN
       /\ bound' = IF f.op = "bind" THEN bound \cup {f.key} ELSE bound
       /\ acks' = IF f.op = "bind" THEN [acks EXCEPT ![f.by] = @ + 1] ELSE acks
       /\ lost' = IF f.op = "event" /\ f.key \notin bound
                  THEN lost \cup {f.key} ELSE lost
  /\ UNCHANGED <<threadVars, routing_keys, flagVars, send_mtx, loop, fault>>

-----------------------------------------------------------------------------
Alive == fault = "none"

UseStep(t) ==
  \/ Lookup(t) \/ Declare(t) \/ Bind(t) \/ RegisterCallback(t) \/ Insert(t)
  \/ LockPub(t) \/ Check(t) \/ Sleep(t) \/ Wake(t)
  \/ LockSend(t) \/ Publish(t) \/ Request(t)

ThreadStep(t) == Alive /\ UseStep(t)
LoopStep == Alive /\ (OnBound \/ NotifyAll)
BrokerStep == Alive /\ Broker

Next ==
  \/ \E t \in Threads : Alive /\ (Begin(t) \/ WakeUnnotified(t))
  \/ \E t \in Threads : ThreadStep(t)
  \/ LoopStep
  \/ BrokerStep

Spec == Init /\ [][Next]_vars

\* Threads that can run do run, and the broker serves the connection.  Nobody has
\* to use the client, and no wake-up has to be spurious.
FairSpec ==
  /\ Spec
  /\ \A t \in Threads : WF_vars(ThreadStep(t))
  /\ WF_vars(LoopStep)
  /\ WF_vars(BrokerStep)

-----------------------------------------------------------------------------
(* Properties.                                                             *)

\* Type correctness of every variable of the module.
TypeOK ==
  /\ pc \in [Threads -> Locations]
  /\ key \in [Threads -> Keys \cup {None}]
  /\ uses \in 0..MaxUses
  /\ routing_keys \subseteq Keys
  /\ inited \in BOOLEAN
  /\ pub_mtx \in Threads \cup {None}
  /\ send_mtx \in Threads \cup {None}
  /\ wire \in Seq(Frames)
  /\ bound \subseteq Keys
  /\ acks \in [Threads -> Nat]
  /\ loop \in {"idle", "notify"}
  /\ lost \subseteq Keys
  /\ fault \in {"none", "set_race", "freed_deferred"}

\* No event reaches the broker before the queue of its routing key is bound:
\* one flag for all keys is enough, because a key enters routing_keys_ only after
\* its bind has left on the same channel, also when the accesses to the set race.
NoEventLost == lost = {}

\* A bind-ok that will find a callback is to come.
Awaited(t) ==
  IF pc[t] = "registering" THEN acks[t] > 1 \/ (acks[t] = 1 /\ OnWire(t))
  ELSE acks[t] > 0 \/ OnWire(t)

\* Every publish returns whose callback was registered in time.
PublishReturns ==
  \A t \in Threads :
    (pc[t] = "locking" /\ (inited \/ Awaited(t))) ~> pc[t] = "idle"

\* A call_async gets its request out, and a publish that starts when the flag is up
\* returns, even while another thread sleeps on pub_cv for ever, unless the process
\* dies.
LateUsesReturn ==
  \A t \in Threads :
    (pc[t] = "request" \/ (pc[t] = "lookup" /\ inited)) ~> (pc[t] = "idle" \/ ~Alive)

\* A thread that sleeps before the flag goes up is woken by the first bind-ok that finds
\* a callback, whoever's bind it is; all sleepers are, not only one.  A bind-ok that
\* comes before its callback is registered wakes nobody.
SleepersWake ==
  \A t \in Threads :
    (pc[t] = "waiting" /\ ~inited /\ \E u \in Threads : Awaited(u)) ~>
      (pc[t] # "waiting" \/ ~Alive)
==============================================================================
