---------------------------- MODULE ServerEvents -----------------------------
(***************************************************************************)
(* The event half of MessageQueueServer (include/server.h, server.inl,     *)
(* src/server.cc): for every event of the durable event queue the event-   *)
(* loop thread walks over the handlers of its type and queues one task     *)
(* each; a worker of the pool looks the handler up again and runs it.      *)
(* Nothing guards event_handler_map and evt_cb_id, which application       *)
(* threads may change while the server runs.                               *)
(*                                                                         *)
(* An entry of event_handler_map is a record: type, id and the callback.   *)
(***************************************************************************)
EXTENDS ThreadPool, FiniteSetsExt

CONSTANTS
  Events,      \* events clients may publish; each is published once
  Types,       \* event types
  Callbacks,   \* callbacks the application may register, once each
  TypeOf,      \* [Callbacks -> Types]: the type each is registered for
  Apps,        \* application threads that register and unregister
  Erasers,     \* those of them that call unregister_event_handler
  Forms,       \* shapes of an event body, a subset of EventForms
  Ends,        \* how callbacks end, a subset of CallbackEnds
  MapRaces     \* do overlapping accesses to event_handler_map go wrong?

EventForms == {"plain", "malformed"}
CallbackEnds == {"value", "runtime_error", "exception"}
CbIds == 1..Cardinality(Callbacks)

ASSUME TypesAssumption == TypeOf \in [Callbacks -> Types] /\ None \notin Types
ASSUME CallbacksAssumption == IsFiniteSet(Callbacks) /\ None \notin Callbacks
ASSUME ShapesAssumption == Forms \subseteq EventForms /\ Ends \subseteq CallbackEnds
ASSUME PlatformAssumption == MapRaces \in BOOLEAN /\ Erasers \subseteq Apps

VARIABLES
  evt,                \* the [type, form] of each published event, or None
  due,                \* history: the callbacks registered when it was published
  pending,            \* events in the event queue of the broker, oldest first
  types,              \* the keys of event_handler_map
  event_handler_map,  \* its entries
  evt_cb_id,          \* the last callback id
  edit,               \* what each application thread is doing to the map
  given,              \* history: the id each callback was registered under
  erased,             \* history: the ids unregister_event_handler was called with
  cursor,             \* the event loop's walk over the handlers, or None
  at,                 \* where each worker is in _event_worker
  runs,               \* history: how often each callback was run for each event
  hollow,             \* empty functions that operator[] put into the map
  overlapped,         \* history: did two changes of the map overlap?
  missed,             \* history: the events whose type a racing find missed
  fault               \* why the process died, or "none"

brokerVars == <<evt, due, pending>>
mapVars == <<types, event_handler_map, hollow>>
editVars == <<evt_cb_id, edit, given, erased, overlapped>>
walkVars == <<cursor, missed>>
vars == <<poolVars, brokerVars, mapVars, editVars, walkVars, at, runs, fault>>

Entries == [type : Types, id : CbIds, cb : Callbacks]
Tasks == [event : Events, id : CbIds]
Edits ==
  [do : {"assign", "count", "insert"}, cb : Callbacks] \cup [do : {"erase"}, id : CbIds]
Published == [type : Types, form : Forms]
Walks == [event : Events, last : CbIds \cup {0}]

ASSUME NoneAssumption == None \notin Tasks \cup Edits \cup Published \cup Walks

Init ==
  /\ PoolInit
  /\ evt = [e \in Events |-> None]
  /\ due = [e \in Events |-> {}]
  /\ pending = <<>>
  /\ types = {}
  /\ event_handler_map = {}
  /\ evt_cb_id = 0
  /\ edit = [a \in Apps |-> None]
  /\ given = [c \in Callbacks |-> 0]
  /\ erased = {}
  /\ cursor = None
  /\ at = [w \in Workers |-> "start"]
  /\ runs = [e \in Events |-> [c \in Callbacks |-> 0]]
  /\ hollow = {}
  /\ overlapped = FALSE
  /\ missed = {}
  /\ fault = "none"

Alive == fault = "none"
Terminate(why) == fault' = why
Registered(c) == \E h \in event_handler_map : h.cb = c
Handlers(ty) == {h \in event_handler_map : h.type = ty}

\* Fault variant: the find is dropped, every registration starts with an empty map.
NewType(ty) == FALSE

\* event_handler_map.find
KnownType(ty) == ty \in types

\* Fault variant: the handler is looked up by its id alone.
HandlersOfId(t) == {h \in event_handler_map : h.id = t.id}

\* event_handler_map[event_type][cb_id]: one entry or, when it is gone, none.
HandlerOf(t) == {h \in Handlers(evt[t.event].type) : h.id = t.id}

-----------------------------------------------------------------------------
(* The clients and the broker.                                             *)

PublishEvent(e, ty, f) ==
  /\ evt[e] = None
  /\ evt' = [evt EXCEPT ![e] = [type |-> ty, form |-> f]]
  /\ due' = [due EXCEPT ![e] = {h.cb : h \in Handlers(ty)}]
  /\ pending' = Append(pending, e)
  /\ UNCHANGED <<poolVars, mapVars, editVars, walkVars, at, runs, fault>>

-----------------------------------------------------------------------------
(* register_event_handler and unregister_event_handler.                    *)

\* Fault variants: the handlers of the type are counted in; evt_cb_id is not increased.
NextIdAndSize(ty) == evt_cb_id + Cardinality(Handlers(ty)) + 1
SameId(ty) == evt_cb_id

\* evt_cb_id++
NextId(ty) == evt_cb_id + 1

Registering(a) == edit[a] # None /\ edit[a].do # "erase"
Inserting(a) == Registering(a) /\ edit[a].do = "insert"
Overlapping(a) == \E b \in Apps \ {a} : edit[b] # None

\* A worker is in the callback of this entry.
InUse(h) == \E w \in Workers : at[w] = "run" /\ h \in HandlerOf(job[w])

\* Handlers leave the map and others enter it.  To destroy the std::function a worker
\* runs, or to change a map another thread changes, is undefined: the process may die.
Change(a, gone, new) ==
  /\ event_handler_map' = (event_handler_map \ gone) \cup new
  /\ \/ UNCHANGED fault
     \/ (\E h \in gone : InUse(h)) /\ Terminate("erased_handler")
     \/ MapRaces /\ Overlapping(a) /\ Terminate("map_race")

\* The find of register_event_handler: a type without a map is assigned one next.
\* A racing find may miss the type.
Register(a, c) ==
  /\ edit[a] = None
  /\ given[c] = 0
  /\ \A b \in Apps : Registering(b) => edit[b].cb # c
  /\ \/ /\ KnownType(TypeOf[c])
        /\ edit' = [edit EXCEPT ![a] = [do |-> "count", cb |-> c]]
     \/ /\ ~KnownType(TypeOf[c]) \/ (MapRaces /\ Overlapping(a))
        /\ edit' = [edit EXCEPT ![a] = [do |-> "assign", cb |-> c]]
  /\ overlapped' = (overlapped \/ Overlapping(a))
  /\ UNCHANGED <<poolVars, brokerVars, mapVars, evt_cb_id, given, erased, walkVars, at,
                 runs, fault>>

\* event_handler_map[event_type] = {}: handlers another thread has inserted for the
\* type since the find are wiped out.
Assign(a) ==
  /\ Registering(a) /\ edit[a].do = "assign"
  /\ LET ty == TypeOf[edit[a].cb]
     IN types' = types \cup {ty} /\ Change(a, Handlers(ty), {})
  /\ edit' = [edit EXCEPT ![a] = [do |-> "count", cb |-> edit[a].cb]]
  /\ UNCHANGED <<poolVars, brokerVars, hollow, evt_cb_id, given, erased, overlapped,
                 walkVars, at, runs>>

\* The callback gets its id.
Count(a) ==
  /\ Registering(a) /\ edit[a].do = "count"
  /\ evt_cb_id' = NextId(TypeOf[edit[a].cb])
  /\ edit' = [edit EXCEPT ![a] = [do |-> "insert", cb |-> edit[a].cb]]
  /\ UNCHANGED <<poolVars, brokerVars, mapVars, given, erased, overlapped, walkVars, at,
                 runs, fault>>

\* int id = evt_cb_id; assert; handler_map[id] = ...: another thread may have
\* incremented evt_cb_id in between.  An id that is taken fails the assertion or,
\* when assertions are compiled out, its handler is replaced.
Insert(a) ==
  /\ Inserting(a)
  /\ LET c == edit[a].cb
         same == {h \in Handlers(TypeOf[c]) : h.id = evt_cb_id}
     IN \/ /\ same # {}
           /\ Terminate("assert")
           /\ UNCHANGED <<event_handler_map, given, edit>>
        \/ /\ Change(a, same, {[type |-> TypeOf[c], id |-> evt_cb_id, cb |-> c]})
           /\ given' = [given EXCEPT ![c] = evt_cb_id]
           /\ edit' = [edit EXCEPT ![a] = None]
  /\ UNCHANGED <<poolVars, brokerVars, types, hollow, evt_cb_id, erased, overlapped,
                 walkVars, at, runs>>

\* register_event_handler returns no id: the application counts.  An id is unregistered
\* once, which bounds the model.
Unregister(a, id) ==
  /\ a \in Erasers
  /\ edit[a] = None
  /\ id <= evt_cb_id /\ id \notin erased
  /\ edit' = [edit EXCEPT ![a] = [do |-> "erase", id |-> id]]
  /\ erased' = erased \cup {id}
  /\ overlapped' = (overlapped \/ Overlapping(a))
  /\ UNCHANGED <<poolVars, brokerVars, mapVars, evt_cb_id, given, walkVars, at, runs,
                 fault>>

\* The first type that has the id loses it; the type keeps its (empty) map.
Erase(a) ==
  /\ edit[a] # None /\ edit[a].do = "erase"
  /\ LET found == {h \in event_handler_map : h.id = edit[a].id}
     IN \/ found = {} /\ Change(a, {}, {})
        \/ \E h \in found : Change(a, {h}, {})
  /\ edit' = [edit EXCEPT ![a] = None]
  /\ UNCHANGED <<poolVars, brokerVars, types, hollow, evt_cb_id, given, erased,
                 overlapped, walkVars, at, runs>>

Racing == MapRaces /\ \E a \in Apps : edit[a] # None

-----------------------------------------------------------------------------
(* _on_event_message, on the event-loop thread.                            *)

\* Decode; an unknown type is logged and dropped.
OnEventMessage ==
  /\ cursor = None
  /\ pending # <<>>
  /\ pending' = Tail(pending)
  /\ LET e == Head(pending)
         known == KnownType(evt[e].type)
     IN \/ /\ evt[e].form = "malformed"
           /\ Terminate("decode")
           /\ UNCHANGED walkVars
        \/ /\ evt[e].form = "plain" /\ known
           /\ cursor' = [event |-> e, last |-> 0]
           /\ UNCHANGED <<missed, fault>>
        \/ /\ evt[e].form = "plain" /\ (~known \/ Racing)
           /\ missed' = IF known THEN missed \cup {e} ELSE missed
           /\ UNCHANGED <<cursor, fault>>
        \/ /\ Racing
           /\ Terminate("map_race")
           /\ UNCHANGED walkVars
  /\ UNCHANGED <<poolVars, evt, due, mapVars, editVars, at, runs>>

\* The ids of std::map are walked over in order.
Ahead == {h.id : h \in {h \in Handlers(evt[cursor.event].type) : h.id > cursor.last}}

\* The node the walk stands on was erased.
Dangling ==
  /\ cursor.last # 0
  /\ \A h \in Handlers(evt[cursor.event].type) : h.id # cursor.last

\* Fault variant: only the first handler of the type gets the event.
StepOnce(id) == None

\* The walk goes on after the handler with this id.
StepOver(id) == [cursor EXCEPT !.last = id]

\* One round of the loop over event_handler_map[event_type].
Dispatch ==
  /\ cursor # None
  /\ \/ /\ Ahead # {}
        /\ Detach([event |-> cursor.event, id |-> Min(Ahead)])
        /\ cursor' = StepOver(Min(Ahead))
        /\ UNCHANGED fault
     \/ /\ Ahead = {}
        /\ cursor' = None
        /\ UNCHANGED <<poolVars, fault>>
     \/ /\ Racing \/ (MapRaces /\ Dangling)
        /\ Terminate("map_race")
        /\ UNCHANGED <<poolVars, cursor>>
  /\ UNCHANGED <<brokerVars, mapVars, editVars, missed, at, runs>>

-----------------------------------------------------------------------------
(* _event_worker, on a worker of the pool.                                 *)

Start(w) ==
  /\ at[w] = "start"
  /\ tasks # <<>> /\ Head(tasks) \in Tasks
  /\ Take(w)
  /\ at' = [at EXCEPT ![w] = "call"]
  /\ UNCHANGED <<brokerVars, mapVars, editVars, walkVars, runs, fault>>

Runs(e, c) == runs' = [runs EXCEPT ![e][c] = @ + 1]

\* The call of the callback.  When the handler is gone, operator[] puts an empty
\* function in its place, whose call throws bad_function_call.
Call(w) ==
  LET t == job[w]
  IN /\ at[w] = "call"
     /\ \/ \E h \in HandlerOf(t) :
             /\ Runs(t.event, h.cb)
             /\ at' = [at EXCEPT ![w] = "run"]
             /\ UNCHANGED <<hollow, fault>>
        \/ /\ HandlerOf(t) = {}
           /\ hollow' = hollow \cup {[type |-> evt[t.event].type, id |-> t.id]}
           /\ Terminate("bad_function_call")
           /\ UNCHANGED <<at, runs>>
        \/ /\ Racing
           /\ Terminate("map_race")
           /\ UNCHANGED <<at, runs, hollow>>
     /\ UNCHANGED <<poolVars, brokerVars, types, event_handler_map, editVars, walkVars>>

\* How a callback may end without ending the process.
Caught == {"value", "runtime_error"}

\* The callback ends; a runtime_error is logged, another exception is thrown on.
Finish(w) ==
  /\ at[w] = "run"
  /\ \E e \in Ends :
       \/ /\ e \in Caught
          /\ Done(w)
          /\ at' = [at EXCEPT ![w] = "start"]
          /\ UNCHANGED fault
       \/ /\ e \notin Caught
          /\ Terminate("exception")
          /\ UNCHANGED <<poolVars, at>>
  /\ UNCHANGED <<brokerVars, mapVars, editVars, walkVars, runs>>

-----------------------------------------------------------------------------
ClientStep == \E e \in Events, ty \in Types, f \in Forms : PublishEvent(e, ty, f)
LoopStep == Alive /\ (OnEventMessage \/ Dispatch)
WorkerStep(w) == Alive /\ (Start(w) \/ Call(w) \/ Finish(w))
AppStep(a) ==
  /\ Alive
  /\ \/ \E c \in Callbacks : Register(a, c)
     \/ Assign(a)
     \/ Count(a)
     \/ Insert(a)
     \/ \E id \in CbIds : Unregister(a, id)
     \/ Erase(a)

\* The process died, or there is nothing left to do.
Stopped ==
  /\ \/ ~Alive
     \/ /\ \A e \in Events : evt[e] # None
        /\ pending = <<>> /\ tasks = <<>> /\ cursor = None
        /\ \A w \in Workers : job[w] = None
  /\ UNCHANGED vars

Next ==
  \/ ClientStep
  \/ LoopStep
  \/ \E w \in Workers : WorkerStep(w)
  \/ \E a \in Apps : AppStep(a)
  \/ Stopped

Spec == Init /\ [][Next]_vars

(* The operating system runs every thread that can run; callbacks end.     *)
FairSpec ==
  /\ Spec
  /\ WF_vars(LoopStep)
  /\ \A w \in Workers : WF_vars(WorkerStep(w))

-----------------------------------------------------------------------------
(* Properties.                                                             *)

\* Type correctness of every variable of the module.
TypeOK ==
  /\ tasks \in Seq(Tasks)
  /\ job \in [Workers -> Tasks \cup {None}]
  /\ evt \in [Events -> Published \cup {None}]
  /\ due \in [Events -> SUBSET Callbacks]
  /\ pending \in Seq(Events)
  /\ types \subseteq Types
  /\ event_handler_map \subseteq Entries
  /\ evt_cb_id \in CbIds \cup {0}
  /\ edit \in [Apps -> Edits \cup {None}]
  /\ given \in [Callbacks -> CbIds \cup {0}]
  /\ cursor \in Walks \cup {None}
  /\ at \in [Workers -> {"start", "call", "run"}]
  /\ runs \in [Events -> [Callbacks -> Nat]]
  /\ hollow \subseteq [type : Types, id : CbIds]
  /\ overlapped \in BOOLEAN
  /\ missed \subseteq Events
  /\ erased \subseteq CbIds
  /\ fault \in {"none", "decode", "map_race", "bad_function_call", "exception", "assert",
               "erased_handler"}

\* A callback runs at most once for an event, and only for events of the type it
\* was registered for, whatever is registered and erased during the walk.
HandledOnce ==
  \A e \in Events, c \in Callbacks :
    /\ runs[e][c] <= 1
    /\ runs[e][c] > 0 => evt[e].type = TypeOf[c]

\* Unless two changes of the map overlapped, a handler that register_event_handler put
\* into the map leaves it only when unregister_event_handler was called with its id.
RegistrationsLast ==
  \A c \in Callbacks :
    (given[c] # 0 /\ ~Registered(c)) => (given[c] \in erased \/ overlapped)

\* The assertion on ids fails only when two changes overlapped; a worker finds its
\* handler gone, or loses it while it runs, only when they did or a handler was erased.
DeathsExplained ==
  /\ fault = "assert" => overlapped
  /\ fault \in {"bad_function_call", "erased_handler"} => overlapped \/ erased # {}

\* An event runs every callback that was registered for its type when it was
\* published and stays registered, unless the process dies or its lookup raced.
DueHandled ==
  \A e \in Events, c \in Callbacks :
    (c \in due[e] /\ evt[e].form = "plain") ~>
      (runs[e][c] > 0 \/ ~Registered(c) \/ ~Alive \/ e \in missed)
==============================================================================
