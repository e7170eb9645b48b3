# Verification of ccmqsrv

ccmqsrv is a C++ RPC and event framework on top of RabbitMQ. A *client* (`MessageQueueClient`) calls
methods of servers and publishes events; a *server* (`MessageQueueServer`) runs registered functions
for requests and registered handlers for events on a thread pool. This directory holds TLA+ models
of both, of what travels between them and of their composition, TLC configurations that check them
on small instances, and TLAPS proofs of their safety properties. Paths below are relative to the
repository.

1. [The system](#1-the-system)
2. [Modules](#2-modules)
3. [Runs, bounds and what they show](#3-runs-bounds-and-what-they-show)
4. [Fairness](#4-fairness)
5. [Proofs](#5-proofs)
6. [Where code and documentation disagree](#6-where-code-and-documentation-disagree)
7. [What is not modelled, and the plan](#7-what-is-not-modelled-and-the-plan)

## 1. The system

### Parts, their state and their operations

| part | source | state | operations |
|---|---|---|---|
| RPC calls | `include/client.{h,inl}`, `src/client.cc` | `req_events` (id -> `AsyncResult`), `req_events_mtx`, per result `done_`, `result_`, mutex, condition variable | `Caller::operator()`, `Caller::call`, `call_async`, `AsyncResult::get/set`, `on_response` |
| event publishing | the same files | `routing_keys_`, `pub_queue_inited`, `pub_mtx`, `pub_cv`, `send_mtx`, `send_channel` | `Publisher::operator()`, `publish`, the bind callback |
| client life cycle | the same files | `is_running`, `should_stop`, the channels, the detached loop thread | constructor, `run`, `release`, destructor, copy and move |
| RPC service | `include/server.{h,inl}`, `src/server.cc` | `rpc_func_map`, the pool's queue, `send_mtx`, `send_channel` | `register_rpc`, `unregister_rpc`, `_on_rpc_message`, `_rpc_worker`, `send_reply` |
| event service | the same files | `event_handler_map`, `evt_cb_id`, the pool's queue | `register_event_handler`, `unregister_event_handler`, `_on_event_message`, `_event_worker` |
| server life cycle | `src/server.cc` | `is_setuped`, the channels, the loop thread | `run_server`, `wait_conn`, `setup`, `teardown`, `run`, destructor |
| event loop | `include/amqp_handler.h` | the libevent base, the stdin event | `loop`, `loop_break`, `onError`, `onNegotiate`, `stop` |
| codec | `src/rpc_utils.cc`, `include/rpc_utils.h`, `include/server.inl` | none | `rpc_encode_req`, `rpc_decode_req`, `rpc_decode_rep`, `json_loadb`, `getv`, `callproxy` |
| addresses, defaults | `src/common.cc`, `src/base.cc` | none | `split_str`, `get_connection`, ... |
| a server whose methods call back | both halves in one process | the pool and `req_events` at once | a method that uses a client of the same server |

Left aside as not part of the program's own logic: the examples, the build files, the documentation
that Doxygen generated with its JavaScript (`docs/html`), and the libraries the code uses (AMQP-CPP,
libevent, BS::thread_pool, nlohmann::json), which appear as "external" definitions, modelled from
how the code uses them.

### How the parts interact

* A call goes: application thread in `call_async` (register an `AsyncResult`, publish) -> rpc
  exchange -> server's event loop (`_on_rpc_message`) -> pool -> `_rpc_worker` -> `send_reply` ->
  callback queue -> client's event loop (`on_response`) -> `AsyncResult::set` -> the application
  thread in `AsyncResult::get`.
* An event goes: application thread in `publish` -> event exchange -> server's event loop
  (`_on_event_message`, one task per handler) -> pool -> `_event_worker`.
* In a client, the application threads share `req_events`, `routing_keys_`, the flag
  `pub_queue_inited` and `send_channel` with each other and with one event-loop thread.
* In a server, the workers of the pool share `rpc_func_map`, `event_handler_map` and `send_channel`
  with the event-loop thread and with whichever thread registers functions.
* `run_server` runs on the application's main thread; it probes the broker, starts the event loop's
  thread and joins it.

### What is hard about it

* **Locks that do not cover what they guard.** `on_response` uses `req_events` without
  `req_events_mtx`; `routing_keys_`, `rpc_func_map`, `event_handler_map` and `evt_cb_id` have no
  lock; the bind callback raises its flag without `pub_mtx`.
* **Check, then act.** `on_response`, `_rpc_worker` and `_event_worker` each look an entry up twice;
  `publish` checks the flag once and waits without a predicate.
* **A lock that covers too much.** `req_events_mtx` is held while `get()` waits.
* **Failure.** An exception that leaves a task or an AMQP callback ends the process. Requests are
  acknowledged when their task is queued, before any of this.
* **Timeouts.** A reply may race the timeout of its call, or arrive long after it.
* **Life cycles.** `run_server` ends by an exception of a second `join`; a failed probe is not told
  from a good one; the maps are destroyed before the pool that uses them. A client's event-loop
  thread is detached and outlives the client; `release` closes channels that other threads use; a
  copied client has none.
* **Composition.** Methods that call other methods of the same server wait inside the pool that has
  to serve them.
* **Conversions.** Nothing checks a request against the signature of its method: arguments have
  other types, widths and numbers than the parameters; what is missing is read past the end of a
  vector. JSON has no form for a NaN and none for text that is not UTF-8.

`PROJECT.json` lists each hazard at its line with the properties that are about it.

### What makes each part correct

* RPC calls: a call returns what the reply to its own request says, or its timeout; no reply is lost
  between the loop and the waiting thread, but for a known race; `req_events` grows only by calls
  that time out, cannot be encoded or are not waited for.
* Publishing: no event overtakes the bind of its queue; every publish returns.
* RPC service: an accepted request is in exactly one place; a reply says how its own request ended;
  the server answers what it can answer, or dies of a known cause.
* Event service: a callback runs at most once per event, and for its type only; what is registered
  when an event is published runs; a registration lasts until it is taken back.
* Server life: the probe leaves no socket of a reached broker open, `run_server` outlasts the loop,
  the destructor ends once the loop has stopped.
* Client life: the channels exist when the constructor returns and until `release`; a destroyed
  client is touched only for what a thread did not wait for; the constructor returns.
* Codec: what arrives is what was sent, or its documented conversion; a method runs with values of
  the types it declares; an error is told from a result; the host that is probed is the one that is
  named.
* Both halves together: a call ends as the method it called ended; everything is answered, and a
  server that stops runs empty, unless the pool waits for itself.

## 2. Modules

| module | models | composed of |
|---|---|---|
| `CallService` | what the RPC half of the client promises, as an abstract specification | |
| `ClientRpc` | RPC calls of one client: the callers, `on_response`, the broker and the servers as an environment | implements `CallService` |
| `ClientPublish` | `publish`, the bind callback, and `call_async` as a user of the same channel | |
| `ThreadPool` | BS::thread_pool: FIFO queue, workers | |
| `RequestService` | what the RPC half of the server promises, as an abstract specification | |
| `ServerRpc` | the RPC half of the server | `ThreadPool`; implements `RequestService` |
| `ServerEvents` | the event half of the server | `ThreadPool` |
| `RunServer` | the life of a server, with the event loop of `amqp_handler.h` | `ThreadPool` |
| `ClientLife` | the life of a client: constructor, detached thread, `release`, destructor, copies | |
| `Codec` | the values of one call from the caller to the method and back; the address `run_server` takes apart | |
| `RpcSystem` | a server whose methods call back | `ServerRpc` and `ClientRpc`, side by side |
| `ClientRpcProofs`, `ClientPublishProofs`, `ServerRpcProofs`, `ServerEventsProofs`, `RunServerProofs`, `ClientLifeProofs`, `CodecProofs`, `RpcSystemProofs` | theorems | their component; `RpcSystemProofs` also uses the theorems of `ServerRpcProofs` and `ClientRpcProofs` |
| `MC...` | the symmetry sets, functions and sets of values the configurations need | their component |

Each definition that stands for code is listed in `PROJECT.json` with the lines it stands for.
Definitions commented as a *fault variant* are not part of the models: each is a plausible bug of
the definition it stands beside, and is used to see that a property notices it.

### How state and actions correspond to the code

**ClientRpc.** A caller's `pc` is its place in `Caller::call` with `call_async` inlined: register
(lock, insert into `req_events`, unlock), encode and send, lock again, `get()`, wait, move the
result, erase. The entry is made before the arguments are encoded, so arguments that `dump()`
refuses end the call and leave it (`SendBytes`); so does a `call_async` nobody waits for (`Leave`).
`AsyncResult` is the record `[done, result, signalled]`; `signalled` stands for "a notify found a
thread waiting". `set`, and `get` up to its wait, run under the object's own mutex and are one step
each. `get` returns a reference: `HandOver` ends it, and the caller moves the result away in a step
of its own, `Take`, no longer under that mutex. The object's mutex and `req_events_mtx` are not the
same: only the second is in the state (`mtx`). `on_response` reads the map twice with no lock,
`OnResponseFind` and `OnResponseSet`; `OnResponseDies` collects what can end the process there: a
racing access to the map, a reply that `rpc_decode_rep` cannot take apart, a null pointer because
the entry is gone, and a `set` that meets the caller's move. A deadline may pass at any moment of a
timed wait (`WakeTimedOut`), also after the notification; the ten days of a call without a timeout
are taken as never. Parameters name what is left open: `Unusual` - what applications do beside the
ordinary; `MapRaces` - an access of the loop that overlaps an insert or erase may miss or crash;
`SpuriousWakeups` - `wait_for`, which has no predicate, returns unnotified. `blank` and `missed`
remember the calls this happened to. A request id is a random UUID: each is used once.

**ClientPublish.** The steps of `publish` are the lookup, `declareQueue`, `bindQueue`, the
registration of its `onSuccess` callback (`RegisterCallback`), the insert, the lock of `pub_mtx`,
the check of the flag, going to sleep, waking up, the lock of `send_mtx` and the publish. `wire` is
the channel: frames reach the broker in the order of the calls, and say whose they are, since the
bind-ok goes to the callback of its own bind. It may be handled before that callback is registered:
nobody hears it (`Unheard`), or the object the callback is registered on is gone (`freed_deferred`).
The bind callback is two steps of the loop thread (raise the flag, notify all), neither under
`pub_mtx`. The wait set of `pub_cv` is the set of threads at `waiting`.

**ServerRpc.** `OnRpcMessage` queues a task and acknowledges. A worker starts, decodes and finds,
looks up again and calls, runs the method, formats and locks, publishes. Every exit by an exception
is explicit: `fault` names the cause, and a process with a fault takes no step. Arguments and
results are abstracted to how the method ends; `Shown` says what a reply makes of that end: a
`runtime_error` whose `what()` is empty (`blank_error`) is sent as the error `""`, which a client
takes for no error, and one whose `what()` is not UTF-8 (`foreign_error`) cannot be dumped, outside
the `try`. A worker executes the function in the map itself: erasing it under the worker (`EndEdit`)
may end the process (`erased_method`).

**ServerEvents.** `cursor` is the walk of `_on_event_message` over the handlers of a type (an
ordered map, so `last` is the id it stands on). `register_event_handler` takes four steps: it looks
its type up (`Register`), if it found none assigns the type an empty map (`Assign`, which wipes out
what another thread has inserted since), increments `evt_cb_id` (`Count`), then reads it and inserts
(`Insert`). `overlapped` remembers that two changes of the map were under way at the same time: two
registrations may then read the same id, and the assertion fails or, without assertions, the later
callback replaces the earlier one. `Erasers` are the threads that call `unregister_event_handler`,
with ids they counted themselves, as it returns none; `erased` has the ids they used. What leaves
the map while a worker runs it (`Change`) may end the process (`erased_handler`). A lookup that
races may miss the type of an event (`missed`), and a walk whose node was erased goes wrong
(`Dangling`). `hollow` collects the empty functions that `operator[]` creates.

**RunServer.** `main` is the application's main thread in `run_server` and then in the destructor;
`loop` the thread of `run()`. A try of `wait_conn` makes a socket (`Probe`) and connects it
(`Dial`); only one that was accepted is closed, and `sockets` has the others. Tasks are only
counted: what they do is in the two modules above. The constructor of the event handler initialises
`evbase_` with itself, so `OnError` has three outcomes: the loop breaks, nothing happens, the
process dies.

**ClientLife.** The detached thread of `run()` (`loop`, `conn`, `queue`), the application threads
(`at`, `cur`) and the object (`life`, `channels`). A use of the client reads `send_channel` and then
uses it (`Begin`, `Send`), for a call or for a publish; a release checks `should_stop`, closes, and
sets the channels to null (`Release`, `CloseChannels`, `NullChannels`), with no lock, so each may
come between the steps of another. A copy is only a name: its first use or its destructor
dereferences a null channel. `on_response` and the `onSuccess` of a bind captured `this`:
`OnResponse`, `OnResponseSet` and `Confirmed` look whether the client still lives. `abandoned` has
the calls whose thread did not wait for the reply (a timeout, or `call_async` alone), `hasty` the
bindings whose publish did not wait for their own confirmation, because one flag serves all keys.
The inside of a call is `ClientRpc`, that of a publish `ClientPublish`.

**RpcSystem.** Every action is one of `ServerRpc`, one of `ClientRpc`, or one of each where a
message passes: `SendCall` puts the client's request into the server's queue, `SendReply` hands the
server's reply to the client's. The workers of the pool are the callers of the client. The request
ids of the client are the requests `Nested`; those of other clients come from outside. `StopServing`
ends the server's loop at any moment: tasks in the pool go on, but no reply arrives any more. What a
bad platform and unusual uses do to a client stays in `ClientRpc`, changes of `rpc_func_map` in
`ServerRpc`.

**Codec.** A behaviour is one call, step by step through the functions that touch its values, or one
address. A value is a tree, whether it is JSON, a `std::any` or a C++ value: a function from paths
to nodes, each of which is a type and a number (which scalar, or how many items). The functions
differ in which trees they accept. `_parse_json_element`, which calls itself for every item, is then
one function over all paths, and no definition is recursive. An `int` goes from `-Top` to `Top - 1`;
JSON integers are wider. Two kinds of nodes are no JSON: `nonfinite` doubles, which `dump()` writes
as null (`Dumped`), and `bytes`, text that is not UTF-8, which it refuses (`Dumpable`). A request
may also come from a client of another make: cut short, or with one element replaced; a build with
its asserts off accepts some of these. What is read past the end of a vector is undefined: it ends
the process or gives any of the values `Stray`, of the texts `StrayTexts`. An address is a sequence
of `Chars`, as `split_str` works on it: `Char` is one turn of its loop.

## 3. Runs, bounds and what they show

| run | instance | shows |
|---|---|---|
| `ClientRpc_platform` | 2 callers, 3 requests, every kind of reply, arguments that are not UTF-8, calls nobody waits for, races and spurious wake-ups | types; whatever the platform does, `req_events` keeps only entries of calls that timed out, were not encoded or not waited for (`LeaksExplained`); blank results, the null pointer and the race on a result come from unnotified wake-ups alone (`BlankExplained`), lost replies from a racing `find` alone (`LostOnlyInRace`) |
| `ClientRpc_live` | 2 callers, 3 requests, with and without timeout, arguments that are not UTF-8, every request answered, no races and no spurious wake-ups | a call gets its own reply (`OwnReply`), the entry found is still there when it is used (`NoNullDeref`), no reply is lost (`ReplyNotLost`), the client implements `CallService`, every call returns |
| `ClientRpc_blocked` | 2 callers, 2 requests, servers need not answer | **violated**: a call with a timeout need not return |
| `ClientPublish_live` | 2 threads, 2 keys, 3 uses in all, set races, spurious wake-ups | types; no event is lost although one flag serves all keys; uses of a client whose flag is up return, next to a thread that sleeps for ever; one notification wakes all sleepers |
| `ClientPublish_sleep` | 1 thread, 1 publish | **violated**: a publish need not return, though its callback was registered in time |
| `ServerRpc_live` | 2 workers, 2 requests, 3 methods (registered, unknown, coming and going), every form and end, map races | types; requests are in one place, the server implements `RequestService`, the process dies only of the listed causes, what can be answered is answered while it lives |
| `ServerRpc_unknown` | 2 requests, one for an unregistered method | **violated**: one such request leaves those of other clients unanswered |
| `ServerEvents_live` | 2 workers, 2 application threads of which one erases, 3 callbacks of 2 types, 1 event, failures, map races | types; a callback runs at most once per event and only for its type; a registration lasts until its id is unregistered, unless two changes overlapped; a failed assertion and a handler that is gone have the listed causes; every callback due for an event runs |
| `RunServer_life` | 3 tries, both values of `block`, 2 workers, 3 messages | types; only tries whose `connect` failed leave a socket open, `run_server` outlasts the loop, and when the loop stops the server ends |
| `ClientLife_life` | 2 threads, 2 calls, 1 binding, 1 copy, a connection, a broker and a stdin that do as they like | types; the channels are ready when the constructor returns; null channels and a destroyed client are met only for the listed causes; the constructor returns unless the broker is at fault |
| `Codec_values` | 14 values, 7 parameter types, up to 2 arguments and 2 parameters, 7 ends of a method, foreign requests, 5 values and 4 texts past the end of a vector, 126 addresses, `int` of 3 bits | requests arrive, integers modulo their width; no parameter is set to a value of another type, and calls that fit run with their arguments; results and errors reach the caller; `split_str` and the address it is used on |
| `RpcSystem_live` | 2 workers, 2 requests from outside, 2 from methods, with and without timeout, every end | a nested call ends as its method ended, and a method that relays what its call saw ends so too; everything is answered unless the pool waits for itself; a server that stops runs empty |

Every bound is a CONSTANT with a value in the configuration: `Ids`, `MaxUses`, `Requests`, `Events`,
`Callbacks`, `MaxTries`, `MaxMessages`, `Calls`, `Binds`, `Copies`, `Nested`, `MaxArgs`, `Top`. One
bound is in a guard: `Unregister` of `ServerEvents` uses each id once.

* Two threads or workers are enough for each hazard here: every one is a pair of accesses by two
  actors (caller and loop, worker and application, two workers). A third request (`ClientRpc`), use
  (`ClientPublish`) or callback (`ServerEvents`) lets one actor go round twice while the other
  stands still, so leftovers of an earlier round meet a later one. The proofs of the invariants then
  cover any number.
* `ServerRpc` needs one request for each of two workers; a third would only wait in the queue.
  `InOnePlace` is already exercised with both in any place.
* `ServerEvents`: one event walks over two callbacks of its type while a third is registered for
  another one. What a second event adds, two events in the queue at once, is covered by the proof of
  `HandledOnce`.
* `ClientRpc` has two instances because a spurious wake-up makes most of the second one's properties
  false (section 6): the first bounds what goes wrong on any platform, the second shows what holds
  on a good one.
* `ClientLife`: a binding is what distinguishes a publish to a new key from any other; its
  confirmation can come after the client is gone, with one binding as with two.
* `RunServer`: three tries distinguish the first, a middle and the last one; three messages fill two
  workers and leave one task in the queue.
* `RpcSystem`: two nested calls are what fills a pool of two workers, so `FullForEver` happens; two
  requests from outside start them in either order.
* `Codec`: the behaviours do not interact, so the run is an enumeration of inputs. Two arguments
  show their order and number; nesting of depth two shows that conversions are applied inside
  containers as far as the code does; three bits are enough for an integer to change its sign and to
  wrap round.
* Symmetry is used in one run, `ClientRpc_platform`, which has invariants only and whose constants
  treat callers and requests alike.
* The runs with `CHECK_DEADLOCK FALSE` are those of `ClientPublish`: a publish that missed its
  notification sleeps for ever, which is what the code does. All the others check deadlock, with an
  explicit stuttering step for a process that died, has nothing left to do, or waits for ever by
  what the property of the run names (`AtRest` of `RpcSystem`, `Stopped` of `ClientLife`).

## 4. Fairness

Every thread that can take a step takes one (weak fairness per thread): the operating system
schedules them, mutexes are released after finitely many steps, functions and callbacks of the
application end, and a deadline that has passed ends a wait. Weak fairness is enough because a
thread of the models is blocked only by a mutex that becomes free and stays available to it in the
small instances, or by a condition variable. Nothing is assumed of the *application* (nobody must
call, publish, register or type into stdin) nor of the *broker's connection* (it may break or not).
Where servers must answer for a liveness property to make sense, the specification says so:
`ServedSpec` of `ClientRpc` adds that every request is answered; `ClientPublish` assumes that the
broker serves the channel. `ClientLife` assumes that a broker with a connection accepts or refuses
what it is asked for; `RpcSystem` needs only the threads: both event loops and every worker. A
spurious wake-up is an action of its own and outside fairness: no property depends on one happening,
and each has to hold when one does.

The violated temporal properties are violated under these fair specifications, so the system is not
merely allowed to stop.

## 5. Proofs

All proofs hold for every value of the constants that satisfies the named assumptions: `None` is
none of the other values, `Kinds` is a subset of the four shapes of reply, `Unusual` of the two
unusual uses, bounds are natural numbers, `Blocks` is a set of Booleans, the owner of a client is
one of its users, and the set of callbacks is finite. In `RpcSystem` nested requests are well-formed
requests for registered methods, as `Caller::call` makes them. In `Codec` values, those past the end
of a vector too, have the shape of trees, texts there are texts, ports are made of digits, hosts are
not empty and contain none of `@`, `:` and `/`, and users contain no `@`; nothing is assumed of a
virtual host. TLC evaluates the same assumptions in the runs.

### ClientRpcProofs

| theorem | statement | needs |
|---|---|---|
| `TypeCorrect` | `Spec => []TypeOK` | |
| `Leaks` | `Spec => []LeaksExplained` | |
| `BlanksExplained` | `Spec => []BlankExplained` | |
| `LostRepliesExplained` | `Spec => []LostOnlyInRace` | |
| `RepliesMatch` | `Spec => []OwnReply` | no spurious wake-ups |
| `NoEntryVanishes` | `Spec => []NoNullDeref` | no spurious wake-ups |
| `NothingLostAlone` | `Spec => []ReplyNotLost` | at most one caller |
| `Refinement` | `Spec => ImplementsCallService` | no spurious wake-ups |

None of these properties is inductive. The invariant has two layers, both inductive on every
platform.

* `BaseInv`: types; `req_events_mtx` is held exactly at the places between its lock and unlock (so
  by one thread); calls in progress have distinct ids without an outcome; a registered call has an
  entry, and what else has one is `LeaksExplained`; requests and replies exist in order. The last
  two parts are what tie the map to the places of the callers.
* `ReplyInv` speaks of the requests whose wait did not end unnotified (not in `blank`). A result of
  theirs that is `done` is the answer to its own request, and this answer is nowhere else: not in
  the queue, not in `on_response`. This is why the unlocked second access of `on_response` is safe
  for them: while a reply is being handled the result is not set, so its caller has nothing to
  return with and cannot have erased the entry. A timeout does not erase it either, which is a leak
  of `LeaksExplained`: that leak is what makes the missing lock harmless here. Without spurious
  wake-ups `blank` stays empty, and `OwnReply` and `NoNullDeref` follow.
* `LostOnlyInRace` is inductive next to `BaseInv`. With a single caller nobody changes the map while
  that caller's reply may arrive, so `missed` has only calls that are over: no assumption on the
  platform is needed for `ReplyNotLost`. With several callers a race can lose a reply, and
  `LostOnlyInRace` is all that holds.

The refinement forgets the map, the locks and the loop; a step of the caller that ends its call is a
step of `CallService`, everything else but a server's answer is a stutter.

### ClientPublishProofs

| theorem | statement |
|---|---|
| `TypeCorrect` | `Spec => []TypeOK` |
| `NothingLost` | `Spec => []NoEventLost` |

Both hold on every platform: with races on `routing_keys_`, with spurious wake-ups and with
callbacks that are registered too late. To the types `KeysInv` adds that a publishing thread has a
key and that frames of binds and events carry one. `NoEventLost` speaks of the moment an event is
served; the invariant `OrderInv` speaks of every event still on the wire. `EventsInv`: the bind of
its key is in front of it or was served. An event gets its place at the end of the wire, so two
facts about its sender are needed: a key in `routing_keys` has its bind on the way (`SetInv`), and
so has the key of a thread that is past `bindQueue` (`ThreadsInv`). It is the order of frames on one
channel that saves the second key of a client, whose thread may find the flag raised because of
another key; the condition variable contributes nothing to this theorem.

### ServerRpcProofs

| theorem | statement |
|---|---|
| `TypeCorrect` | `Spec => []TypeOK` |
| `NothingLost` | `Spec => []InOnePlace` |
| `OneSender` | `Spec => []ReplyExclusive` |
| `RepliesMatch` | `Spec => []RepliesTruthful`, a reply says how the method of its own request ended |
| `KnownDeaths` | `Spec => []Survives` |
| `ThrownUnanswered` | `Spec => []ThrowInv` |
| `Refinement` | `Spec => ImplementsRequestService` |

* `TypeInv` and `PlaceInv` are proved together: a worker may look into its request only because what
  it holds was sent (`JobInv`), and that is known of the head of the queue because a request that
  was sent is in exactly one of the broker, the queue, one worker or the replies. `PlaceInv` says
  this with sets of positions that are empty or singletons; `InOnePlace` follows with their
  cardinalities.
* `LockInv`: `send_mtx` is held by exactly the worker at `send`.
* `TruthInv` holds `LiveInv` only while the process lives. It ties the local `res` of a worker to
  how the method of its request ended, says that a request neither on a worker nor answered has not
  been tried, and that until somebody edits the map it is the initial one and every worker saw it
  so. `Survives` needs the last part: without edits a lookup can only fail for a method nobody
  registered.
* `ThrowInv`: a request whose method threw something other than a `runtime_error` is not answered
  and the process is dead. It needs that no other worker has the same request (`AloneAtWork`, from
  `PlaceInv`); the composition needs it, since a caller must not be told that such a method
  returned.
* The refinement forgets the broker, the pool, the workers, the map and the lock; `up` is "the
  process has no fault". `Run` is a step of `RequestService` because the method of a worker at `run`
  has not ended (`TruthInv`) and was registered at some time (`KnownInv`: the empty function that
  `operator[]` inserts ends the process before it runs); `Publish` is one because nobody else
  answered the request (`PlaceInv`) and the local `res` is how its method ended. A step on which the
  process dies of something else is a step of `GoDown`, for one of the causes of `Survives`.

### ServerEventsProofs

| theorem | statement |
|---|---|
| `TypeCorrect` | `Spec => []TypeOK` |
| `EventHandledOnce` | `Spec => []HandledOnce` |
| `RegistrationsStay` | `Spec => []RegistrationsLast` |
| `DeathsHaveCauses` | `Spec => []DeathsExplained` |

All hold for any number of workers, application threads, events and callbacks, with racing accesses
and with registrations that overlap.

* `EditInv` counts: `evt_cb_id` is the number of callbacks that have an id or are between the two
  steps of their registration that have one. Without it the type of `evt_cb_id` is not inductive.
  `IdInv` adds that, until two changes of the map overlap, one is under way at a time and the id a
  registration reads is above every id given so far: the assertion holds.
* `KeepInv`: until then, a registration that assigns its type a map does so for a type nobody has
  registered, so `= {}` removes no handler; and an id that is being erased was asked for.
  `RegistrationsLast` follows, since an insert replaces nothing (`IdInv`).
* `TaskInv`: every task, in the queue or with a worker, comes from a callback that was once
  registered under its id for the type of its event (`Sourced`). With `MapInv`, a lookup that finds
  nothing means that this callback is registered no more.
* `OnceInv`: events, tasks and jobs are there once. A new task is not the same as an old one because
  the walk goes upwards and has passed the id of every task it queued (`Passed`) - a walk that
  restarted for an event that is still queued would break this, which is why `Passed` also speaks of
  the queue. `RunInv` says the same of what was run: the task is spent the moment the callback is
  called.

### RunServerProofs

| theorem | statement |
|---|---|
| `TypeCorrect` | `Spec => []TypeOK` |
| `RunServerWaits` | `Spec => []ReturnsAfterLoop` |
| `SocketsLeak` | `Spec => []OnlyFailedTriesLeak` |

`TypeOK` is not inductive: after a sleep the number of the try is increased, and it stays in range
only because `wait_conn` never sleeps when no try is left (`TriesLeft`). `OnlyFailedTriesLeak` is
inductive next to it: the number of the try only grows. For `ReturnsAfterLoop`, `LifeInv` says that
the loop has ended once the first `join` returned, and stays so.

### ClientLifeProofs

| theorem | statement |
|---|---|
| `TypeCorrect` | `Spec => []TypeOK` |
| `ChannelsStayOpen` | `Spec => []ChannelsReady` |
| `ReleaseIsQuiet` | `Spec => []NullExplained` |
| `DestructionIsQuiet` | `Spec => []QuietDestruction` |

* `BuiltInv` and `OpenInv`: the constructor cannot return before the detached thread has made the
  channels, since only a bound queue, which needs them, raises `is_running`; from then on they are
  open until `should_stop`.
* `UseInv` and `ReleaseInv`: a thread that holds a channel next to a release, and a release next to
  another one, are what `clash` remembers; so a null or freed channel was met by one of them.
* `WaitedInv`, `OutsideInv`, `HandledInv`: a call whose reply is still to be handled has its thread
  inside the client, or was abandoned; a binding that is still to be confirmed has its publish
  inside, or was left in haste; a client is destroyed when nobody is inside. This is the argument
  that destruction is safe after answered calls and confirmed bindings, although the thread of
  `run()` is never joined.

### CodecProofs

| theorem | statement |
|---|---|
| `CarriedCorrect` | `Spec => []Carried` |
| `RunsWellTypedCorrect` | `Spec => []RunsWellTyped` |
| `CallerSeesCorrect` | `Spec => []CallerSees` |
| `SplitSoundCorrect` | `Spec => []SplitSound` |
| `ProbesTheHostCorrect` | `Spec => []ProbesTheHost` |

They hold for values of any depth, any width of an `int`, any number of arguments, addresses of any
length and whatever is past the end of a vector: where TLC enumerates a few hundred thousand inputs,
this covers all.

* The call. `RequestInv` says that a request of `rpc_encode_req` has the arguments as item 4 and no
  keywords, before and after it is decoded. That decoding keeps the shape is proved path by path
  (`ParsedItem`, `ParsedCongruent`), so no induction over the depth of a value is needed, and that
  `Truncate` stays in its range and in its residue class is `Truncated`. What is dumped is a tree
  again (`DumpsAreTrees`). `TypedInv`: what `getv` accepts it turns into a value of the parameter's
  type (`Converted`), and the arguments of a call that fits arrive in a form it accepts
  (`FitsAccepted`, `OwnArrives`), so nothing is read past their end. `ReplyInv` follows a value or
  an error from the method over `res` and the reply to the outcome (`Right`).
* `split_str`. What the loop has found after `n` characters is the invariant `ScanInv`: the pieces
  are the runs that ended before `n`, each at the position its run has among all runs (`Rank`), and
  the token is the run that is still open. `ScanStep` keeps it, for a character and for a delimiter
  with and without a token. Induction over `n` is `Counting`, a statement about sets of numbers (a
  set with 0 that is closed under successor has all of them), because induction theorems with an
  operator as parameter are not usable here.
* `run_server`. `TextParts` says where the parts of an address stand in its text. `Complete` then
  finds the host and the port with `split_str` three times, whatever the virtual host holds, so an
  address with a user and a port is never read past its pieces.

### RpcSystemProofs

| theorem | statement |
|---|---|
| `ServerPart` | `SystemSpec => Spec` of `ServerRpc` |
| `ClientPart` | `SystemSpec => Client!Spec` of `ClientRpc` |
| `CallsServed` | `SystemSpec => ImplementsCallService` of the client |
| `RequestsServed` | `SystemSpec => ImplementsRequestService` |
| `EndToEndCorrect` | `SystemSpec => []EndToEnd` |

* The composition implements both of its components: each step of the system is a step of the server
  or leaves it alone, and likewise for the client. The client is mapped with `fault <- "none"`: in
  the system the process may die of a server's step, which the client never sees as a step of its
  own. Every theorem of `ServerRpcProofs` and `ClientRpcProofs` therefore holds in the composition,
  where workers are callers; `CallsServed` and `RequestsServed` use this.
* `EndToEnd` is `CallsEndToEnd /\ RelaysEndToEnd`. For the first, `CarryInv` ties the client to the
  server: a nested request is well-formed, and what the client has for an answer is a reply that the
  server sent. With `OwnReply` of the client and `RepliesTruthful` and `ThrowInv` of the server, the
  outcome of a call is how its method ended. For the second, `RelayInv` says which call a worker has
  made for the request it works on, and that a method that has ended after a call ended as that call
  did.

### Only model-checked

* Liveness under fairness: `EveryCallReturns`, `LateUsesReturn`, `SleepersWake`, `AnsweredIfAlive`,
  `DueHandled`, `StopEndsServer`, `ConstructorReturns`, and the liveness properties of `RpcSystem`.
  These need fairness and `ENABLED`, which the provers do not handle.
* `ReplyNotLost` for several callers on a platform without map races: proved are the case of one
  caller, and `LostOnlyInRace` for any number of them on every platform.

Every other invariant and every refinement that a passing run checks is proved, for all values of
the constants that satisfy the assumptions above and the platform conditions in the tables.

## 6. Where code and documentation disagree

Each is a run whose property TLC refutes with a behaviour of the code:

* `TimedCallReturns` (`include/client.inl:13`): a call holds `req_events_mtx` while it waits, so a
  call with a timeout waits for the mutex of one that has none.
* `PublishReturns` (`include/client.inl:40`): flag and notification come without `pub_mtx`, between
  the check and the wait of a publish, which then never returns.
* `Answered` (`src/server.cc:141`): for an unknown method the reply parses `""` outside the `try`;
  the process ends.

Facts the models contain, and what the properties say of them:

* *Client, calls.* A `find` of `on_response` that overlaps an insert or an erase can miss an entry
  (`MapRaces`): its call then waits for its timeout, or for ever. The race can also end the process.
  `LostOnlyInRace` says that replies are lost in no other way; `ReplyNotLost` and the liveness of
  `ClientRpc_live` are about a platform without such races.
* A spurious wake-up of `wait_for` hands out the empty result, and the call fails parsing it
  (`parse_error`). Worse, such a call erases its entry while its reply may be between
  `src/client.cc:39` and `:43`: `operator[]` then inserts a null pointer and dereferences it.
  `OwnReply`, `NoNullDeref` and the refinement hold without spurious wake-ups only; with them
  `BlankExplained` says that nothing but such a wake-up, of that very call, does this.
* `req_events` never shrinks by a call that timed out, by one whose arguments hold text that is not
  UTF-8 (registered at `include/client.inl:64`, encoded at `:66`), or by a `call_async` whose caller
  does not come back (`LeaksExplained`).
* A reply that is not an array of four ends the client's process (`decode`). An error that is not a
  JSON string is dropped, so its call returns a value (`Decode` of `error_object`).
* *Client, publishing.* `declareQueue` and `bindQueue` run outside `send_mtx` (`InChannel`). The
  bind-ok may be handled before `onSuccess` is registered (`include/client.inl:39-40`): nobody is
  notified, and the object the callback is registered on may be gone. `SleepersWake` and
  `PublishReturns` speak of callbacks registered in time.
* *Server, calls.* `unregister_rpc` between the two lookups of `_rpc_worker` ends the process
  (`bad_function_call`), and so may erasing a method while a worker runs it (`erased_method`). A
  caught `runtime_error` whose `what()` is not UTF-8 makes `dump()` throw outside the `try`
  (`foreign_error`). A malformed body ends the process: `Survives` lists these causes, and `GoDown`
  of `RequestService` has the same list; `InOnePlace` and `Carried` say nothing of them.
* *Server, events.* An event handler that is erased while its task waits is put back by `operator[]`
  as an empty function, whose call ends the process (`hollow`); erased while it runs it is destroyed
  under the worker (`erased_handler`). Two threads that register at once may get one id (`assert`),
  or the `= {}` of one wipes out the handler of the other. `RegistrationsLast` and `DeathsExplained`
  name these overlaps and erasures as the only causes; they do not exclude them.
* Events are consumed with `noack`: those that wait in the pool are lost with the process.
* *Server, life.* `include/server.h:203` says that `run_server` blocks "until stop or max_tries";
  when the tries are used up `wait_conn` returns as if a probe had succeeded, and `run_server`
  starts the loop (`Retry`). Every try whose `connect` failed leaves its socket open (`OnlyFailedTriesLeak`).
* The connection handler initialises `evbase_` with itself (`include/amqp_handler.h:21`): a broken
  connection may leave its loop running, or end the process (`OnError`). `StopEndsServer` speaks of
  loops that do stop.
* The maps of a server are destroyed before its pool, so a late task uses a destroyed map
  (`destroyed_map`).
* With `block = false` `run_server` always ends the process (`not_joined`).
* The back-off of `wait_conn`, `2^i`, is an exclusive or in C++: it waits 2, 3, 0, 1, 6 ... seconds.
  Time is not modelled, so nothing depends on it.
* *Client, life.* `release` and the destructor of a client do not end its detached thread; a late
  reply to a call that timed out, or to a `call_async` nobody waited for, is then handled by a
  destroyed client, and so is the confirmation of a binding whose publish went on because of another
  key (`destroyed_client`, `QuietDestruction`). `ChannelsReady` is about clients that were not
  released, `NullExplained` names copies and clashes with a release as the causes of null channels.
* A copied or moved-to client has null channels, and its destructor dereferences them.
* *Values.* A `runtime_error` without a text arrives at the caller as the value null: `CallerSees`
  and `EndToEnd` state this behaviour. An integer argument is cut down to an `int`; a result is not.
  A double that is not finite arrives as null; text that is not UTF-8 ends the call, or as a result
  the server's process.
* A scalar argument of another type than its parameter runs the method with 0; a container of
  another type ends the process (`bad_any_cast`). What too few arguments do is undefined: the
  process dies, or the method runs with what is past the end, which may be a zero (`Stray`).
* An address without a user or a port is read past its pieces, and a colon in its virtual host may
  be taken for a port (`ProbesTheHost` speaks of addresses that name both).
* *Together.* When the server's loop stops, the models let a reply be lost silently; what AMQP-CPP
  does with a publish on the connection that is being destroyed is not modelled (`StopDrains`).

## 7. What is not modelled, and the plan

| step | module | state |
|---|---|---|
| 1 | `ClientRpc`, `CallService`, `ClientRpcProofs` | done |
| 2 | `ClientPublish`, `ClientPublishProofs` | done |
| 3 | `ThreadPool`, `ServerRpc`, `RequestService`, `ServerRpcProofs`, `ServerEvents`, `ServerEventsProofs` | done |
| 4 | `RunServer`, `RunServerProofs` | done |
| 5 | `ClientLife`, `ClientLifeProofs` | done |
| 6 | `Codec`, `CodecProofs` | done |
| 7 | `RpcSystem`, `RpcSystemProofs` | done |

### Not modelled

* What happens inside AMQP-CPP when two threads use one connection, or when a connection is used
  while it is destroyed: the library's own state.
* A bind that the broker refuses in `publish`: there is no handler, so the publish sleeps for ever,
  as in `PublishReturns`. A refused callback queue is in `ClientLife`.
* The time that passes: deadlines and sleeps are nondeterministic.
* `get_connection`, `get_rpc_exchange`, `get_event_exchange`: each replaces an empty string by a
  constant.
* `load_config`, which reads a file, and logging.
* `pack_exc` and the exception classes, which no code of the library uses; the shape of the error
  `pack_exc` builds is the kind `error_object` of `ClientRpc`.
* The examples and tests, which are users of the library.
* `docs/html`: the pages and the JavaScript that Doxygen generated (search box, navigation tree,
  menus). It is no part of the C++ program and nothing in the program depends on it.
