------------------------------ MODULE RunServer ------------------------------
(***************************************************************************)
(* The life of a MessageQueueServer (src/server.cc, include/server.h,      *)
(* include/amqp_handler.h): run_server on the application's main thread    *)
(* probes the broker, starts a thread for the event loop of run() and      *)
(* joins it; the application then destroys the server, whose maps go       *)
(* before its thread pool.  What the tasks of the pool do in between is    *)
(* in ServerRpc and ServerEvents.                                          *)
(***************************************************************************)
EXTENDS ThreadPool

CONSTANTS
  MaxTries,     \* max_tries of wait_conn
  Blocks,       \* values of the parameter "block" of run_server
  MaxMessages   \* bound: messages the broker delivers

ASSUME BoundsAssumption == MaxTries \in Nat /\ MaxMessages \in Nat
ASSUME BlocksAssumption == Blocks \subseteq BOOLEAN
ASSUME NoTaskAssumption == None \notin Nat

VARIABLES
  main,        \* where the main thread is
  block,       \* the parameter of run_server
  tries,       \* i of wait_conn
  sockets,     \* the tries whose socket is open
  is_setuped,
  loop,        \* where the thread of run() is
  conn,        \* its connection: "none" yet, "open" or "lost"
  received,    \* messages queued in the pool so far
  maps,        \* rpc_func_map and event_handler_map: "alive" or "destroyed"
  fault        \* why the process died, or "none"

mainVars == <<main, block, tries, sockets, is_setuped, maps>>
loopVars == <<loop, conn, received>>
vars == <<poolVars, mainVars, loopVars, fault>>

Init ==
  /\ PoolInit
  /\ main = "probing"
  /\ block \in Blocks
  /\ tries = 0
  /\ sockets = {}
  /\ is_setuped = FALSE
  /\ loop = "none"
  /\ conn = "none"
  /\ received = 0
  /\ maps = "alive"
  /\ fault = "none"

Alive == fault = "none"
Terminate(why) == fault' = why

-----------------------------------------------------------------------------
(* wait_conn.                                                              *)

\* Fault variant: one try too many.
OneMoreTry == tries <= MaxTries

MoreTries == tries < MaxTries
NextTry == tries + 1

\* socket(): there is one, or the try has failed.
Probe ==
  /\ main = "probing"
  /\ MoreTries
  /\ \/ main' = "dialing" /\ sockets' = sockets \cup {tries}
     \/ main' = "sleeping" /\ UNCHANGED sockets
  /\ UNCHANGED <<poolVars, block, tries, is_setuped, maps, loopVars, fault>>

\* Fault variant: the probe's socket is left to the event loop.
KeptOpen == sockets

\* close(server_socket)
Closed == sockets \ {tries}

\* connect(): only a socket that the broker accepted is closed.
Dial ==
  /\ main = "dialing"
  /\ \/ main' = "setup" /\ sockets' = Closed
     \/ main' = "sleeping" /\ UNCHANGED sockets
  /\ UNCHANGED <<poolVars, block, tries, is_setuped, maps, loopVars, fault>>

\* sleep(2^i), continue; the tries are used up, which run_server cannot tell.
Retry ==
  /\ \/ main = "sleeping" /\ main' = "probing" /\ tries' = NextTry
     \/ main = "probing" /\ ~MoreTries /\ main' = "setup" /\ UNCHANGED tries
  /\ UNCHANGED <<poolVars, block, sockets, is_setuped, maps, loopVars, fault>>

-----------------------------------------------------------------------------
(* run_server.                                                             *)

Setup ==
  /\ main = "setup"
  /\ is_setuped' = TRUE
  /\ main' = "start"
  /\ UNCHANGED <<poolVars, block, tries, sockets, maps, loopVars, fault>>

StartThread ==
  /\ main = "start"
  /\ loop' = "connecting"
  /\ main' = IF block THEN "joining" ELSE "leaving"
  /\ UNCHANGED <<poolVars, block, tries, sockets, is_setuped, maps, conn, received, fault>>

\* Fault variant: run_t.detach(), which the source has in a comment.
LeaveDetached ==
  /\ main = "leaving"
  /\ main' = "returned"
  /\ UNCHANGED <<poolVars, block, tries, sockets, is_setuped, maps, loopVars, fault>>

\* block = false: the destructor of run_t meets a thread that was not joined.
Leave ==
  /\ main = "leaving"
  /\ Terminate("not_joined")
  /\ UNCHANGED <<poolVars, mainVars, loopVars>>

\* Fault variant: the exception of join() does not end the loop.
TryAgain == "joined"

\* catch (...) { break; }
AfterCatch == "returned"

\* The first join() waits for run(); the next one throws, which ends while (true).
Join ==
  /\ \/ main = "joining" /\ loop = "ended" /\ main' = "joined"
     \/ main = "joined" /\ main' = AfterCatch
  /\ UNCHANGED <<poolVars, block, tries, sockets, is_setuped, maps, loopVars, fault>>

\* ~MessageQueueServer: teardown(), then the members in reverse order, first the
\* two maps and then the pool, which waits for its tasks.
DestroyMaps ==
  /\ main = "returned"
  /\ is_setuped' = FALSE
  /\ maps' = "destroyed"
  /\ main' = "waiting"
  /\ UNCHANGED <<poolVars, block, tries, sockets, loopVars, fault>>

DestroyPool ==
  /\ main = "waiting"
  /\ tasks = <<>>
  /\ \A w \in Workers : job[w] = None
  /\ main' = "gone"
  /\ UNCHANGED <<poolVars, block, tries, sockets, is_setuped, maps, loopVars, fault>>

-----------------------------------------------------------------------------
(* run(), on its own thread.                                               *)

\* Connection, channels, declarations and consumers; then the event loop.
Run ==
  /\ loop = "connecting"
  /\ loop' = "looping"
  /\ UNCHANGED <<poolVars, mainVars, conn, received, fault>>

Connected ==
  /\ loop = "looping"
  /\ conn = "none"
  /\ conn' = "open"
  /\ UNCHANGED <<poolVars, mainVars, loop, received, fault>>

Receive ==
  /\ loop = "looping"
  /\ conn = "open"
  /\ received < MaxMessages
  /\ received' = received + 1
  /\ Detach(received')
  /\ UNCHANGED <<mainVars, loop, conn, fault>>

\* The broker is not there or the connection breaks.  onError breaks the loop of
\* evbase_, which the constructor initialises with itself: whatever is in that
\* memory may be this loop, may be ignored or may crash.
OnError ==
  /\ loop = "looping"
  /\ conn # "lost"
  /\ conn' = "lost"
  /\ \/ loop' = "closing" /\ UNCHANGED fault
     \/ UNCHANGED <<loop, fault>>
     \/ Terminate("bad_evbase") /\ UNCHANGED loop
  /\ UNCHANGED <<poolVars, mainVars, received>>

\* Something can be read from stdin, or it was closed.
Stop ==
  /\ loop = "looping"
  /\ loop' = "closing"
  /\ UNCHANGED <<poolVars, mainVars, conn, received, fault>>

\* loop() returns; conn.close().
Close ==
  /\ loop = "closing"
  /\ loop' = "ended"
  /\ conn' = "lost"
  /\ UNCHANGED <<poolVars, mainVars, received, fault>>

-----------------------------------------------------------------------------
(* The workers of the pool: _rpc_worker and _event_worker use the maps.    *)

Start(w) ==
  /\ Take(w)
  /\ UNCHANGED <<mainVars, loopVars, fault>>

Finish(w) ==
  /\ job[w] # None
  /\ \/ Done(w) /\ UNCHANGED fault
     \/ maps = "destroyed" /\ Terminate("destroyed_map") /\ UNCHANGED poolVars
  /\ UNCHANGED <<mainVars, loopVars>>

-----------------------------------------------------------------------------
MainStep ==
  /\ Alive
  /\ \/ Probe \/ Dial \/ Retry \/ Setup \/ StartThread \/ Leave \/ Join
     \/ DestroyMaps \/ DestroyPool
LoopStep == Alive /\ (Run \/ Close)
Surroundings == Alive /\ (Connected \/ Receive \/ OnError \/ Stop)
WorkerStep(w) == Alive /\ (Start(w) \/ Finish(w))

Stopped == (~Alive \/ main = "gone") /\ UNCHANGED vars

Next ==
  \/ MainStep
  \/ LoopStep
  \/ Surroundings
  \/ \E w \in Workers : WorkerStep(w)
  \/ Stopped

Spec == Init /\ [][Next]_vars

(* Threads that can run do run, and tasks end.  Nothing makes a broker     *)
(* accept or deliver, a connection break, or a user type.                  *)
FairSpec ==
  /\ Spec
  /\ WF_vars(MainStep)
  /\ WF_vars(LoopStep)
  /\ \A w \in Workers : WF_vars(WorkerStep(w))

-----------------------------------------------------------------------------
(* Properties.                                                             *)

\* Type correctness of every variable of the module.
TypeOK ==
  /\ tasks \in Seq(1..MaxMessages)
  /\ job \in [Workers -> 1..MaxMessages \cup {None}]
  /\ main \in {"probing", "dialing", "sleeping", "setup", "start", "joining", "joined",
               "leaving", "returned", "waiting", "gone"}
  /\ block \in BOOLEAN
  /\ tries \in 0..MaxTries
  /\ sockets \subseteq 0..MaxTries - 1
  /\ is_setuped \in BOOLEAN
  /\ loop \in {"none", "connecting", "looping", "closing", "ended"}
  /\ conn \in {"none", "open", "lost"}
  /\ received \in 0..MaxMessages
  /\ maps \in {"alive", "destroyed"}
  /\ fault \in {"none", "not_joined", "bad_evbase", "destroyed_map"}

\* run_server does not return before the event loop has ended, although it joins
\* the thread in an endless loop that only an exception leaves; so the destructor of the
\* server leaves no thread behind that captured its address.
ReturnsAfterLoop == main \in {"returned", "waiting", "gone"} => loop = "ended"

\* A socket that stays open is that of a try whose connect() failed: a try that reached
\* the broker leaves none behind, so a server that finds its broker at once leaks
\* nothing, and no server more than a socket for each failed try (wait_conn).
OnlyFailedTriesLeak ==
  \A i \in sockets : i < tries \/ (i = tries /\ main \in {"dialing", "sleeping"})

\* When the event loop stops, run_server returns and the server is destroyed, or
\* the process dies on the way.
StopEndsServer == (loop = "closing") ~> (main = "gone" \/ ~Alive)
==============================================================================
