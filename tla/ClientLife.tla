----------------------------- MODULE ClientLife ------------------------------
(***************************************************************************)
(* The life of a MessageQueueClient (include/client.h, src/client.cc,      *)
(* include/amqp_handler.h).  Its constructor starts and detaches the       *)
(* thread of run(), which opens the connection and its two channels and    *)
(* asks for the callback queue, and spins until that queue is bound.       *)
(* Application threads then use the channels; any of them may call         *)
(* release(), and one destroys the client, which releases it too.  Neither *)
(* ends the detached thread: input on stdin does.                          *)
(*                                                                         *)
(* A copied or moved-to client has the names of the other, and nothing     *)
(* else.  What happens inside a call is in ClientRpc, inside a publish in  *)
(* ClientPublish; here it matters when they touch the client.              *)
(***************************************************************************)
CONSTANTS
  Users,   \* application threads
  Owner,   \* the one that constructs and destroys the client
  Calls,   \* the calls they make, each once
  Binds,   \* the bindings that their publishes to new keys ask for, each once
  Copies,  \* the objects copied or moved from the client
  None     \* no call, no binding

ASSUME OwnerAssumption == Owner \in Users
ASSUME NoneAssumption == None \notin Calls \cup Binds /\ Calls \cap Binds = {}

VARIABLES
  life,         \* of the client: "building", "built", "destroying" or "gone"
  should_stop,
  channels,     \* send_channel and recv_channel: "null", "open" or "closed"
  copies,       \* the copies that exist
  at,           \* what each thread does with the client
  cur,          \* the call each thread waits for, or the binding, or None
  abandoned,    \* history: the calls whose thread went on without an answer
  hasty,        \* history: the bindings whose publish returned before they were confirmed
  clash,        \* history: did a use or a release meet a release?
  is_running,
  loop,         \* where the thread of run() is
  conn,         \* its connection: "none" yet, "open" or "lost"
  queue,        \* the callback queue and its consumer
  stdin,        \* can something be read from stdin?
  call,         \* how far each call has come
  handling,     \* the call whose reply on_response is working on, or None
  bind,         \* how far each binding has come
  fault         \* why the process died, or "none"

objectVars == <<life, should_stop, channels, copies>>
userVars == <<at, cur, abandoned, hasty, clash>>
loopVars == <<is_running, loop, conn, queue, stdin>>
replyVars == <<call, handling, bind>>
vars == <<objectVars, userVars, loopVars, replyVars, fault>>

Lives == {"building", "built", "destroying", "gone"}
Places == {"idle", "sending", "publishing", "waiting", "stopping", "nulling"}
Stages == {"new", "asked", "lost", "inflight", "handled", "done"}

Init ==
  /\ life = "building"
  /\ should_stop = FALSE
  /\ channels = "null"
  /\ copies = {}
  /\ at = [u \in Users |-> "idle"]
  /\ cur = [u \in Users |-> None]
  /\ abandoned = {}
  /\ hasty = {}
  /\ clash = FALSE
  /\ is_running = FALSE
  /\ loop = "starting"
  /\ conn = "none"
  /\ queue = "none"
  /\ stdin = FALSE
  /\ call = [c \in Calls |-> "new"]
  /\ handling = None
  /\ bind = [b \in Binds |-> "new"]
  /\ fault = "none"

Alive == fault = "none"
Terminate(why) == fault' = why
Goto(u, l) == at' = [at EXCEPT ![u] = l]

-----------------------------------------------------------------------------
(* run(), on the detached thread.                                          *)

\* The connection, the channels, and the requests for the callback queue.
Run ==
  /\ loop = "starting"
  /\ loop' = "looping"
  /\ channels' = "open"
  /\ queue' = "asked"
  /\ UNCHANGED <<life, should_stop, copies, userVars, is_running, conn, stdin, replyVars,
                 fault>>

\* The loop waits for something to happen.
Listening == loop = "looping" /\ handling = None

Connected ==
  /\ Listening
  /\ conn = "none"
  /\ conn' = "open"
  /\ UNCHANGED <<objectVars, userVars, is_running, loop, queue, stdin, replyVars, fault>>

\* Fault variants: run() raises the flag itself; the callback does nothing.
ThreadStarted == queue \in {"none", "asked"}
NotRaised == is_running

BindDone == Listening /\ conn = "open" /\ queue = "asked"
Raised == TRUE

\* The broker bound the queue: onSuccess.
Bound ==
  /\ BindDone
  /\ queue' = "bound"
  /\ is_running' = Raised
  /\ UNCHANGED <<objectVars, userVars, loop, conn, stdin, replyVars, fault>>

\* The broker refuses the queue, for which there is no handler; or it confirms that
\* a released channel is closed, after which nothing is delivered.
Unbound ==
  /\ Listening /\ conn = "open"
  /\ \/ queue = "asked" /\ queue' = "refused"
     \/ queue = "bound" /\ channels # "open" /\ queue' = "closed"
  /\ UNCHANGED <<objectVars, userVars, is_running, loop, conn, stdin, replyVars, fault>>

\* onError breaks the loop of an indeterminate event base: this one, none, or the
\* process is gone.
OnError ==
  /\ Listening
  /\ conn # "lost"
  /\ conn' = "lost"
  /\ \/ loop' = "closing" /\ UNCHANGED fault
     \/ UNCHANGED <<loop, fault>>
     \/ Terminate("bad_evbase") /\ UNCHANGED loop
  /\ UNCHANGED <<objectVars, userVars, is_running, queue, stdin, replyVars>>

\* Somebody types, or stdin is closed.
Input ==
  /\ ~stdin
  /\ stdin' = TRUE
  /\ UNCHANGED <<objectVars, userVars, is_running, loop, conn, queue, replyVars, fault>>

\* The stdin event calls stop().
Stop ==
  /\ Listening
  /\ stdin
  /\ loop' = "closing"
  /\ UNCHANGED <<objectVars, userVars, is_running, conn, queue, stdin, replyVars, fault>>

\* loop() returns; conn.close().
Close ==
  /\ loop = "closing"
  /\ loop' = "ended"
  /\ conn' = "lost"
  /\ UNCHANGED <<objectVars, userVars, is_running, queue, stdin, replyVars, fault>>

-----------------------------------------------------------------------------
(* on_response, which uses the members of the client.                      *)

Reply(c) ==
  /\ call[c] = "asked"
  /\ conn = "open" /\ queue = "bound"
  /\ call' = [call EXCEPT ![c] = "inflight"]
  /\ UNCHANGED <<objectVars, userVars, loopVars, handling, bind, fault>>

\* Fault variant: the caller may go on before on_response is done with the client.
DoneAtOnce == "done"

Found == "handled"

\* The callback captured this; the entry of the call is looked up.
OnResponse(c) ==
  /\ Listening /\ conn = "open" /\ queue = "bound"
  /\ call[c] = "inflight"
  /\ IF life = "gone" THEN Terminate("destroyed_client") ELSE UNCHANGED fault
  /\ call' = [call EXCEPT ![c] = Found]
  /\ handling' = c
  /\ UNCHANGED <<objectVars, userVars, loopVars, bind>>

\* It is looked up again, and its result set.
OnResponseSet ==
  /\ handling # None
  /\ IF life = "gone" THEN Terminate("destroyed_client") ELSE UNCHANGED fault
  /\ call' = [call EXCEPT ![handling] = "done"]
  /\ handling' = None
  /\ UNCHANGED <<objectVars, userVars, loopVars, bind>>

\* onSuccess of the bindQueue of a publish captured this, too: the flag and pub_cv.
Confirmed(b) ==
  /\ Listening /\ conn = "open"
  /\ bind[b] = "asked"
  /\ IF life = "gone" THEN Terminate("destroyed_client") ELSE UNCHANGED fault
  /\ bind' = [bind EXCEPT ![b] = "confirmed"]
  /\ UNCHANGED <<objectVars, userVars, loopVars, call, handling>>

-----------------------------------------------------------------------------
(* The application: the constructor, calls and publishes.                  *)

\* while (true) {if (is_running) break;}
Construct ==
  /\ life = "building"
  /\ is_running
  /\ life' = "built"
  /\ UNCHANGED <<should_stop, channels, copies, userVars, loopVars, replyVars, fault>>

Releasing(u) == at[u] \in {"stopping", "nulling"}
Using(u) == at[u] \in {"sending", "publishing"}

\* call_async or publish: send_channel is read; null is dereferenced.
Begin(u) ==
  /\ life = "built"
  /\ at[u] = "idle"
  /\ clash' = (clash \/ should_stop \/ \E v \in Users : Releasing(v))
  /\ \/ channels # "null" /\ Goto(u, "sending") /\ UNCHANGED fault
     \/ channels = "null" /\ Terminate("null_channel") /\ UNCHANGED at
  /\ UNCHANGED <<objectVars, cur, abandoned, hasty, loopVars, replyVars>>

\* What becomes of a frame that is sent now.
Outcome == IF channels = "open" /\ conn = "open" THEN "asked" ELSE "lost"

\* The channel that was read is used, and may be gone by now: for the request of a call,
\* which may be a call_async that nobody waits for ...
SendCall(u, c) ==
  /\ channels # "null"
  /\ call[c] = "new"
  /\ call' = [call EXCEPT ![c] = Outcome]
  /\ \/ /\ cur' = [cur EXCEPT ![u] = c]
        /\ Goto(u, "waiting")
        /\ UNCHANGED abandoned
     \/ /\ abandoned' = abandoned \cup {c}
        /\ Goto(u, "idle")
        /\ UNCHANGED cur
  /\ UNCHANGED <<bind, fault>>

\* ... or for a publish, which asks for a binding if its key is new.
SendPublish(u) ==
  /\ channels # "null"
  /\ \/ \E b \in Binds :
          /\ bind[b] = "new"
          /\ bind' = [bind EXCEPT ![b] = Outcome]
          /\ cur' = [cur EXCEPT ![u] = b]
     \/ UNCHANGED <<bind, cur>>
  /\ Goto(u, "publishing")
  /\ UNCHANGED <<abandoned, call, fault>>

Send(u) ==
  /\ at[u] = "sending"
  /\ \/ /\ channels = "null"
        /\ Terminate("freed_channel")
        /\ UNCHANGED <<at, cur, abandoned, call, bind>>
     \/ SendPublish(u)
     \/ \E c \in Calls : SendCall(u, c)
  /\ UNCHANGED <<objectVars, hasty, clash, loopVars, handling>>

\* The wait for a binding is over: for any of them, for none if there was one before, or
\* although nothing was notified.  The event leaves.
Publish(u) ==
  /\ at[u] = "publishing"
  /\ \/ /\ channels # "null"
        /\ hasty' = IF cur[u] # None /\ bind[cur[u]] # "confirmed"
                    THEN hasty \cup {cur[u]} ELSE hasty
        /\ cur' = [cur EXCEPT ![u] = None]
        /\ Goto(u, "idle")
        /\ UNCHANGED fault
     \/ /\ channels = "null"
        /\ Terminate("null_channel")
        /\ UNCHANGED <<hasty, cur, at>>
  /\ UNCHANGED <<objectVars, abandoned, clash, loopVars, replyVars>>

\* Fault variant: the thread that timed out is still in its call.
StayInCall(u) == cur

LeaveCall(u) == [cur EXCEPT ![u] = None]

\* The result was set; or the deadline passed.
Return(u) ==
  /\ at[u] = "waiting"
  /\ \/ call[cur[u]] = "done" /\ UNCHANGED abandoned
     \/ abandoned' = abandoned \cup {cur[u]}
  /\ cur' = LeaveCall(u)
  /\ Goto(u, "idle")
  /\ UNCHANGED <<objectVars, hasty, clash, loopVars, replyVars, fault>>

-----------------------------------------------------------------------------
(* release(), the destructor, copies.                                      *)

\* Fault variant: should_stop is not looked at.
NeverReleased == FALSE

\* if (should_stop) return;
Released == should_stop

Release(u) ==
  /\ life = "built"
  /\ at[u] = "idle"
  /\ ~Released
  /\ Goto(u, "stopping")
  /\ clash' = (clash \/ \E v \in Users : Releasing(v) \/ Using(v))
  /\ UNCHANGED <<objectVars, cur, abandoned, hasty, loopVars, replyVars, fault>>

\* should_stop = true; close both channels.
CloseChannels(u) ==
  /\ at[u] = "stopping"
  /\ should_stop' = TRUE
  /\ \/ /\ channels # "null"
        /\ channels' = "closed"
        /\ Goto(u, "nulling")
        /\ UNCHANGED fault
     \/ /\ channels = "null"
        /\ Terminate("null_channel")
        /\ UNCHANGED <<channels, at>>
  /\ UNCHANGED <<life, copies, cur, abandoned, hasty, clash, loopVars, replyVars>>

NullChannels(u) ==
  /\ at[u] = "nulling"
  /\ channels' = "null"
  /\ Goto(u, "idle")
  /\ UNCHANGED <<life, should_stop, copies, cur, abandoned, hasty, clash, loopVars, replyVars,
                 fault>>

\* The application destroys a client nobody is inside of.
Destroy ==
  /\ life = "built"
  /\ \A u \in Users : at[u] = "idle"
  /\ life' = "destroying"
  /\ IF Released THEN UNCHANGED at ELSE Goto(Owner, "stopping")
  /\ UNCHANGED <<should_stop, channels, copies, cur, abandoned, hasty, clash, loopVars,
                 replyVars, fault>>

Destroyed ==
  /\ life = "destroying"
  /\ at[Owner] = "idle"
  /\ life' = "gone"
  /\ UNCHANGED <<should_stop, channels, copies, userVars, loopVars, replyVars, fault>>

\* The constructors for a copy and a move leave its channels null ...
Copy(k) ==
  /\ life = "built"
  /\ copies' = copies \cup {k}
  /\ UNCHANGED <<life, should_stop, channels, userVars, loopVars, replyVars, fault>>

\* ... which a use of the copy and its destructor dereference.
CopyEnds(k) ==
  /\ k \in copies
  /\ Terminate("null_channel")
  /\ UNCHANGED <<objectVars, userVars, loopVars, replyVars>>

-----------------------------------------------------------------------------
LoopStep ==
  Alive /\ (Run \/ Stop \/ Close \/ OnResponseSet \/ \E c \in Calls : OnResponse(c))
BrokerStep == Alive /\ (Connected \/ Bound \/ Unbound)
Surroundings ==
  Alive /\ (OnError \/ Input \/ (\E c \in Calls : Reply(c)) \/ \E b \in Binds : Confirmed(b))
ReleaseStep(u) == Alive /\ (CloseChannels(u) \/ NullChannels(u))
UserStep(u) == Alive /\ (Begin(u) \/ Send(u) \/ Publish(u) \/ Return(u) \/ Release(u))
OwnerStep == Alive /\ (Construct \/ Destroy \/ Destroyed)
CopyStep == Alive /\ \E k \in Copies : Copy(k) \/ CopyEnds(k)

\* The process died, the client is gone, or its constructor spins.
Stopped == (~Alive \/ life \in {"building", "gone"}) /\ UNCHANGED vars

Next ==
  \/ LoopStep
  \/ BrokerStep
  \/ Surroundings
  \/ \E u \in Users : UserStep(u) \/ ReleaseStep(u)
  \/ OwnerStep
  \/ CopyStep
  \/ Stopped

Spec == Init /\ [][Next]_vars

(* The thread of run() and the constructor run, and the broker accepts or  *)
(* refuses what it is asked for while there is a connection.               *)
FairSpec ==
  /\ Spec
  /\ WF_vars(LoopStep)
  /\ WF_vars(BrokerStep)
  /\ WF_vars(Alive /\ Construct)

-----------------------------------------------------------------------------
(* Properties.                                                             *)

\* Type correctness of every variable of the module.
TypeOK ==
  /\ life \in Lives
  /\ should_stop \in BOOLEAN
  /\ channels \in {"null", "open", "closed"}
  /\ copies \subseteq Copies
  /\ at \in [Users -> Places]
  /\ cur \in [Users -> Calls \cup Binds \cup {None}]
  /\ \A u \in Users : at[u] = "waiting" <=> cur[u] \in Calls
  /\ \A u \in Users : cur[u] \in Binds => at[u] = "publishing"
  /\ abandoned \subseteq Calls
  /\ hasty \subseteq Binds
  /\ clash \in BOOLEAN
  /\ is_running \in BOOLEAN
  /\ loop \in {"starting", "looping", "closing", "ended"}
  /\ conn \in {"none", "open", "lost"}
  /\ queue \in {"none", "asked", "bound", "refused", "closed"}
  /\ stdin \in BOOLEAN
  /\ call \in [Calls -> Stages]
  /\ handling \in Calls \cup {None}
  /\ bind \in [Binds -> {"new", "asked", "lost", "confirmed"}]
  /\ fault \in {"none", "bad_evbase", "destroyed_client", "null_channel", "freed_channel"}

\* A client whose constructor has returned has its channels until it is released,
\* although another thread makes them.
ChannelsReady == (life = "built" /\ ~should_stop) => channels = "open"

\* A channel that is null or freed is met only by a copy, or when a use or another
\* release came after or during a release: releasing a client and then destroying it,
\* or only destroying it, is fine.
NullExplained ==
  fault \in {"null_channel", "freed_channel"} => clash \/ copies # {}

\* The detached thread touches a destroyed client only for the reply to a call whose
\* thread did not wait for it to the end, or for a binding whose publish returned before
\* it was confirmed: a client whose calls were all answered and whose bindings were all
\* confirmed by the time their threads went on is destroyed safely, although a thread
\* goes on before on_response has let go of its call.
QuietDestruction == fault = "destroyed_client" => abandoned # {} \/ hasty # {}

\* The constructor returns, unless the connection breaks, the broker refuses the
\* queue, or the loop ends before; then it spins for ever.
ConstructorReturns ==
  (life = "building") ~>
    (life # "building" \/ conn = "lost" \/ queue = "refused" \/ loop = "ended" \/ ~Alive)
==============================================================================
