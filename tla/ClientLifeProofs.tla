-------------------------- MODULE ClientLifeProofs ---------------------------
(***************************************************************************)
(* Proofs about ClientLife for any threads, calls, bindings, copies: type  *)
(* correctness, and that null channels and a destroyed client are met only *)
(* for the causes the properties name.                                     *)
(***************************************************************************)
EXTENDS ClientLife, TLAPS

(* The channels, and the object they belong to.                            *)

\* The constructor does not return before run() has made the channels ...
BuiltInv ==
  /\ loop = "starting" => ~is_running /\ queue = "none"
  /\ loop = "starting" => life = "building"
  /\ \A u \in Users : at[u] # "idle" => life # "building"

\* ... and they stay open until somebody releases them.
OpenInv ==
  /\ (loop # "starting" /\ ~should_stop) => channels = "open"
  /\ \A u \in Users : at[u] = "nulling" => should_stop

ChannelInv == BuiltInv /\ OpenInv

(* What clash remembers.                                                   *)

\* A use is next to a release, or after one.
UseInv ==
  \A u \in Users : Using(u) =>
    /\ should_stop => clash
    /\ \A v \in Users : Releasing(v) => clash

\* A release that finds the client released, or another one under way.
ReleaseInv ==
  \A u \in Users :
    /\ (at[u] = "stopping" /\ should_stop) => clash
    /\ \A v \in Users : (u # v /\ Releasing(u) /\ Releasing(v)) => clash

ClashInv == UseInv /\ ReleaseInv /\ NullExplained

(* Whose reply or confirmation is on its way.                              *)

\* A call without an outcome has its thread in it, or had it; so has a binding.
WaitedInv ==
  /\ \A c \in Calls : call[c] \in {"asked", "lost", "inflight", "handled"} =>
       c \in abandoned \/ \E u \in Users : cur[u] = c
  /\ \A b \in Binds : bind[b] = "asked" =>
       b \in hasty \/ \E u \in Users : cur[u] = b

\* The client is destroyed when nobody is inside a call.
OutsideInv ==
  life \in {"destroying", "gone"} =>
    \A u \in Users : at[u] \in {"idle", "stopping", "nulling"}

HandledInv == handling # None => call[handling] = "handled"

ReplyInv == WaitedInv /\ OutsideInv /\ HandledInv /\ QuietDestruction

-----------------------------------------------------------------------------
(* Every step is one of these actions of a living process, or a stutter.   *)
LoopActions ==
  \/ Run \/ Stop \/ Close \/ OnResponseSet \/ Connected \/ Bound \/ Unbound \/ OnError \/ Input
  \/ \E c \in Calls : OnResponse(c) \/ Reply(c)
  \/ \E b \in Binds : Confirmed(b)

UserActions ==
  \/ \E u \in Users : \/ Begin(u) \/ Send(u) \/ Publish(u) \/ Return(u)
                      \/ Release(u) \/ CloseChannels(u) \/ NullChannels(u)
  \/ Construct \/ Destroy \/ Destroyed
  \/ \E k \in Copies : Copy(k) \/ CopyEnds(k)

LEMMA Actions ==
  ASSUME [Next]_vars
  PROVE  LoopActions \/ UserActions \/ UNCHANGED vars
BY DEF Next, LoopStep, BrokerStep, Surroundings, UserStep, ReleaseStep, OwnerStep,
       CopyStep, Stopped, LoopActions, UserActions

(***************************************************************************)
(* Types.                                                                  *)
(***************************************************************************)
LEMMA TypeInit == Init => TypeOK
BY OwnerAssumption, NoneAssumption DEF Init, TypeOK, Lives, Places, Stages

LEMMA TypeStep == TypeOK /\ [Next]_vars => TypeOK'
<1> SUFFICES ASSUME TypeOK, [Next]_vars PROVE TypeOK'
  OBVIOUS
<1> USE OwnerAssumption, NoneAssumption
    DEF TypeOK, Lives, Places, Stages, Goto, Terminate, objectVars, userVars, loopVars,
        replyVars
<1>1. CASE LoopActions
  <2>11. CASE Run
    BY <2>11 DEF Run
  <2>12. CASE Stop
    BY <2>12 DEF Stop, Listening
  <2>13. CASE Close
    BY <2>13 DEF Close
  <2>14. CASE Connected
    BY <2>14 DEF Connected
  <2>15. CASE Bound
    BY <2>15 DEF Bound, Raised
  <2>16. CASE Unbound
    BY <2>16 DEF Unbound
  <2>17. CASE OnError
    BY <2>17 DEF OnError
  <2>18. CASE Input
    BY <2>18 DEF Input
  <2>2. CASE OnResponseSet
    BY <2>2 DEF OnResponseSet
  <2>3. ASSUME NEW c \in Calls, OnResponse(c) \/ Reply(c) PROVE TypeOK'
    BY <2>3 DEF OnResponse, Reply, Found
  <2>5. ASSUME NEW b \in Binds, Confirmed(b) PROVE TypeOK'
    BY <2>5 DEF Confirmed
  <2>4. QED
    BY <1>1, <2>2, <2>3, <2>5, <2>11, <2>12, <2>13, <2>14, <2>15, <2>16, <2>17, <2>18
       DEF LoopActions
<1>2. CASE UserActions
  <2>1. ASSUME NEW u \in Users, Begin(u) \/ Release(u) PROVE TypeOK'
    <3>1. clash' \in BOOLEAN
      BY <2>1 DEF Begin, Release
    <3>2. at' \in [Users -> Places] /\ cur' = cur
          /\ (\A v \in Users : at'[v] = "waiting" <=> cur[v] \in Calls)
          /\ (\A v \in Users : cur[v] \in Binds => at'[v] = "publishing")
      BY <2>1 DEF Begin, Release
    <3>3. fault' \in {fault, "null_channel"} /\ UNCHANGED <<abandoned, hasty>>
          /\ UNCHANGED <<objectVars, loopVars, replyVars>>
      BY <2>1 DEF Begin, Release
    <3>4. cur' \in [Users -> Calls \cup Binds \cup {None}]
      BY <3>2
    <3>5. \A v \in Users : cur'[v] = cur[v]
      BY <3>2
    <3>6. \A v \in Users : at'[v] = "waiting" <=> cur'[v] \in Calls
      BY <3>2, <3>5, Zenon
    <3>7. \A v \in Users : cur'[v] \in Binds => at'[v] = "publishing"
      BY <3>2, <3>5, Zenon
    <3>8. (abandoned \subseteq Calls)' /\ (hasty \subseteq Binds)'
      BY <3>3
    <3>9. (life \in Lives)' /\ (should_stop \in BOOLEAN)' /\ (copies \subseteq Copies)'
          /\ (channels \in {"null", "open", "closed"})'
      BY <3>3
    <3>10. (is_running \in BOOLEAN)' /\ (stdin \in BOOLEAN)'
          /\ (loop \in {"starting", "looping", "closing", "ended"})'
          /\ (conn \in {"none", "open", "lost"})'
          /\ (queue \in {"none", "asked", "bound", "refused", "closed"})'
      BY <3>3
    <3>11. (call \in [Calls -> Stages])' /\ (handling \in Calls \cup {None})'
          /\ (bind \in [Binds -> {"new", "asked", "lost", "confirmed"}])'
      BY <3>3
    <3>12. fault' \in {"none", "bad_evbase", "destroyed_client", "null_channel",
                     "freed_channel"}
      BY <3>3
    <3>13. QED
      BY <3>1, <3>2, <3>4, <3>8, <3>9, <3>10, <3>11, <3>12, <3>6, <3>7
  <2>7. ASSUME NEW u \in Users, CloseChannels(u) \/ NullChannels(u) PROVE TypeOK'
    <3>1. CASE CloseChannels(u)
      BY <3>1 DEF CloseChannels
    <3>2. CASE NullChannels(u)
      BY <3>2 DEF NullChannels
    <3>3. QED
      BY <2>7, <3>1, <3>2
  <2>2. ASSUME NEW u \in Users, Send(u) PROVE TypeOK'
    <3>1. CASE SendPublish(u)
      BY <2>2, <3>1 DEF Send, SendPublish, Outcome
    <3>2. ASSUME NEW c \in Calls, SendCall(u, c) PROVE TypeOK'
      BY <2>2, <3>2 DEF Send, SendCall, Outcome
    <3>3. CASE Terminate("freed_channel") /\ UNCHANGED <<at, cur, abandoned, call, bind>>
      BY <2>2, <3>3 DEF Send
    <3>4. QED
      BY <2>2, <3>1, <3>2, <3>3 DEF Send
  <2>8. ASSUME NEW u \in Users, Publish(u) PROVE TypeOK'
    BY <2>8 DEF Publish
  <2>3. ASSUME NEW u \in Users, Return(u) PROVE TypeOK'
    BY <2>3 DEF Return, LeaveCall
  <2>4. CASE Construct \/ Destroyed \/ Destroy
    BY <2>4 DEF Construct, Destroyed, Destroy
  <2>5. ASSUME NEW k \in Copies, Copy(k) \/ CopyEnds(k) PROVE TypeOK'
    BY <2>5 DEF Copy, CopyEnds
  <2>6. QED
    BY <1>2, <2>1, <2>2, <2>3, <2>4, <2>5, <2>7, <2>8 DEF UserActions
<1>3. CASE UNCHANGED vars
  BY <1>3 DEF vars
<1>4. QED
  BY <1>1, <1>2, <1>3, Actions

\* Every variable of the client keeps its type, for any threads, calls, bindings and copies.
THEOREM TypeCorrect == Spec => []TypeOK
BY TypeInit, TypeStep, PTL DEF Spec

(***************************************************************************)
(* ChannelsReady: although another thread makes the channels, whoever may  *)
(* use the client finds them open until somebody releases it.              *)
(***************************************************************************)
LEMMA ChannelInit == Init => ChannelInv
BY DEF Init, ChannelInv, BuiltInv, OpenInv

LEMMA ChannelStep == TypeOK /\ ChannelInv /\ [Next]_vars => ChannelInv'
<1> SUFFICES ASSUME TypeOK, ChannelInv, [Next]_vars PROVE ChannelInv'
  OBVIOUS
<1> USE OwnerAssumption
    DEF ChannelInv, BuiltInv, OpenInv, Goto, Terminate, objectVars, userVars, loopVars,
        replyVars
<1>0. at \in [Users -> Places] /\ is_running \in BOOLEAN /\ should_stop \in BOOLEAN
  BY DEF TypeOK
<1>1. CASE LoopActions
  <2>1. CASE Run
    BY <2>1, <1>0 DEF Run
  <2>2. CASE Bound
    BY <2>2, <1>0 DEF Bound, BindDone, Listening
  <2>3. CASE Stop \/ Close \/ OnResponseSet
    BY <2>3, <1>0 DEF Stop, Close, OnResponseSet, Listening
  <2>4. CASE Connected \/ Unbound \/ OnError \/ Input
    BY <2>4, <1>0 DEF Connected, Unbound, OnError, Input, Listening
  <2>5. ASSUME NEW c \in Calls, OnResponse(c) \/ Reply(c) PROVE ChannelInv'
    BY <2>5, <1>0 DEF OnResponse, Reply, Listening
  <2>7. ASSUME NEW b \in Binds, Confirmed(b) PROVE ChannelInv'
    BY <2>7, <1>0 DEF Confirmed, Listening
  <2>6. QED
    BY <1>1, <2>1, <2>2, <2>3, <2>4, <2>5, <2>7 DEF LoopActions
<1>2. CASE UserActions
  <2>1. ASSUME NEW u \in Users, Begin(u) \/ Return(u) PROVE ChannelInv'
    BY <2>1, <1>0 DEF Begin, Return, TypeOK
  <2>8. ASSUME NEW u \in Users, Send(u) PROVE ChannelInv'
    BY <2>8, <1>0 DEF Send, SendCall, SendPublish, TypeOK
  <2>9. ASSUME NEW u \in Users, Publish(u) PROVE ChannelInv'
    BY <2>9, <1>0 DEF Publish, TypeOK
  <2>2. ASSUME NEW u \in Users, Release(u) PROVE ChannelInv'
    BY <2>2, <1>0 DEF Release
  <2>3. ASSUME NEW u \in Users, CloseChannels(u) PROVE ChannelInv'
    BY <2>3, <1>0 DEF CloseChannels
  <2>4. ASSUME NEW u \in Users, NullChannels(u) PROVE ChannelInv'
    BY <2>4, <1>0 DEF NullChannels
  <2>5. CASE Construct \/ Destroyed \/ Destroy
    BY <2>5, <1>0 DEF Construct, Destroyed, Destroy
  <2>6. ASSUME NEW k \in Copies, Copy(k) \/ CopyEnds(k) PROVE ChannelInv'
    BY <2>6, <1>0 DEF Copy, CopyEnds
  <2>7. QED
    BY <1>2, <2>1, <2>2, <2>3, <2>4, <2>5, <2>6, <2>8, <2>9 DEF UserActions
<1>3. CASE UNCHANGED vars
  BY <1>3 DEF vars
<1>4. QED
  BY <1>1, <1>2, <1>3, Actions

\* A client whose constructor returned has open channels until it is released.
THEOREM ChannelsStayOpen == Spec => []ChannelsReady
<1>1. TypeOK /\ ChannelInv => ChannelsReady
  BY DEF TypeOK, ChannelInv, BuiltInv, OpenInv, ChannelsReady
<1>2. QED
  BY <1>1, TypeInit, TypeStep, ChannelInit, ChannelStep, PTL DEF Spec

(***************************************************************************)
(* NullExplained: a null channel is met only through a copy, or when a use *)
(* or a release met a release.                                             *)
(***************************************************************************)
LEMMA ClashInit == Init => ClashInv
BY DEF Init, ClashInv, UseInv, ReleaseInv, NullExplained, Releasing, Using

LEMMA ClashStep == TypeOK /\ ChannelInv /\ ClashInv /\ [Next]_vars => ClashInv'
<1> SUFFICES ASSUME TypeOK, ChannelInv, ClashInv, [Next]_vars PROVE ClashInv'
  OBVIOUS
<1> USE OwnerAssumption
    DEF ClashInv, UseInv, ReleaseInv, NullExplained, Releasing, Using, Goto, Terminate,
        objectVars, userVars, loopVars, replyVars
<1>0. at \in [Users -> Places]
  BY DEF TypeOK
<1>1. CASE LoopActions
  <2>1. UNCHANGED <<at, clash, copies, should_stop>>
        /\ fault' \in {fault, "bad_evbase", "destroyed_client"}
    BY <1>1 DEF LoopActions, Run, Stop, Close, OnResponseSet, Connected, Bound, Unbound,
                OnError, Input, OnResponse, Reply, Confirmed
  <2>2. QED
    BY <2>1
<1>2. CASE UserActions
  <2>1. ASSUME NEW u \in Users, Begin(u) PROVE ClashInv'
    BY <2>1, <1>0 DEF Begin, ChannelInv, BuiltInv, OpenInv, TypeOK
  <2>2. ASSUME NEW u \in Users, Send(u) PROVE ClashInv'
    BY <2>2, <1>0 DEF Send, SendCall, SendPublish, ChannelInv, BuiltInv, OpenInv, TypeOK
  <2>11. ASSUME NEW u \in Users, Publish(u) PROVE ClashInv'
    BY <2>11, <1>0 DEF Publish, ChannelInv, BuiltInv, OpenInv, TypeOK
  <2>3. ASSUME NEW u \in Users, Return(u) PROVE ClashInv'
    BY <2>3, <1>0 DEF Return
  <2>4. ASSUME NEW u \in Users, Release(u) PROVE ClashInv'
    BY <2>4, <1>0 DEF Release, Released
  <2>5. ASSUME NEW u \in Users, CloseChannels(u) PROVE ClashInv'
    BY <2>5, <1>0 DEF CloseChannels, ChannelInv, BuiltInv, OpenInv, TypeOK
  <2>6. ASSUME NEW u \in Users, NullChannels(u) PROVE ClashInv'
    BY <2>6, <1>0 DEF NullChannels
  <2>7. CASE Construct \/ Destroyed
    BY <2>7, <1>0 DEF Construct, Destroyed
  <2>8. CASE Destroy
    BY <2>8, <1>0 DEF Destroy, Released
  <2>9. ASSUME NEW k \in Copies, Copy(k) \/ CopyEnds(k) PROVE ClashInv'
    BY <2>9, <1>0 DEF Copy, CopyEnds
  <2>10. QED
    BY <1>2, <2>1, <2>2, <2>3, <2>4, <2>5, <2>6, <2>7, <2>8, <2>9, <2>11 DEF UserActions
<1>3. CASE UNCHANGED vars
  BY <1>3 DEF vars
<1>4. QED
  BY <1>1, <1>2, <1>3, Actions

\* Releasing a client and destroying it meets no null or freed channel, unless copies
\* exist or the application releases a client it still uses or releases it twice at once.
THEOREM ReleaseIsQuiet == Spec => []NullExplained
<1>1. ClashInv => NullExplained
  BY DEF ClashInv
<1>2. QED
  BY <1>1, TypeInit, TypeStep, ChannelInit, ChannelStep, ClashInit, ClashStep, PTL DEF Spec

(***************************************************************************)
(* QuietDestruction: the detached thread finds a client destroyed only for *)
(* a reply or a confirmation nobody waits for any more.                    *)
(***************************************************************************)
LEMMA ReplyInit == Init => ReplyInv
BY DEF Init, ReplyInv, WaitedInv, OutsideInv, HandledInv, QuietDestruction

LEMMA ReplyStep == TypeOK /\ ReplyInv /\ [Next]_vars => ReplyInv'
<1> SUFFICES ASSUME TypeOK, ReplyInv, [Next]_vars PROVE ReplyInv'
  OBVIOUS
<1> USE OwnerAssumption, NoneAssumption
    DEF ReplyInv, WaitedInv, OutsideInv, HandledInv, QuietDestruction, Goto, Terminate,
        objectVars, userVars, loopVars, replyVars
<1>0. /\ at \in [Users -> Places] /\ cur \in [Users -> Calls \cup Binds \cup {None}]
      /\ call \in [Calls -> Stages] /\ handling \in Calls \cup {None}
      /\ bind \in [Binds -> {"new", "asked", "lost", "confirmed"}]
      /\ \A u \in Users : at[u] = "waiting" <=> cur[u] \in Calls
      /\ \A u \in Users : cur[u] \in Binds => at[u] = "publishing"
  BY DEF TypeOK
\* Whoever could still wait for a reply has left before the client is gone.
<1>a. ASSUME NEW c \in Calls, life = "gone", call[c] \in {"inflight", "handled"}
      PROVE  c \in abandoned
  BY <1>a, <1>0
<1>b. ASSUME NEW b \in Binds, life = "gone", bind[b] = "asked"
      PROVE  b \in hasty
  BY <1>b, <1>0
<1>1. CASE LoopActions
  <2>1. CASE Run \/ Stop \/ Close
    BY <2>1 DEF Run, Stop, Close
  <2>2. CASE Connected \/ Bound \/ Unbound \/ OnError \/ Input
    BY <2>2 DEF Connected, Bound, Unbound, OnError, Input
  <2>3. CASE OnResponseSet
    BY <2>3, <1>0, <1>a DEF OnResponseSet
  <2>4. ASSUME NEW c \in Calls, OnResponse(c) PROVE ReplyInv'
    BY <2>4, <1>0, <1>a DEF OnResponse, Found, Listening
  <2>5. ASSUME NEW c \in Calls, Reply(c) PROVE ReplyInv'
    BY <2>5, <1>0 DEF Reply
  <2>7. ASSUME NEW b \in Binds, Confirmed(b) PROVE ReplyInv'
    BY <2>7, <1>0, <1>b DEF Confirmed
  <2>6. QED
    BY <1>1, <2>1, <2>2, <2>3, <2>4, <2>5, <2>7 DEF LoopActions
<1>2. CASE UserActions
  <2>1. ASSUME NEW u \in Users, Begin(u) \/ Release(u) PROVE ReplyInv'
    BY <2>1, <1>0 DEF Begin, Release
  <2>2. ASSUME NEW u \in Users, Send(u) PROVE ReplyInv'
    <3>1. CASE SendPublish(u)
      BY <2>2, <3>1, <1>0 DEF Send, SendPublish, Outcome
    <3>2. ASSUME NEW c \in Calls, SendCall(u, c) PROVE ReplyInv'
      BY <2>2, <3>2, <1>0 DEF Send, SendCall, Outcome
    <3>3. CASE Terminate("freed_channel") /\ UNCHANGED <<at, cur, abandoned, call, bind>>
      BY <2>2, <3>3 DEF Send
    <3>4. QED
      BY <2>2, <3>1, <3>2, <3>3 DEF Send
  <2>8. ASSUME NEW u \in Users, Publish(u) PROVE ReplyInv'
    BY <2>8, <1>0 DEF Publish
  <2>3. ASSUME NEW u \in Users, Return(u) PROVE ReplyInv'
    BY <2>3, <1>0 DEF Return, LeaveCall
  <2>4. ASSUME NEW u \in Users, CloseChannels(u) \/ NullChannels(u) PROVE ReplyInv'
    BY <2>4, <1>0 DEF CloseChannels, NullChannels
  <2>5. CASE Construct \/ Destroyed \/ Destroy
    BY <2>5, <1>0 DEF Construct, Destroyed, Destroy
  <2>6. ASSUME NEW k \in Copies, Copy(k) \/ CopyEnds(k) PROVE ReplyInv'
    BY <2>6, <1>0 DEF Copy, CopyEnds
  <2>7. QED
    BY <1>2, <2>1, <2>2, <2>3, <2>4, <2>5, <2>6, <2>8 DEF UserActions
<1>3. CASE UNCHANGED vars
  BY <1>3 DEF vars
<1>4. QED
  BY <1>1, <1>2, <1>3, Actions

\* A client is not touched again by its detached thread (run, on_response, the onSuccess
\* of publish) once it is destroyed, if each of its calls had its answer and each of its
\* bindings its confirmation when the thread that waited for it went on.
THEOREM DestructionIsQuiet == Spec => []QuietDestruction
<1>1. ReplyInv => QuietDestruction
  BY DEF ReplyInv
<1>2. QED
  BY <1>1, TypeInit, TypeStep, ReplyInit, ReplyStep, PTL DEF Spec
==============================================================================
