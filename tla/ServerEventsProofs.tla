------------------------- MODULE ServerEventsProofs --------------------------
(***************************************************************************)
(* Proofs about ServerEvents for any workers, application threads, events, *)
(* types and callbacks, also when accesses to event_handler_map race: type *)
(* correctness, that a callback runs at most once for an event, why a      *)
(* registered handler may be gone, and why the process may die of that.    *)
(***************************************************************************)
EXTENDS ServerEvents, FiniteSetTheorems, WellFoundedInduction, TLAPS

\* The callbacks that have an id, or whose registration has counted one.
Numbered ==
  {c \in Callbacks : given[c] # 0 \/ \E a \in Apps : edit[a] = [do |-> "insert", cb |-> c]}

\* Ids are counted; a callback is registered once.
EditInv ==
  /\ evt_cb_id = Cardinality(Numbered)
  /\ \A a \in Apps : Registering(a) => given[edit[a].cb] = 0
  /\ \A a, b \in Apps :
       (Registering(a) /\ Registering(b) /\ edit[a].cb = edit[b].cb) => a = b

\* An entry is under the type and the id its callback was registered with.
MapInv ==
  \A h \in event_handler_map : h.type = TypeOf[h.cb] /\ h.id = given[h.cb]

\* A task is for an event that was published and a callback that was registered.
Sourced(published, ids, t) ==
  /\ published[t.event] # None
  /\ \E c \in Callbacks : ids[c] = t.id /\ TypeOf[c] = published[t.event].type

TaskInv ==
  /\ \A i \in DOMAIN pending : evt[pending[i]] # None
  /\ cursor # None => evt[cursor.event] # None
  /\ \A i \in DOMAIN tasks : Sourced(evt, given, tasks[i])
  /\ \A w \in Workers : at[w] # "start" => job[w] # None
  /\ \A w \in Workers : job[w] # None => Sourced(evt, given, job[w])

\* Without an overlap there is one change at a time, and the id a registration reads
\* is its own.
IdInv ==
  /\ \A c \in Callbacks : given[c] <= evt_cb_id
  /\ ~overlapped =>
       \A a \in Apps : edit[a] # None =>
         /\ \A b \in Apps : edit[b] # None => a = b
         /\ Inserting(a) => \A c \in Callbacks : given[c] < evt_cb_id

\* A registration that assigns the type its map finds no handler there.
KeepInv ==
  /\ \A h \in event_handler_map : h.type \in types
  /\ \A a \in Apps : edit[a] # None /\ edit[a].do = "erase" => edit[a].id \in erased
  /\ ~overlapped =>
       \A a \in Apps : (Registering(a) /\ edit[a].do = "assign") =>
         TypeOf[edit[a].cb] \notin types
  /\ \A a \in Apps : (Registering(a) /\ edit[a].do # "assign") =>
       TypeOf[edit[a].cb] \in types
  /\ RegistrationsLast

\* The event loop is done with this event and id.
Passed(queue, walk, e, id) ==
  /\ \A i \in DOMAIN queue : queue[i] # e
  /\ (walk # None /\ walk.event = e) => id <= walk.last

\* Events, tasks and jobs are there once.
OnceInv ==
  /\ \A i, j \in DOMAIN pending : pending[i] = pending[j] => i = j
  /\ cursor # None => \A i \in DOMAIN pending : pending[i] # cursor.event
  /\ \A i, j \in DOMAIN tasks : tasks[i] = tasks[j] => i = j
  /\ \A v, w \in Workers : (job[v] # None /\ job[v] = job[w]) => v = w
  /\ \A i \in DOMAIN tasks, w \in Workers : tasks[i] # job[w]
  /\ \A i \in DOMAIN tasks : Passed(pending, cursor, tasks[i].event, tasks[i].id)
  /\ \A w \in Workers : job[w] # None => Passed(pending, cursor, job[w].event, job[w].id)

\* What was run has no task left.
RunInv ==
  \A e \in Events, c \in Callbacks : runs[e][c] > 0 =>
    /\ runs[e][c] = 1
    /\ given[c] # 0
    /\ evt[e] # None /\ evt[e].type = TypeOf[c]
    /\ Passed(pending, cursor, e, given[c])
    /\ \A i \in DOMAIN tasks : tasks[i] # [event |-> e, id |-> given[c]]
    /\ \A w \in Workers : at[w] = "call" => job[w] # [event |-> e, id |-> given[c]]

-----------------------------------------------------------------------------
USE TypesAssumption, CallbacksAssumption, ShapesAssumption, PlatformAssumption,
    NoneAssumption

(* Sequences and minima.                                                   *)

LEMMA AppendFacts ==
  ASSUME NEW S, NEW s \in Seq(S), NEW t \in S
  PROVE  /\ Append(s, t) \in Seq(S)
         /\ \A i \in DOMAIN Append(s, t) :
              \/ i \in DOMAIN s /\ Append(s, t)[i] = s[i]
              \/ i = Len(s) + 1 /\ Append(s, t)[i] = t
OBVIOUS

LEMMA TailFacts ==
  ASSUME NEW S, NEW s \in Seq(S), s # <<>>
  PROVE  /\ Tail(s) \in Seq(S)
         /\ 1 \in DOMAIN s /\ Head(s) = s[1] /\ Head(s) \in S
         /\ \A i \in DOMAIN Tail(s) :
              i \in Nat /\ i # 0 /\ i + 1 \in DOMAIN s /\ Tail(s)[i] = s[i + 1]
OBVIOUS

LEMMA MinFacts ==
  ASSUME NEW S \in SUBSET Nat, S # {}
  PROVE  Min(S) \in S /\ \A j \in S : Min(S) <= j
<1> DEFINE R == {p \in Nat \X Nat : p[1] < p[2]}
<1>1. IsWellFoundedOn(R, Nat)
  <2>1. R = OpToRel(<, Nat)
    BY DEF OpToRel
  <2>2. QED
    BY <2>1, NatLessThanWellFounded
<1>2. \E x \in S : \A y \in S : <<y, x>> \notin R
  <2> HIDE DEF R
  <2>1. QED
    BY <1>1, WFMin
<1>3. \E x \in S : \A y \in S : x <= y
  <2>1. PICK x \in S : \A y \in S : <<y, x>> \notin R
    BY <1>2
  <2>2. ASSUME NEW y \in S, y < x PROVE FALSE
    <3>1. <<y, x>> \in R
      BY <2>2
    <3>2. QED
      BY <2>1, <3>1
  <2>3. QED
    BY <2>2
<1>4. QED
  BY <1>3 DEF Min

LEMMA IdsFinite == Cardinality(Callbacks) \in Nat /\ CbIds \subseteq Nat \ {0}
BY FS_CardinalityType DEF CbIds

LEMMA IdsNat == \A x \in CbIds \cup {0} : x \in Nat
BY IdsFinite

(* Every step is one of these.                                             *)
LoopActions == OnEventMessage \/ Dispatch
WorkerActions == \E w \in Workers : Start(w) \/ Call(w) \/ Finish(w)
AppActions ==
  \E a \in Apps :
    \/ \E c \in Callbacks : Register(a, c)
    \/ Assign(a)
    \/ Count(a)
    \/ Insert(a)
    \/ \E id \in CbIds : Unregister(a, id)
    \/ Erase(a)

LEMMA Actions ==
  ASSUME [Next]_vars
  PROVE  \/ ClientStep
         \/ Alive /\ (LoopActions \/ WorkerActions \/ AppActions)
         \/ UNCHANGED vars
BY DEF Next, LoopStep, WorkerStep, AppStep, Stopped, LoopActions, WorkerActions, AppActions

\* What the event loop and the workers leave alone.
LEMMA OtherActions ==
  ASSUME ClientStep \/ LoopActions \/ WorkerActions \/ UNCHANGED vars
  PROVE  UNCHANGED <<evt_cb_id, edit, given, erased, overlapped, types, event_handler_map>>
BY DEF ClientStep, LoopActions, WorkerActions, PublishEvent, OnEventMessage, Dispatch,
       Start, Call, Finish, vars, mapVars, editVars

(***************************************************************************)
(* Types.                                                                  *)
(***************************************************************************)
LEMMA TypeInit == Init => TypeOK
<1> SUFFICES ASSUME Init PROVE TypeOK
  OBVIOUS
<1>1. tasks \in Seq(Tasks) /\ pending \in Seq(Events)
  BY DEF Init, PoolInit
<1>2. QED
  BY <1>1, IdsFinite DEF Init, PoolInit, TypeOK

\* What a registration under way is.
LEMMA EditKinds ==
  ASSUME TypeOK, NEW a \in Apps, Registering(a)
  PROVE  /\ edit[a].cb \in Callbacks /\ TypeOf[edit[a].cb] \in Types
         /\ edit[a].do \in {"assign", "count", "insert"}
         /\ edit[a] = [do |-> edit[a].do, cb |-> edit[a].cb]
<1>1. edit[a] \in [do : {"assign", "count", "insert"}, cb : Callbacks]
  BY DEF TypeOK, Registering, Edits
<1>2. QED
  BY <1>1

LEMMA EditMade ==
  ASSUME NEW c \in Callbacks
  PROVE  /\ [do |-> "assign", cb |-> c] \in Edits /\ [do |-> "assign", cb |-> c] # None
         /\ [do |-> "count", cb |-> c] \in Edits /\ [do |-> "count", cb |-> c] # None
         /\ [do |-> "insert", cb |-> c] \in Edits /\ [do |-> "insert", cb |-> c] # None
BY DEF Edits

LEMMA InsertMade == \A c \in Callbacks : [do |-> "insert", cb |-> c] # None
BY DEF Edits

\* One more callback gets an id: there is one left.
LEMMA NextIdType ==
  ASSUME TypeOK, EditInv, NEW a \in Apps, Count(a)
  PROVE  /\ evt_cb_id' = evt_cb_id + 1 /\ evt_cb_id' \in CbIds
         /\ evt_cb_id' = Cardinality(Numbered \cup {edit[a].cb})
<1> DEFINE c == edit[a].cb
<1>0. c \in Callbacks /\ given[c] = 0 /\ edit[a].do = "count"
  BY EditKinds DEF Count, EditInv
<1>1. IsFiniteSet(Numbered) /\ Numbered \cup {c} \subseteq Callbacks
  BY <1>0, FS_Subset DEF Numbered
<1>2. c \notin Numbered
  <2>1. ASSUME NEW b \in Apps, edit[b] = [do |-> "insert", cb |-> c] PROVE FALSE
    <3>0. edit[b].cb = c /\ edit[b].do = "insert" /\ edit[b] # None
      BY <1>0, <2>1, InsertMade
    <3>1. Registering(b) /\ edit[b].cb = c /\ edit[b].do = "insert"
      BY <3>0 DEF Registering
    <3>2. b = a
      BY <3>1 DEF EditInv, Count
    <3>3. QED
      BY <1>0, <3>1, <3>2
  <2>2. QED
    BY <1>0, <2>1 DEF Numbered
<1>3. Cardinality(Numbered \cup {c}) = Cardinality(Numbered) + 1
  BY <1>1, <1>2, FS_AddElement
<1>4. Cardinality(Numbered \cup {c}) <= Cardinality(Callbacks)
  BY <1>1, FS_Subset
<1>5. evt_cb_id' = Cardinality(Numbered) + 1 /\ Cardinality(Numbered) \in Nat
  BY <1>1, FS_CardinalityType DEF Count, NextId, EditInv
<1>6. QED
  BY <1>3, <1>4, <1>5, IdsFinite DEF CbIds, EditInv

LEMMA InsertIdType ==
  ASSUME TypeOK, EditInv, NEW a \in Apps, Inserting(a)
  PROVE  evt_cb_id \in CbIds /\ edit[a].cb \in Callbacks
         /\ edit[a] = [do |-> "insert", cb |-> edit[a].cb]
<1>1. /\ edit[a].cb \in Callbacks
      /\ edit[a] = [do |-> "insert", cb |-> edit[a].cb]
  BY EditKinds DEF Inserting
<1>2. edit[a].cb \in Numbered
  BY <1>1 DEF Numbered
<1>3. IsFiniteSet(Numbered)
  BY FS_Subset DEF Numbered
<1>4. Cardinality(Numbered) # 0
  BY <1>2, <1>3, FS_EmptySet
<1>5. QED
  BY <1>1, <1>4 DEF TypeOK, EditInv

\* The handlers the walk has ahead.
LEMMA AheadFacts ==
  ASSUME TypeOK, cursor # None
  PROVE  /\ cursor \in Walks
         /\ Ahead \subseteq CbIds /\ Ahead \subseteq Nat
         /\ \A id \in Ahead :
              id > cursor.last /\ \E h \in Handlers(evt[cursor.event].type) : h.id = id
<1>1. cursor \in Walks
  BY DEF TypeOK
<1>2. \A id \in Ahead :
        id > cursor.last /\ \E h \in Handlers(evt[cursor.event].type) : h.id = id
  BY DEF Ahead
<1>3. \A h \in Handlers(evt[cursor.event].type) : h.id \in CbIds
  BY DEF Handlers, TypeOK, Entries
<1>4. QED
  BY <1>1, <1>2, <1>3, IdsFinite

LEMMA TypeStep == TypeOK /\ EditInv /\ TaskInv /\ [Next]_vars => TypeOK'
<1> SUFFICES ASSUME TypeOK, EditInv, TaskInv, [Next]_vars PROVE TypeOK'
  OBVIOUS
<1> USE DEF TypeOK, Terminate, poolVars, brokerVars, mapVars, editVars, walkVars
<1>1. CASE ClientStep
  <2> SUFFICES ASSUME NEW e \in Events, NEW ty \in Types, NEW f \in Forms,
                      PublishEvent(e, ty, f)
               PROVE  TypeOK'
    BY <1>1 DEF ClientStep
  <2>1. pending' \in Seq(Events)
    BY AppendFacts DEF PublishEvent
  <2>2. evt' \in [Events -> Published \cup {None}]
    BY DEF PublishEvent, Published
  <2>3. due' \in [Events -> SUBSET Callbacks]
    BY DEF PublishEvent, Handlers, Entries
  <2>4. QED
    BY <2>1, <2>2, <2>3 DEF PublishEvent
<1>2. CASE OnEventMessage
  <2>1. pending' \in Seq(Events) /\ Head(pending) \in Events
    BY <1>2, TailFacts DEF OnEventMessage
  <2>2. cursor' \in Walks \cup {None} /\ missed' \subseteq Events
    BY <1>2, <2>1 DEF OnEventMessage, Walks
  <2>3. QED
    BY <1>2, <2>1, <2>2 DEF OnEventMessage
<1>3. CASE Dispatch
  <2>1. cursor \in Walks /\ Ahead \subseteq CbIds /\ Ahead \subseteq Nat
    BY <1>3, AheadFacts DEF Dispatch
  <2>2. CASE Ahead # {}
    <3>1. Min(Ahead) \in CbIds
      BY <2>1, <2>2, MinFacts
    <3>2. [event |-> cursor.event, id |-> Min(Ahead)] \in Tasks
      BY <2>1, <3>1 DEF Tasks, Walks
    <3>3. Append(tasks, [event |-> cursor.event, id |-> Min(Ahead)]) \in Seq(Tasks)
      BY <3>2, AppendFacts
    <3>4. StepOver(Min(Ahead)) \in Walks
      BY <2>1, <3>1 DEF StepOver, Walks
    <3>5. tasks' \in Seq(Tasks) /\ job' = job /\ cursor' \in Walks \cup {None}
      BY <1>3, <3>3, <3>4 DEF Dispatch, Detach
    <3>6. QED
      BY <1>3, <3>5 DEF Dispatch
  <2>3. CASE Ahead = {}
    BY <1>3, <2>3 DEF Dispatch
  <2>4. QED
    BY <2>2, <2>3
<1>4. ASSUME NEW w \in Workers, Start(w) PROVE TypeOK'
  <2>1. tasks' \in Seq(Tasks) /\ Head(tasks) \in Tasks
    BY <1>4, TailFacts DEF Start, Take
  <2>2. job' \in [Workers -> Tasks \cup {None}]
    BY <1>4, <2>1 DEF Start, Take
  <2>3. QED
    BY <1>4, <2>1, <2>2 DEF Start
<1>5. ASSUME NEW w \in Workers, Call(w) PROVE TypeOK'
  <2>1. job[w] \in Tasks /\ evt[job[w].event] \in Published
    BY <1>5 DEF Call, TaskInv, Sourced, Tasks
  <2>2. hollow' \subseteq [type : Types, id : CbIds]
    BY <1>5, <2>1 DEF Call, Tasks, Published
  <2>3. runs' \in [Events -> [Callbacks -> Nat]]
    <3>1. ASSUME NEW h \in HandlerOf(job[w]), Runs(job[w].event, h.cb)
          PROVE  runs' \in [Events -> [Callbacks -> Nat]]
      BY <2>1, <3>1 DEF Runs, HandlerOf, Handlers, Entries, Tasks
    <3>2. QED
      BY <1>5, <3>1 DEF Call
  <2>4. at' \in [Workers -> {"start", "call", "run"}]
    BY <1>5 DEF Call
  <2>5. QED
    BY <1>5, <2>2, <2>3, <2>4 DEF Call
<1>6. ASSUME NEW w \in Workers, Finish(w) PROVE TypeOK'
  BY <1>6 DEF Finish, Done
<1>7. ASSUME NEW a \in Apps, NEW c \in Callbacks, Register(a, c) PROVE TypeOK'
  <2>1. edit' \in [Apps -> Edits \cup {None}]
    BY <1>7, EditMade DEF Register
  <2>2. overlapped' \in BOOLEAN
    BY <1>7 DEF Register
  <2>3. QED
    BY <1>7, <2>1, <2>2 DEF Register
<1>8. ASSUME NEW a \in Apps, Assign(a) PROVE TypeOK'
  <2>1. edit' \in [Apps -> Edits \cup {None}] /\ types' \subseteq Types
    BY <1>8, EditKinds, EditMade DEF Assign
  <2>2. event_handler_map' \subseteq Entries
    BY <1>8 DEF Assign, Change
  <2>3. fault' \in {fault, "erased_handler", "map_race"}
    BY <1>8 DEF Assign, Change
  <2>4. QED
    BY <1>8, <2>1, <2>2, <2>3 DEF Assign
<1>9. ASSUME NEW a \in Apps, Count(a) PROVE TypeOK'
  <2>1. evt_cb_id' \in CbIds \cup {0}
    BY <1>9, NextIdType
  <2>2. edit' \in [Apps -> Edits \cup {None}]
    BY <1>9, EditKinds, EditMade DEF Count
  <2>3. QED
    BY <1>9, <2>1, <2>2 DEF Count
<1>10. ASSUME NEW a \in Apps, Insert(a) PROVE TypeOK'
  <2>1. evt_cb_id \in CbIds /\ edit[a].cb \in Callbacks
    BY <1>10, InsertIdType DEF Insert
  <2>2. TypeOf[edit[a].cb] \in Types
    BY <2>1
  <2>3. event_handler_map' \subseteq Entries
    BY <1>10, <2>1, <2>2 DEF Insert, Change, Entries
  <2>4. given' \in [Callbacks -> CbIds \cup {0}]
    BY <1>10, <2>1 DEF Insert
  <2>5. edit' \in [Apps -> Edits \cup {None}]
    BY <1>10 DEF Insert
  <2>6. fault' \in {fault, "erased_handler", "map_race", "assert"}
    BY <1>10 DEF Insert, Change
  <2>7. QED
    BY <1>10, <2>3, <2>4, <2>5, <2>6 DEF Insert
<1>13. ASSUME NEW a \in Apps, NEW id \in CbIds, Unregister(a, id) PROVE TypeOK'
  <2>1. edit' \in [Apps -> Edits \cup {None}] /\ erased' \subseteq CbIds
    BY <1>13 DEF Unregister, Edits
  <2>2. overlapped' \in BOOLEAN
    BY <1>13 DEF Unregister
  <2>3. QED
    BY <1>13, <2>1, <2>2 DEF Unregister
<1>14. ASSUME NEW a \in Apps, Erase(a) PROVE TypeOK'
  <2>1. event_handler_map' \subseteq Entries /\ fault' \in {fault, "erased_handler", "map_race"}
    BY <1>14 DEF Erase, Change
  <2>2. edit' \in [Apps -> Edits \cup {None}]
    BY <1>14 DEF Erase
  <2>3. QED
    BY <1>14, <2>1, <2>2 DEF Erase
<1>11. CASE UNCHANGED vars
  BY <1>11 DEF vars
<1>12. QED
  BY <1>1, <1>2, <1>3, <1>4, <1>5, <1>6, <1>7, <1>8, <1>9, <1>10, <1>11,
     <1>13, <1>14, Actions
     DEF LoopActions, WorkerActions, AppActions

-----------------------------------------------------------------------------
(***************************************************************************)
(* Registrations.                                                          *)
(***************************************************************************)
LEMMA EditInit == Init => EditInv
<1> SUFFICES ASSUME Init PROVE EditInv
  OBVIOUS
<1>1. \A a \in Apps : ~Registering(a)
  BY DEF Init, Registering
<1>2. Numbered = {}
  BY EditMade DEF Init, Numbered
<1>3. QED
  BY <1>1, <1>2, FS_EmptySet DEF EditInv, Init

\* An application thread goes on in its registration.
LEMMA EditMoves ==
  ASSUME TypeOK, EditInv, NEW a \in Apps, NEW x, given[x.cb] = 0, given' = given,
         edit' = [edit EXCEPT ![a] = x],
         \A b \in Apps : (Registering(b) /\ edit[b].cb = x.cb) => b = a
  PROVE  /\ \A b \in Apps : Registering(b)' => given'[edit'[b].cb] = 0
         /\ \A b, e \in Apps :
              (Registering(b)' /\ Registering(e)' /\ edit'[b].cb = edit'[e].cb) => b = e
<1>1. \A b \in Apps : edit'[b] = IF b = a THEN x ELSE edit[b]
  BY DEF TypeOK
<1>2. \A b \in Apps : b # a => (Registering(b)' <=> Registering(b)) /\ edit'[b] = edit[b]
  BY <1>1 DEF Registering
<1>3. edit'[a] = x
  BY <1>1
<1>4. \A b \in Apps : Registering(b)' => given'[edit'[b].cb] = 0
  BY <1>2, <1>3 DEF EditInv
<1>5. \A b, e \in Apps :
        (Registering(b)' /\ Registering(e)' /\ edit'[b].cb = edit'[e].cb) => b = e
  BY <1>2, <1>3 DEF EditInv
<1>6. QED
  BY <1>4, <1>5

LEMMA EditStep == TypeOK /\ EditInv /\ [Next]_vars => EditInv'
<1> SUFFICES ASSUME TypeOK, EditInv, [Next]_vars PROVE EditInv'
  OBVIOUS
<1>1. ASSUME NEW a \in Apps, NEW x, x.do # "insert", given[x.cb] = 0,
             edit' = [edit EXCEPT ![a] = x], edit[a] = None \/ edit[a].do # "insert",
             \A b \in Apps : (Registering(b) /\ edit[b].cb = x.cb) => b = a,
             UNCHANGED <<given, evt_cb_id>>
      PROVE  EditInv'
  <2>1. \A b \in Apps : edit'[b] = IF b = a THEN x ELSE edit[b]
    BY <1>1 DEF TypeOK
  <2>2. ASSUME NEW e \in Callbacks
        PROVE  edit[a] # [do |-> "insert", cb |-> e] /\ x # [do |-> "insert", cb |-> e]
    <3>1. x # [do |-> "insert", cb |-> e]
      BY <1>1
    <3>2. edit[a] # [do |-> "insert", cb |-> e]
      BY <1>1, InsertMade
    <3>3. QED
      BY <3>1, <3>2
  <2>3. Numbered' = Numbered
    BY <1>1, <2>1, <2>2 DEF Numbered
  <2>4. /\ \A b \in Apps : Registering(b)' => given'[edit'[b].cb] = 0
        /\ \A b, e \in Apps :
             (Registering(b)' /\ Registering(e)' /\ edit'[b].cb = edit'[e].cb) => b = e
    BY <1>1, EditMoves
  <2>5. QED
    BY <1>1, <2>3, <2>4 DEF EditInv
<1>2. ASSUME NEW a \in Apps, NEW c \in Callbacks, Register(a, c) PROVE EditInv'
  <2>1. PICK x \in {[do |-> "count", cb |-> c], [do |-> "assign", cb |-> c]} :
          edit' = [edit EXCEPT ![a] = x]
    BY <1>2 DEF Register
  <2>2. x.do # "insert" /\ x.cb = c
    BY <2>1
  <2>3. /\ edit[a] = None /\ given[c] = 0 /\ UNCHANGED <<given, evt_cb_id>>
        /\ \A b \in Apps : Registering(b) => edit[b].cb # c
    BY <1>2 DEF Register
  <2>4. QED
    BY <1>1, <2>1, <2>2, <2>3
<1>3. ASSUME NEW a \in Apps, Assign(a) PROVE EditInv'
  <2>1. edit[a].cb \in Callbacks /\ given[edit[a].cb] = 0 /\ Registering(a)
    BY <1>3, EditKinds DEF Assign, EditInv
  <2>2. \A b \in Apps : (Registering(b) /\ edit[b].cb = edit[a].cb) => b = a
    BY <2>1 DEF EditInv
  <2>3. /\ edit' = [edit EXCEPT ![a] = [do |-> "count", cb |-> edit[a].cb]]
        /\ edit[a].do = "assign" /\ UNCHANGED <<given, evt_cb_id>>
    BY <1>3 DEF Assign
  <2> DEFINE x == [do |-> "count", cb |-> edit[a].cb]
  <2>4. x.do # "insert" /\ x.cb = edit[a].cb /\ edit[a].do # "insert"
    BY <2>3
  <2> HIDE DEF x
  <2>5. edit' = [edit EXCEPT ![a] = x]
    BY <2>3 DEF x
  <2>6. QED
    BY <1>1, <2>1, <2>2, <2>3, <2>4, <2>5
<1>4. ASSUME NEW a \in Apps, Count(a) PROVE EditInv'
  <2> DEFINE c == edit[a].cb
  <2>1. /\ c \in Callbacks /\ given[c] = 0 /\ Registering(a) /\ edit[a].do = "count"
        /\ edit' = [edit EXCEPT ![a] = [do |-> "insert", cb |-> c]] /\ given' = given
    BY <1>4, EditKinds DEF Count, EditInv
  <2>2. \A b \in Apps : (Registering(b) /\ edit[b].cb = c) => b = a
    BY <2>1 DEF EditInv
  <2>3. evt_cb_id' = Cardinality(Numbered \cup {c})
    BY <1>4, NextIdType
  <2> HIDE DEF c
  <2>4. \A b \in Apps : edit'[b] = IF b = a THEN [do |-> "insert", cb |-> c] ELSE edit[b]
    BY <2>1 DEF TypeOK
  <2>5. Numbered' = Numbered \cup {c}
    <3>1. \A e \in Callbacks : edit[a] # [do |-> "insert", cb |-> e]
      BY <2>1
    <3>2. Numbered' \subseteq Numbered \cup {c}
      BY <2>1, <2>4 DEF Numbered
    <3>3. Numbered \subseteq Numbered'
      BY <2>1, <2>4, <3>1 DEF Numbered
    <3>4. c \in Numbered'
      BY <2>1, <2>4 DEF Numbered
    <3>5. QED
      BY <3>2, <3>3, <3>4
  <2> DEFINE x == [do |-> "insert", cb |-> c]
  <2>6. x.cb = c /\ edit' = [edit EXCEPT ![a] = x]
    BY <2>1
  <2> HIDE DEF x
  <2>7. \A b \in Apps : (Registering(b) /\ edit[b].cb = x.cb) => b = a
    BY <2>2, <2>6 DEF c
  <2>8. /\ \A b \in Apps : Registering(b)' => given'[edit'[b].cb] = 0
        /\ \A b, e \in Apps :
             (Registering(b)' /\ Registering(e)' /\ edit'[b].cb = edit'[e].cb) => b = e
    BY <2>1, <2>6, <2>7, EditMoves
  <2>9. QED
    BY <2>3, <2>5, <2>8 DEF EditInv
<1>5. ASSUME NEW a \in Apps, Insert(a), edit' # edit PROVE EditInv'
  <2> DEFINE c == edit[a].cb
  <2>1. evt_cb_id \in CbIds /\ c \in Callbacks /\ edit[a] = [do |-> "insert", cb |-> c]
    BY <1>5, InsertIdType DEF Insert
  <2>2. /\ evt_cb_id' = evt_cb_id
        /\ given' = [given EXCEPT ![c] = evt_cb_id]
        /\ edit' = [edit EXCEPT ![a] = None]
    BY <1>5 DEF Insert
  <2>3. evt_cb_id # 0 /\ given[c] = 0 /\ Registering(a)
    BY <1>5, <2>1, IdsFinite DEF Insert, EditInv, Inserting
  <2>4. \A b \in Apps : edit'[b] = IF b = a THEN None ELSE edit[b]
    BY <2>2 DEF TypeOK
  <2>5. \A d \in Callbacks : given'[d] = IF d = c THEN evt_cb_id ELSE given[d]
    BY <2>2 DEF TypeOK
  <2>6. \A b \in Apps : (Registering(b) /\ b # a) => edit[b].cb # c /\ edit[b].cb \in Callbacks
    BY <2>3, EditKinds DEF EditInv
  <2> HIDE DEF c
  <2>7. Numbered' = Numbered
    <3>1. ASSUME NEW d \in Numbered PROVE d \in Numbered'
      <4>1. CASE d = c
        BY <4>1, <2>1, <2>3, <2>5 DEF Numbered
      <4>2. CASE d # c
        BY <4>2, <3>1, <2>1, <2>4, <2>5 DEF Numbered
      <4>3. QED
        BY <4>1, <4>2
    <3>2. ASSUME NEW d \in Numbered' PROVE d \in Numbered
      <4>1. CASE d = c
        BY <4>1, <2>1 DEF Numbered
      <4>2. CASE d # c
        BY <4>2, <3>2, <2>4, <2>5, EditMade DEF Numbered
      <4>3. QED
        BY <4>1, <4>2
    <3>3. QED
      BY <3>1, <3>2
  <2>8. \A b \in Apps : Registering(b)' => b # a /\ Registering(b) /\ edit'[b] = edit[b]
    BY <2>4 DEF Registering
  <2>9. \A b \in Apps : Registering(b)' => given'[edit'[b].cb] = 0
    BY <2>5, <2>6, <2>8 DEF EditInv
  <2>10. \A b, d \in Apps :
           (Registering(b)' /\ Registering(d)' /\ edit'[b].cb = edit'[d].cb) => b = d
    BY <2>8 DEF EditInv
  <2>11. QED
    BY <2>2, <2>7, <2>9, <2>10 DEF EditInv
<1>6. ASSUME NEW a \in Apps, edit[a] = None \/ edit[a].do = "erase",
             NEW x, x = None \/ \E id \in CbIds : x = [do |-> "erase", id |-> id],
             edit' = [edit EXCEPT ![a] = x], UNCHANGED <<given, evt_cb_id>>
      PROVE  EditInv'
  <2>1. \A b \in Apps : edit'[b] = IF b = a THEN x ELSE edit[b]
    BY <1>6 DEF TypeOK
  <2>2. ~Registering(a) /\ ~Registering(a)'
    BY <1>6, <2>1 DEF Registering
  <2>3. \A b \in Apps : Registering(b)' => Registering(b) /\ b # a /\ edit'[b] = edit[b]
    BY <2>1, <2>2 DEF Registering
  <2>4. ASSUME NEW d \in Callbacks
        PROVE  x # [do |-> "insert", cb |-> d] /\ edit[a] # [do |-> "insert", cb |-> d]
    <3>1. x # [do |-> "insert", cb |-> d]
      BY <1>6, InsertMade
    <3>2. edit[a] # [do |-> "insert", cb |-> d]
      BY <1>6, InsertMade
    <3>3. QED
      BY <3>1, <3>2
  <2>5. Numbered' = Numbered
    BY <1>6, <2>1, <2>4 DEF Numbered
  <2>6. \A b \in Apps : Registering(b)' => given'[edit'[b].cb] = 0
    BY <1>6, <2>3 DEF EditInv
  <2>7. \A b, d \in Apps :
          (Registering(b)' /\ Registering(d)' /\ edit'[b].cb = edit'[d].cb) => b = d
    BY <2>3 DEF EditInv
  <2>8. QED
    BY <1>6, <2>5, <2>6, <2>7 DEF EditInv
<1>7. ASSUME NEW a \in Apps, NEW id \in CbIds, Unregister(a, id) PROVE EditInv'
  BY <1>6, <1>7 DEF Unregister
<1>8. ASSUME NEW a \in Apps, Erase(a) PROVE EditInv'
  BY <1>6, <1>8 DEF Erase
<1>9. CASE UNCHANGED <<edit, given, evt_cb_id>>
  BY <1>9 DEF EditInv, Numbered, Registering
<1>10. ASSUME NEW a \in Apps, Insert(a), edit' = edit PROVE EditInv'
  <2>1. edit' # [edit EXCEPT ![a] = None]
    BY <1>10 DEF TypeOK, Insert, Inserting, Registering
  <2>2. UNCHANGED <<given, evt_cb_id>>
    BY <1>10, <2>1 DEF Insert
  <2>3. QED
    BY <1>9, <1>10, <2>2
<1>11. QED
  BY <1>2, <1>3, <1>4, <1>5, <1>7, <1>8, <1>9, <1>10, Actions, OtherActions DEF AppActions

-----------------------------------------------------------------------------
(***************************************************************************)
(* The map, and what tasks refer to.                                       *)
(***************************************************************************)
LEMMA MapInit == Init => MapInv
BY DEF Init, MapInv

LEMMA MapStep == TypeOK /\ EditInv /\ MapInv /\ [Next]_vars => MapInv'
<1> SUFFICES ASSUME TypeOK, EditInv, MapInv, [Next]_vars PROVE MapInv'
  OBVIOUS
<1>1. ASSUME NEW a \in Apps, Insert(a) PROVE MapInv'
  <2> DEFINE c == edit[a].cb
             new == [type |-> TypeOf[c], id |-> evt_cb_id, cb |-> c]
  <2>1. CASE UNCHANGED <<event_handler_map, given>>
    BY <2>1 DEF MapInv
  <2>2. ASSUME event_handler_map' \subseteq event_handler_map \cup {new},
               given' = [given EXCEPT ![c] = evt_cb_id]
        PROVE  MapInv'
    <3>1. c \in Callbacks /\ given[c] = 0
      BY <1>1, InsertIdType DEF Insert, EditInv, Inserting
    <3>2. \A d \in Callbacks : given'[d] = IF d = c THEN evt_cb_id ELSE given[d]
      BY <2>2 DEF TypeOK
    <3>3. \A h \in event_handler_map : h.cb \in Callbacks /\ h.id # 0
      BY IdsFinite DEF TypeOK, Entries
    <3>4. \A h \in event_handler_map : h.cb # c
      BY <3>1, <3>3 DEF MapInv
    <3>5. \A h \in event_handler_map : h.type = TypeOf[h.cb] /\ h.id = given'[h.cb]
      BY <3>2, <3>3, <3>4 DEF MapInv
    <3>6. new.type = TypeOf[new.cb] /\ new.id = given'[new.cb]
      BY <3>1, <3>2
    <3>7. QED
      BY <2>2, <3>5, <3>6 DEF MapInv
  <2>3. QED
    BY <1>1, <2>1, <2>2 DEF Insert, Change
<1>2. ASSUME NEW a \in Apps, Erase(a) \/ Assign(a) PROVE MapInv'
  <2>1. event_handler_map' \subseteq event_handler_map /\ given' = given
    BY <1>2 DEF Erase, Assign, Change
  <2>2. QED
    BY <2>1 DEF MapInv
<1>3. CASE UNCHANGED <<event_handler_map, given>>
  BY <1>3 DEF MapInv
<1>4. QED
  BY <1>1, <1>2, <1>3, Actions, OtherActions
     DEF AppActions, Register, Count, Unregister, mapVars

\* An id stays given and an event stays published.
LEMMA GivenStays ==
  ASSUME TypeOK, EditInv, [Next]_vars
  PROVE  \A c \in Callbacks : given[c] # 0 => given'[c] = given[c]
<1>1. ASSUME NEW a \in Apps, Insert(a)
      PROVE  \A c \in Callbacks : given[c] # 0 => given'[c] = given[c]
  <2>1. given[edit[a].cb] = 0
    BY <1>1 DEF Insert, EditInv, Inserting
  <2>2. given' = given \/ given' = [given EXCEPT ![edit[a].cb] = evt_cb_id]
    BY <1>1 DEF Insert
  <2>3. QED
    BY <2>1, <2>2 DEF TypeOK
<1>2. QED
  BY <1>1, Actions, OtherActions DEF AppActions, Register, Assign, Count, Unregister, Erase

LEMMA PublishedStays ==
  ASSUME TypeOK, [Next]_vars
  PROVE  \A e \in Events : evt[e] # None => evt'[e] = evt[e]
<1>1. CASE ClientStep
  BY <1>1 DEF ClientStep, PublishEvent, TypeOK
<1>2. QED
  BY <1>1, Actions DEF LoopActions, WorkerActions, AppActions, OnEventMessage, Dispatch,
     Start, Call, Finish, Register, Assign, Count, Insert, Unregister, Erase, vars, brokerVars

LEMMA SourcedStays ==
  ASSUME TypeOK, EditInv, [Next]_vars, NEW t \in Tasks, Sourced(evt, given, t)
  PROVE  Sourced(evt', given', t)
<1>1. t.event \in Events /\ t.id # 0
  BY IdsFinite DEF Tasks
<1>2. evt'[t.event] = evt[t.event] /\ evt[t.event] # None
  BY <1>1, PublishedStays DEF Sourced
<1>3. PICK c \in Callbacks : given[c] = t.id /\ TypeOf[c] = evt[t.event].type
  BY DEF Sourced
<1>4. given'[c] = t.id
  BY <1>1, <1>3, GivenStays
<1>5. QED
  BY <1>2, <1>3, <1>4 DEF Sourced

LEMMA TaskInit == Init => TaskInv
BY DEF Init, PoolInit, TaskInv

LEMMA TaskStep == TypeOK /\ EditInv /\ MapInv /\ TaskInv /\ [Next]_vars => TaskInv'
<1> SUFFICES ASSUME TypeOK, EditInv, MapInv, TaskInv, [Next]_vars PROVE TaskInv'
  OBVIOUS
<1> DEFINE P1 == \A i \in DOMAIN pending : evt[pending[i]] # None
           P2 == cursor # None => evt[cursor.event] # None
           P3 == \A i \in DOMAIN tasks : Sourced(evt, given, tasks[i])
           P4 == \A w \in Workers : at[w] # "start" => job[w] # None
           P5 == \A w \in Workers : job[w] # None => Sourced(evt, given, job[w])
<1>0. /\ \A i \in DOMAIN pending : pending[i] \in Events /\ evt'[pending[i]] = evt[pending[i]]
                                   /\ evt'[pending[i]] # None
      /\ cursor # None => cursor.event \in Events /\ evt'[cursor.event] # None
      /\ \A i \in DOMAIN tasks : tasks[i] \in Tasks /\ Sourced(evt', given', tasks[i])
      /\ \A w \in Workers : job[w] # None => job[w] \in Tasks /\ Sourced(evt', given', job[w])
  <2>1. \A i \in DOMAIN pending : pending[i] \in Events
    BY DEF TypeOK
  <2>2. cursor # None => cursor.event \in Events
    BY DEF TypeOK, Walks
  <2>3. \A i \in DOMAIN tasks : tasks[i] \in Tasks
    BY DEF TypeOK
  <2>4. \A w \in Workers : job[w] # None => job[w] \in Tasks
    BY DEF TypeOK
  <2>5. \A t \in Tasks : Sourced(evt, given, t) => Sourced(evt', given', t)
    BY SourcedStays
  <2>6. QED
    BY <2>1, <2>2, <2>3, <2>4, <2>5, PublishedStays DEF TaskInv
<1>1. CASE ClientStep
  <2>1. PICK e \in Events, ty \in Types, f \in Forms : PublishEvent(e, ty, f)
    BY <1>1 DEF ClientStep
  <2>2. evt'[e] # None
    BY <2>1 DEF PublishEvent, TypeOK, Published
  <2>3. pending' = Append(pending, e)
    BY <2>1 DEF PublishEvent
  <2>4. P1'
    BY <1>0, <2>2, <2>3, AppendFacts DEF TypeOK
  <2>5. QED
    BY <1>0, <2>1, <2>4 DEF PublishEvent, TaskInv, poolVars, walkVars
<1>2. CASE OnEventMessage
  <2>1. pending' = Tail(pending) /\ pending # <<>>
    BY <1>2 DEF OnEventMessage
  <2>2. P1' /\ Head(pending) \in Events /\ evt'[Head(pending)] # None
    BY <1>0, <2>1, TailFacts DEF TypeOK
  <2>3. P2'
    <3>1. cursor' = cursor \/ cursor' = [event |-> Head(pending), last |-> 0]
      BY <1>2 DEF OnEventMessage, walkVars
    <3>2. QED
      BY <1>0, <2>2, <3>1
  <2>4. QED
    BY <1>0, <1>2, <2>2, <2>3 DEF OnEventMessage, TaskInv, poolVars
<1>3. CASE Dispatch
  <2>1. cursor # None
    BY <1>3 DEF Dispatch
  <2>2. CASE Ahead # {} /\ Detach([event |-> cursor.event, id |-> Min(Ahead)])
             /\ cursor' = StepOver(Min(Ahead))
    <3> DEFINE t == [event |-> cursor.event, id |-> Min(Ahead)]
    <3>1. Ahead \subseteq CbIds /\ Min(Ahead) \in Ahead
      BY <2>1, <2>2, AheadFacts, MinFacts
    <3>2. t \in Tasks
      BY <1>0, <2>1, <3>1 DEF Tasks
    <3>3. PICK h \in Handlers(evt[cursor.event].type) : h.id = Min(Ahead)
      BY <2>1, <3>1, AheadFacts
    <3>4. h.cb \in Callbacks /\ given[h.cb] = Min(Ahead)
          /\ TypeOf[h.cb] = evt[cursor.event].type
      BY <3>3 DEF Handlers, MapInv, TypeOK, Entries
    <3>5. Sourced(evt, given, t)
      BY <2>1, <3>4 DEF Sourced, TaskInv
    <3>6. Sourced(evt', given', t)
      BY <3>2, <3>5, SourcedStays
    <3>7. tasks' = Append(tasks, t) /\ job' = job
      BY <2>2 DEF Detach
    <3>8. P3'
      <4> HIDE DEF t
      <4>1. \A i \in DOMAIN tasks' :
              (i \in DOMAIN tasks /\ tasks'[i] = tasks[i]) \/ tasks'[i] = t
        BY <3>2, <3>7, AppendFacts DEF TypeOK
      <4>2. ASSUME NEW i \in DOMAIN tasks' PROVE Sourced(evt', given', tasks'[i])
        <5>1. CASE i \in DOMAIN tasks /\ tasks'[i] = tasks[i]
          BY <1>0, <5>1
        <5>2. CASE tasks'[i] = t
          BY <3>6, <5>2
        <5>3. QED
          BY <4>1, <5>1, <5>2
      <4>3. QED
        BY <4>2
    <3>9. P2'
      BY <1>0, <2>1, <2>2 DEF StepOver, TypeOK, Walks
    <3>10. QED
      BY <1>0, <1>3, <3>7, <3>8, <3>9 DEF Dispatch, TaskInv, brokerVars
  <2>3. CASE UNCHANGED poolVars /\ (cursor' = None \/ cursor' = cursor)
    BY <1>0, <1>3, <2>3 DEF Dispatch, TaskInv, brokerVars, poolVars
  <2>4. QED
    BY <1>3, <2>2, <2>3 DEF Dispatch
<1>4. ASSUME NEW w \in Workers, Start(w) PROVE TaskInv'
  <2>1. tasks' = Tail(tasks) /\ tasks # <<>> /\ job' = [job EXCEPT ![w] = Head(tasks)]
    BY <1>4 DEF Start, Take
  <2>2. P3' /\ Head(tasks) # None /\ Sourced(evt', given', Head(tasks))
    <3>1. /\ 1 \in DOMAIN tasks /\ Head(tasks) = tasks[1] /\ Head(tasks) \in Tasks
          /\ \A i \in DOMAIN tasks' : i + 1 \in DOMAIN tasks /\ tasks'[i] = tasks[i + 1]
      BY <2>1, TailFacts DEF TypeOK
    <3>2. ASSUME NEW i \in DOMAIN tasks' PROVE Sourced(evt', given', tasks'[i])
      BY <1>0, <3>1
    <3>3. QED
      BY <1>0, <3>1, <3>2
  <2>3. \A v \in Workers : job'[v] = IF v = w THEN Head(tasks) ELSE job[v]
    BY <2>1 DEF TypeOK
  <2>4. \A v \in Workers : v # w => at'[v] = at[v]
    BY <1>4 DEF Start, TypeOK
  <2>5. P4'
    BY <2>2, <2>3, <2>4 DEF TaskInv
  <2>6. ASSUME NEW v \in Workers, job'[v] # None PROVE Sourced(evt', given', job'[v])
    <3>1. CASE v = w
      BY <2>2, <2>3, <3>1
    <3>2. CASE v # w
      BY <1>0, <2>3, <2>6, <3>2
    <3>3. QED
      BY <3>1, <3>2
  <2>7. P1' /\ P2'
    BY <1>0, <1>4 DEF Start, brokerVars, walkVars
  <2>8. QED
    BY <2>2, <2>5, <2>6, <2>7 DEF TaskInv
<1>5. ASSUME NEW w \in Workers, Call(w) PROVE TaskInv'
  <2>1. P4'
    <3>1. \A v \in Workers : at'[v] # "start" => at[v] # "start"
      BY <1>5 DEF Call, TypeOK
    <3>2. QED
      BY <1>5, <3>1 DEF Call, poolVars, TaskInv
  <2>2. QED
    BY <1>0, <1>5, <2>1 DEF Call, TaskInv, poolVars, brokerVars, walkVars
<1>6. ASSUME NEW w \in Workers, Finish(w) PROVE TaskInv'
  <2>1. CASE UNCHANGED <<poolVars, at>>
    BY <1>0, <1>6, <2>1 DEF Finish, TaskInv, poolVars, brokerVars, walkVars
  <2>2. CASE Done(w) /\ at' = [at EXCEPT ![w] = "start"]
    <3>1. tasks' = tasks /\ \A v \in Workers : job'[v] = IF v = w THEN None ELSE job[v]
      BY <2>2 DEF Done, TypeOK
    <3>2. \A v \in Workers : at'[v] = IF v = w THEN "start" ELSE at[v]
      BY <2>2 DEF TypeOK
    <3>3. P4'
      BY <3>1, <3>2 DEF TaskInv
    <3>4. ASSUME NEW v \in Workers, job'[v] # None PROVE Sourced(evt', given', job'[v])
      BY <1>0, <3>1, <3>4
    <3>5. QED
      BY <1>0, <1>6, <3>1, <3>3, <3>4 DEF Finish, TaskInv, brokerVars, walkVars
  <2>3. QED
    BY <1>6, <2>1, <2>2 DEF Finish
<1>7. CASE UNCHANGED <<poolVars, brokerVars, walkVars, at>>
  BY <1>0, <1>7 DEF TaskInv, poolVars, brokerVars, walkVars
<1>8. QED
  BY <1>1, <1>2, <1>3, <1>4, <1>5, <1>6, <1>7, Actions
     DEF LoopActions, WorkerActions, AppActions, Register, Assign, Count, Insert, Unregister,
         Erase, vars

-----------------------------------------------------------------------------
(***************************************************************************)
(* Ids.                                                                    *)
(***************************************************************************)
LEMMA IdInit == Init => IdInv
<1> SUFFICES ASSUME Init PROVE IdInv
  OBVIOUS
<1>1. evt_cb_id = 0 /\ \A c \in Callbacks : given[c] = 0
  BY DEF Init
<1>2. \A a \in Apps : edit[a] = None
  BY DEF Init
<1>3. \A c \in Callbacks : given[c] <= evt_cb_id
  BY <1>1
<1>4. QED
  BY <1>2, <1>3 DEF IdInv

LEMMA IdStep == TypeOK /\ EditInv /\ IdInv /\ [Next]_vars => IdInv'
<1> SUFFICES ASSUME TypeOK, EditInv, IdInv, [Next]_vars PROVE IdInv'
  OBVIOUS
<1>0. evt_cb_id \in Nat /\ \A c \in Callbacks : given[c] \in Nat
  <2>1. evt_cb_id \in CbIds \cup {0} /\ \A c \in Callbacks : given[c] \in CbIds \cup {0}
    BY DEF TypeOK
  <2>2. QED
    BY <2>1, IdsNat
<1>1. ASSUME NEW a \in Apps, \A b \in Apps : b # a => edit'[b] = edit[b],
             ~overlapped' => ~overlapped /\ ~Overlapping(a),
             \A c \in Callbacks : given'[c] <= evt_cb_id',
             Inserting(a)' => \A c \in Callbacks : given'[c] < evt_cb_id'
      PROVE  IdInv'
  <2>1. ASSUME ~overlapped', NEW b \in Apps, edit'[b] # None PROVE b = a
    BY <1>1, <2>1 DEF Overlapping
  <2>2. QED
    BY <1>1, <2>1 DEF IdInv
<1>2. \A a \in Apps : edit[a] # None /\ ~overlapped => ~Overlapping(a)
  BY DEF IdInv, Overlapping
<1>3. ASSUME NEW a \in Apps, NEW c \in Callbacks, Register(a, c) PROVE IdInv'
  <2>1. PICK x \in {[do |-> "count", cb |-> c], [do |-> "assign", cb |-> c]} :
          edit' = [edit EXCEPT ![a] = x]
    BY <1>3 DEF Register
  <2>4. x.do # "insert"
    BY <2>1
  <2>5. ~Inserting(a)' /\ \A b \in Apps : b # a => edit'[b] = edit[b]
    BY <2>1, <2>4 DEF TypeOK, Inserting
  <2>6. ~overlapped' => ~overlapped /\ ~Overlapping(a)
    BY <1>3 DEF Register
  <2>2. \A d \in Callbacks : given'[d] <= evt_cb_id'
    BY <1>3 DEF Register, IdInv
  <2>3. QED
    BY <1>1, <2>2, <2>5, <2>6
<1>4. ASSUME NEW a \in Apps, Assign(a) PROVE IdInv'
  <2>1. ~Inserting(a)' /\ \A b \in Apps : b # a => edit'[b] = edit[b]
    BY <1>4 DEF Assign, TypeOK, Inserting
  <2>2. \A d \in Callbacks : given'[d] <= evt_cb_id'
    BY <1>4 DEF Assign, IdInv
  <2>3. ~overlapped' => ~overlapped /\ ~Overlapping(a)
    BY <1>2, <1>4 DEF Assign, Registering
  <2>4. QED
    BY <1>1, <2>1, <2>2, <2>3
<1>5. ASSUME NEW a \in Apps, Count(a) PROVE IdInv'
  <2>1. evt_cb_id' = evt_cb_id + 1 /\ given' = given
    BY <1>5 DEF Count, NextId
  <2>2. \A d \in Callbacks : given'[d] < evt_cb_id' /\ given'[d] <= evt_cb_id'
    BY <1>0, <2>1 DEF IdInv
  <2>3. \A b \in Apps : b # a => edit'[b] = edit[b]
    BY <1>5 DEF Count, TypeOK
  <2>4. ~overlapped' => ~overlapped /\ ~Overlapping(a)
    BY <1>2, <1>5 DEF Count, Registering
  <2>5. QED
    BY <1>1, <2>2, <2>3, <2>4
<1>6. ASSUME NEW a \in Apps, Insert(a) PROVE IdInv'
  <2> DEFINE c == edit[a].cb
  <2>1. c \in Callbacks /\ edit[a] # None
    BY <1>6, InsertIdType DEF Insert, Inserting, Registering
  <2>2. /\ evt_cb_id' = evt_cb_id /\ overlapped' = overlapped
        /\ given' \in {given, [given EXCEPT ![c] = evt_cb_id]}
        /\ edit' \in {edit, [edit EXCEPT ![a] = None]}
    BY <1>6 DEF Insert
  <2> HIDE DEF c
  <2>3. \A d \in Callbacks : given'[d] \in {given[d], evt_cb_id}
    BY <2>1, <2>2 DEF TypeOK
  <2>4. \A d \in Callbacks : given'[d] <= evt_cb_id'
    BY <1>0, <2>2, <2>3 DEF IdInv
  <2>5. CASE edit' = edit /\ given' = given
    BY <2>2, <2>5 DEF IdInv, Inserting, Registering
  <2>6. CASE edit' = [edit EXCEPT ![a] = None]
    <3>1. ~Inserting(a)' /\ \A b \in Apps : b # a => edit'[b] = edit[b]
      BY <2>6 DEF TypeOK, Inserting, Registering
    <3>2. QED
      BY <1>1, <1>2, <2>1, <2>2, <2>4, <3>1
  <2>7. QED
    BY <1>6, <2>5, <2>6 DEF Insert
<1>7. ASSUME NEW a \in Apps, NEW id \in CbIds, Unregister(a, id) PROVE IdInv'
  <2>1. /\ ~Inserting(a)' /\ \A b \in Apps : b # a => edit'[b] = edit[b]
        /\ ~overlapped' => ~overlapped /\ ~Overlapping(a)
    BY <1>7 DEF Unregister, TypeOK, Inserting, Registering
  <2>2. \A d \in Callbacks : given'[d] <= evt_cb_id'
    BY <1>7 DEF Unregister, IdInv
  <2>3. QED
    BY <1>1, <2>1, <2>2
<1>8. ASSUME NEW a \in Apps, Erase(a) PROVE IdInv'
  <2>1. ~Inserting(a)' /\ \A b \in Apps : b # a => edit'[b] = edit[b]
    BY <1>8 DEF Erase, TypeOK, Inserting, Registering
  <2>2. \A d \in Callbacks : given'[d] <= evt_cb_id'
    BY <1>8 DEF Erase, IdInv
  <2>3. ~overlapped' => ~overlapped /\ ~Overlapping(a)
    BY <1>2, <1>8 DEF Erase
  <2>4. QED
    BY <1>1, <2>1, <2>2, <2>3
<1>9. CASE UNCHANGED <<evt_cb_id, edit, given, overlapped>>
  BY <1>9 DEF IdInv, Inserting, Registering
<1>10. QED
  BY <1>3, <1>4, <1>5, <1>6, <1>7, <1>8, <1>9, Actions, OtherActions DEF AppActions

-----------------------------------------------------------------------------
(***************************************************************************)
(* Which handlers leave the map.                                           *)
(***************************************************************************)
LEMMA KeepInit == Init => KeepInv
BY DEF Init, KeepInv, RegistrationsLast, Registering

\* Handlers leave the map: they were erased, or changes overlapped.
LEMMA Leaving ==
  ASSUME TypeOK, EditInv, MapInv, RegistrationsLast, NEW gone, NEW new,
         gone \subseteq event_handler_map,
         event_handler_map' = (event_handler_map \ gone) \cup new,
         \A h \in gone : h.id \in erased' \/ overlapped',
         erased \subseteq erased', overlapped => overlapped',
         \A c \in Callbacks : given'[c] = given[c] \/ \E h \in new : h.cb = c
  PROVE  RegistrationsLast'
<1> SUFFICES ASSUME NEW c \in Callbacks, given'[c] # 0, ~Registered(c)'
             PROVE  given'[c] \in erased' \/ overlapped'
  BY DEF RegistrationsLast
<1>1. given'[c] = given[c]
  BY DEF Registered
<1>2. CASE ~Registered(c)
  BY <1>1, <1>2 DEF RegistrationsLast
<1>3. CASE Registered(c)
  <2>1. PICK h \in event_handler_map : h.cb = c
    BY <1>3 DEF Registered
  <2>2. h \in gone
    BY <2>1 DEF Registered
  <2>3. h.id = given[c]
    BY <2>1 DEF MapInv
  <2>4. QED
    BY <1>1, <2>2, <2>3
<1>4. QED
  BY <1>2, <1>3

LEMMA KeepStep ==
  TypeOK /\ EditInv /\ MapInv /\ IdInv /\ KeepInv /\ [Next]_vars => KeepInv'
<1> SUFFICES ASSUME TypeOK, EditInv, MapInv, IdInv, KeepInv, [Next]_vars PROVE KeepInv'
  OBVIOUS
<1> DEFINE Typed == \A h \in event_handler_map : h.type \in types
           Asked == \A a \in Apps : edit[a] # None /\ edit[a].do = "erase" =>
                      edit[a].id \in erased
           Fresh == ~overlapped =>
                      \A a \in Apps : (Registering(a) /\ edit[a].do = "assign") =>
                        TypeOf[edit[a].cb] \notin types
           Mapped == \A a \in Apps : (Registering(a) /\ edit[a].do # "assign") =>
                       TypeOf[edit[a].cb] \in types
<1>1. \A a \in Apps : edit[a] # None /\ ~overlapped => ~Overlapping(a)
  BY DEF IdInv, Overlapping
<1>3. ASSUME NEW a \in Apps, NEW c \in Callbacks, Register(a, c) PROVE KeepInv'
  <2>1. /\ UNCHANGED <<event_handler_map, given, erased, types>>
        /\ overlapped' = (overlapped \/ Overlapping(a))
        /\ \A b \in Apps : b # a => edit'[b] = edit[b]
    BY <1>3 DEF Register, mapVars, TypeOK
  <2>2. RegistrationsLast'
    BY <2>1 DEF KeepInv, RegistrationsLast, Registered
  <2>3. PICK x \in {[do |-> "count", cb |-> c], [do |-> "assign", cb |-> c]} :
          /\ edit' = [edit EXCEPT ![a] = x]
          /\ x.do = "count" => KnownType(TypeOf[c])
          /\ x.do = "assign" => ~KnownType(TypeOf[c]) \/ Overlapping(a)
    BY <1>3 DEF Register
  <2>4. x.do # "erase" /\ x.cb = c /\ x.do \in {"count", "assign"}
    BY <2>3
  <2>5. \A b \in Apps : edit'[b] = IF b = a THEN x ELSE edit[b]
    BY <2>3 DEF TypeOK
  <2>6. Asked'
    BY <2>1, <2>4, <2>5 DEF KeepInv
  <2>7. Fresh'
    <3>1. ASSUME ~overlapped', NEW b \in Apps, Registering(b)', edit'[b].do = "assign"
          PROVE  TypeOf[edit'[b].cb] \notin types'
      <4>1. CASE b = a
        <5>1. ~Overlapping(a)
          BY <1>3, <3>1 DEF Register
        <5>2. edit'[b] = x /\ types' = types
          BY <2>1, <2>5, <4>1
        <5>3. ~KnownType(TypeOf[c]) /\ x.cb = c
          BY <2>3, <2>4, <3>1, <5>1, <5>2
        <5>4. QED
          BY <5>2, <5>3 DEF KnownType
      <4>2. CASE b # a
        BY <2>1, <2>5, <3>1, <4>2 DEF KeepInv, Registering
      <4>3. QED
        BY <4>1, <4>2
    <3>2. QED
      BY <3>1
  <2>8. Mapped'
    BY <2>1, <2>3, <2>4, <2>5 DEF KeepInv, Registering, KnownType
  <2>9. QED
    BY <2>1, <2>2, <2>6, <2>7, <2>8 DEF KeepInv
<1>4. ASSUME NEW a \in Apps, Assign(a) PROVE KeepInv'
  <2> DEFINE ty == TypeOf[edit[a].cb]
  <2>1. /\ types' = types \cup {ty}
        /\ event_handler_map' = (event_handler_map \ Handlers(ty)) \cup {}
        /\ edit' = [edit EXCEPT ![a] = [do |-> "count", cb |-> edit[a].cb]]
        /\ UNCHANGED <<given, erased, overlapped>> /\ edit[a] # None
        /\ Registering(a) /\ edit[a].do = "assign"
    BY <1>4 DEF Assign, Change, Registering
  <2>2. ~overlapped => ty \notin types
    BY <2>1 DEF KeepInv
  <2> HIDE DEF ty
  <2>3. ~overlapped => Handlers(ty) = {}
    BY <2>2 DEF KeepInv, Handlers
  <2>4. RegistrationsLast'
    <3>1. Handlers(ty) \subseteq event_handler_map
      BY DEF Handlers
    <3>2. QED
      BY <2>1, <2>3, <3>1, Leaving DEF KeepInv
  <2>5. \A b \in Apps : edit'[b] = IF b = a THEN [do |-> "count", cb |-> edit[a].cb] ELSE edit[b]
    BY <2>1 DEF TypeOK
  <2>6. Asked'
    BY <2>1, <2>5 DEF KeepInv
  <2>7. Typed'
    BY <2>1 DEF KeepInv
  <2>8. Fresh'
    <3>1. ASSUME ~overlapped', NEW b \in Apps, Registering(b)', edit'[b].do = "assign"
          PROVE  FALSE
      <4>1. b # a /\ edit[b] # None
        BY <2>5, <3>1 DEF Registering
      <4>2. QED
        BY <1>1, <2>1, <3>1, <4>1 DEF Overlapping
    <3>2. QED
      BY <3>1
  <2>9. Mapped'
    BY <2>1, <2>5 DEF KeepInv, Registering, ty
  <2>10. QED
    BY <2>4, <2>6, <2>7, <2>8, <2>9 DEF KeepInv
<1>5. ASSUME NEW a \in Apps, Count(a) PROVE KeepInv'
  <2>1. /\ UNCHANGED <<event_handler_map, given, erased, types, overlapped>>
        /\ \A b \in Apps : edit'[b] =
             IF b = a THEN [do |-> "insert", cb |-> edit[a].cb] ELSE edit[b]
    BY <1>5 DEF Count, mapVars, TypeOK
  <2>2. RegistrationsLast'
    BY <2>1 DEF KeepInv, RegistrationsLast, Registered
  <2>3. Asked' /\ Fresh'
    BY <2>1 DEF KeepInv, Registering
  <2>4. Mapped'
    <3>1. Registering(a) /\ edit[a].do = "count"
      BY <1>5 DEF Count
    <3>2. QED
      BY <2>1, <3>1 DEF KeepInv, Registering
  <2>5. QED
    BY <2>1, <2>2, <2>3, <2>4 DEF KeepInv
<1>6. ASSUME NEW a \in Apps, Insert(a) PROVE KeepInv'
  <2> DEFINE c == edit[a].cb
             same == {h \in Handlers(TypeOf[c]) : h.id = evt_cb_id}
             new == [type |-> TypeOf[c], id |-> evt_cb_id, cb |-> c]
  <2>1. /\ UNCHANGED <<erased, types, overlapped, evt_cb_id>>
        /\ c \in Callbacks /\ Inserting(a) /\ edit[a] # None
    BY <1>6, InsertIdType DEF Insert, Inserting, Registering
  <2>2. CASE UNCHANGED <<event_handler_map, given, edit>>
    BY <2>1, <2>2 DEF KeepInv, RegistrationsLast, Registered, Registering
  <2>3. CASE /\ event_handler_map' = (event_handler_map \ same) \cup {new}
             /\ given' = [given EXCEPT ![c] = evt_cb_id]
             /\ edit' = [edit EXCEPT ![a] = None]
    <3>1. same \subseteq event_handler_map
      BY DEF Handlers
    <3>2. ASSUME NEW h \in same PROVE overlapped'
      <4>1. h.cb \in Callbacks /\ given[h.cb] = evt_cb_id
        BY <3>1, <3>2 DEF MapInv, TypeOK, Entries
      <4>2. ~overlapped => given[h.cb] < evt_cb_id
        BY <2>1, <4>1 DEF IdInv
      <4>3. evt_cb_id \in Nat
        BY IdsNat DEF TypeOK
      <4>4. QED
        BY <2>1, <4>1, <4>2, <4>3
    <3>3. \A d \in Callbacks : given'[d] = given[d] \/ \E h \in {new} : h.cb = d
      BY <2>3 DEF TypeOK
    <3> HIDE DEF same, new
    <3>4. RegistrationsLast'
      BY <2>1, <2>3, <3>1, <3>2, <3>3, Leaving DEF KeepInv
    <3> USE DEF new
    <3>5. \A b \in Apps : edit'[b] = IF b = a THEN None ELSE edit[b]
      BY <2>3 DEF TypeOK
    <3>6. Asked' /\ Fresh'
      BY <2>1, <3>5 DEF KeepInv, Registering
    <3>7. Typed'
      <4>1. TypeOf[c] \in types
        BY <2>1 DEF KeepInv, Inserting
      <4>2. QED
        BY <2>1, <2>3, <4>1 DEF KeepInv
    <3>8. Mapped'
      BY <2>1, <3>5 DEF KeepInv, Registering
    <3>9. QED
      BY <3>4, <3>6, <3>7, <3>8 DEF KeepInv
  <2>4. QED
    BY <1>6, <2>2, <2>3 DEF Insert, Change
<1>7. ASSUME NEW a \in Apps, NEW id \in CbIds, Unregister(a, id) PROVE KeepInv'
  <2>1. /\ UNCHANGED <<event_handler_map, given, types>> /\ erased' = erased \cup {id}
        /\ overlapped' = (overlapped \/ Overlapping(a))
        /\ \A b \in Apps : edit'[b] = IF b = a THEN [do |-> "erase", id |-> id] ELSE edit[b]
    BY <1>7 DEF Unregister, mapVars, TypeOK
  <2>2. RegistrationsLast'
    BY <2>1 DEF KeepInv, RegistrationsLast, Registered
  <2>3. Asked'
    BY <2>1 DEF KeepInv
  <2>4. Fresh' /\ Mapped'
    <3>1. ~Registering(a)'
      BY <2>1 DEF Registering
    <3>2. \A b \in Apps : Registering(b)' => Registering(b) /\ edit'[b] = edit[b]
      BY <2>1, <3>1 DEF Registering
    <3>3. QED
      BY <2>1, <3>2 DEF KeepInv
  <2>5. QED
    BY <2>1, <2>2, <2>3, <2>4 DEF KeepInv
<1>8. ASSUME NEW a \in Apps, Erase(a) PROVE KeepInv'
  <2>1. /\ UNCHANGED <<given, types, erased, overlapped>>
        /\ \A b \in Apps : edit'[b] = IF b = a THEN None ELSE edit[b]
    BY <1>8 DEF Erase, TypeOK
  <2>2. RegistrationsLast'
    <3>1. PICK gone \in SUBSET event_handler_map :
            /\ event_handler_map' = (event_handler_map \ gone) \cup {}
            /\ \A h \in gone : h.id = edit[a].id
      BY <1>8 DEF Erase, Change
    <3>2. edit[a].id \in erased
      BY <1>8 DEF Erase, KeepInv
    <3>3. QED
      BY <2>1, <3>1, <3>2, Leaving DEF KeepInv
  <2>3. Typed'
    BY <1>8, <2>1 DEF KeepInv, Erase, Change
  <2>4. Asked' /\ Fresh' /\ Mapped'
    BY <2>1 DEF KeepInv, Registering
  <2>5. QED
    BY <2>2, <2>3, <2>4 DEF KeepInv
<1>9. CASE UNCHANGED <<edit, given, erased, overlapped, types, event_handler_map>>
  BY <1>9 DEF KeepInv, RegistrationsLast, Registered, Registering
<1>10. QED
  BY <1>3, <1>4, <1>5, <1>6, <1>7, <1>8, <1>9, Actions, OtherActions DEF AppActions

(***************************************************************************)
(* Why the process dies.                                                   *)
(***************************************************************************)
LEMMA DeathInit == Init => DeathsExplained
BY DEF Init, DeathsExplained

\* A handler that is gone was erased, or changes overlapped.
LEMMA GoneExplained ==
  ASSUME RegistrationsLast, NEW c \in Callbacks, given[c] # 0, ~Registered(c)
  PROVE  overlapped \/ erased # {}
BY DEF RegistrationsLast

LEMMA DeathStep ==
  TypeOK /\ EditInv /\ MapInv /\ TaskInv /\ IdInv /\ KeepInv /\ KeepInv' /\ DeathsExplained
    /\ [Next]_vars => DeathsExplained'
<1> SUFFICES ASSUME TypeOK, EditInv, MapInv, TaskInv, IdInv, KeepInv, KeepInv',
                    DeathsExplained, [Next]_vars
             PROVE  DeathsExplained'
  OBVIOUS
<1>1. ASSUME NEW a \in Apps, Insert(a), fault' = "assert", fault = "none"
      PROVE  overlapped'
  <2> DEFINE ty == TypeOf[edit[a].cb]
  <2>1. overlapped' = overlapped /\ Inserting(a) /\ edit[a] # None
    BY <1>1 DEF Insert, Inserting, Registering
  <2>2. \E h \in Handlers(ty) : h.id = evt_cb_id
    BY <1>1 DEF Insert, Change, Terminate
  <2>3. PICK h \in event_handler_map : h.id = evt_cb_id
    BY <2>2 DEF Handlers
  <2>4. h.cb \in Callbacks /\ given[h.cb] = evt_cb_id /\ evt_cb_id \in Nat
    BY <2>3, IdsFinite DEF MapInv, TypeOK, Entries
  <2>5. ~overlapped => \A c \in Callbacks : given[c] < evt_cb_id
    BY <2>1 DEF IdInv
  <2>6. QED
    BY <2>1, <2>4, <2>5
<1>2. ASSUME NEW w \in Workers, Call(w), fault' = "bad_function_call", fault = "none"
      PROVE  overlapped' \/ erased' # {}
  <2>1. HandlerOf(job[w]) = {} /\ UNCHANGED <<overlapped, erased>>
    BY <1>2 DEF Call, Terminate, editVars
  <2>2. job[w] \in Tasks /\ Sourced(evt, given, job[w])
    BY <1>2 DEF Call, TaskInv, TypeOK
  <2>3. PICK c \in Callbacks : given[c] = job[w].id /\ TypeOf[c] = evt[job[w].event].type
    BY <2>2 DEF Sourced
  <2>4. ~Registered(c)
    <3>1. SUFFICES ASSUME NEW h \in event_handler_map, h.cb = c PROVE FALSE
      BY DEF Registered
    <3>2. h.type = evt[job[w].event].type /\ h.id = job[w].id
      BY <2>3, <3>1 DEF MapInv
    <3>3. h \in HandlerOf(job[w])
      BY <3>2 DEF HandlerOf, Handlers
    <3>4. QED
      BY <2>1, <3>3
  <2>5. given[c] # 0
    BY <2>2, <2>3, IdsFinite DEF Tasks
  <2>6. QED
    BY <2>1, <2>4, <2>5, GoneExplained DEF KeepInv
<1>3. ASSUME NEW a \in Apps, Assign(a) \/ Insert(a) \/ Erase(a), fault' = "erased_handler",
             fault = "none"
      PROVE  overlapped' \/ erased' # {}
  <2>1. UNCHANGED <<overlapped, erased>>
    BY <1>3 DEF Assign, Insert, Erase
  <2>2. CASE Erase(a)
    BY <2>1, <2>2 DEF Erase, KeepInv
  <2>3. CASE Assign(a)
    <3> DEFINE ty == TypeOf[edit[a].cb]
    <3>1. Handlers(ty) # {} /\ Registering(a) /\ edit[a].do = "assign"
      BY <1>3, <2>3 DEF Assign, Change, Terminate
    <3>2. \E h \in event_handler_map : h.type = ty
      BY <3>1 DEF Handlers
    <3>3. ty \in types
      BY <3>2 DEF KeepInv
    <3>4. QED
      BY <2>1, <3>1, <3>3 DEF KeepInv
  <2>4. CASE Insert(a)
    <3> DEFINE ty == TypeOf[edit[a].cb]
    <3>1. {h \in Handlers(ty) : h.id = evt_cb_id} # {} /\ Inserting(a) /\ edit[a] # None
      BY <1>3, <2>4 DEF Insert, Change, Terminate, Inserting, Registering
    <3>2. PICK h \in event_handler_map : h.id = evt_cb_id
      BY <3>1 DEF Handlers
    <3>3. h.cb \in Callbacks /\ given[h.cb] = evt_cb_id /\ evt_cb_id \in Nat
      BY <3>2, IdsFinite DEF MapInv, TypeOK, Entries
    <3>4. ~overlapped => \A c \in Callbacks : given[c] < evt_cb_id
      BY <3>1 DEF IdInv
    <3>5. QED
      BY <2>1, <3>3, <3>4
  <2>5. QED
    BY <1>3, <2>2, <2>3, <2>4
<1>4. CASE UNCHANGED <<fault, overlapped, erased>>
  BY <1>4 DEF DeathsExplained
<1>5. CASE ClientStep
  BY <1>4, <1>5, OtherActions DEF ClientStep, PublishEvent
<1>6. CASE Alive /\ (LoopActions \/ WorkerActions \/ AppActions)
  <2>1. fault = "none"
    BY <1>6 DEF Alive
  <2>2. fault' = "assert" => \E a \in Apps : Insert(a)
    BY <1>6, <2>1 DEF LoopActions, WorkerActions, AppActions, OnEventMessage, Dispatch, Start,
       Call, Finish, Register, Assign, Change, Count, Unregister, Erase, Terminate
  <2>3. fault' = "bad_function_call" => \E w \in Workers : Call(w)
    BY <1>6, <2>1 DEF LoopActions, WorkerActions, AppActions, OnEventMessage, Dispatch, Start,
       Insert, Finish, Register, Assign, Change, Count, Unregister, Erase, Terminate
  <2>4. fault' = "erased_handler" => \E a \in Apps : Assign(a) \/ Insert(a) \/ Erase(a)
    BY <1>6, <2>1 DEF LoopActions, WorkerActions, AppActions, OnEventMessage, Dispatch, Start,
       Call, Finish, Register, Count, Unregister, Terminate
  <2>5. QED
    BY <1>1, <1>2, <1>3, <2>1, <2>2, <2>3, <2>4 DEF DeathsExplained
<1>7. QED
  BY <1>4, <1>5, <1>6, Actions DEF vars, editVars

(***************************************************************************)
(* Events, tasks and jobs are there once.                                  *)
(***************************************************************************)
LEMMA OnceInit == Init => OnceInv
BY DEF Init, PoolInit, OnceInv, Passed

\* What the event loop is done with stays so.
LEMMA PassedStays ==
  ASSUME TypeOK, TaskInv, OnceInv, [Next]_vars, NEW e \in Events, evt[e] # None,
         NEW id \in CbIds, Passed(pending, cursor, e, id)
  PROVE  Passed(pending', cursor', e, id)
<1>1. CASE ClientStep
  <2>1. PICK d \in Events, ty \in Types, f \in Forms : PublishEvent(d, ty, f)
    BY <1>1 DEF ClientStep
  <2>2. d # e /\ pending' = Append(pending, d) /\ cursor' = cursor
    BY <2>1 DEF PublishEvent, walkVars
  <2>3. QED
    BY <2>2, AppendFacts DEF Passed, TypeOK
<1>2. CASE OnEventMessage
  <2>1. /\ pending # <<>> /\ pending' = Tail(pending)
        /\ cursor' = cursor \/ cursor' = [event |-> Head(pending), last |-> 0]
    BY <1>2 DEF OnEventMessage, walkVars
  <2>2. Head(pending) # e
    BY <2>1, TailFacts DEF Passed, TypeOK
  <2>3. \A i \in DOMAIN pending' : pending'[i] # e
    BY <2>1, TailFacts DEF Passed, TypeOK
  <2>4. QED
    BY <2>1, <2>2, <2>3 DEF Passed
<1>3. CASE Dispatch
  <2>1. cursor # None /\ cursor \in Walks /\ pending' = pending
    BY <1>3 DEF Dispatch, TypeOK, brokerVars
  <2>2. CASE Ahead # {} /\ cursor' = StepOver(Min(Ahead))
    <3>1. Min(Ahead) > cursor.last /\ Min(Ahead) \in Nat
      <4>1. Ahead \subseteq Nat /\ \A j \in Ahead : j > cursor.last
        BY <2>1, AheadFacts
      <4>2. Min(Ahead) \in Ahead
        BY <2>2, <4>1, MinFacts
      <4>3. QED
        BY <4>1, <4>2
    <3>2. cursor.last \in Nat /\ id \in Nat
      <4>1. cursor.last \in CbIds \cup {0}
        BY <2>1 DEF Walks
      <4>2. QED
        BY <4>1, IdsNat
    <3> DEFINE m == Min(Ahead)
    <3>3. cursor' = [cursor EXCEPT !.last = m] /\ m > cursor.last /\ m \in Nat
      BY <2>2, <3>1 DEF StepOver
    <3> HIDE DEF m
    <3>4. cursor'.event = cursor.event /\ cursor'.last = m
      BY <2>1, <3>3 DEF Walks
    <3>5. cursor.event = e => id <= m
      BY <2>1, <3>2, <3>3 DEF Passed
    <3>6. QED
      BY <2>1, <3>4, <3>5 DEF Passed
  <2>3. CASE cursor' = None \/ cursor' = cursor
    BY <2>1, <2>3 DEF Passed
  <2>4. QED
    BY <1>3, <2>2, <2>3 DEF Dispatch
<1>4. CASE UNCHANGED <<pending, cursor>>
  BY <1>4 DEF Passed
<1>5. QED
  BY <1>1, <1>2, <1>3, <1>4, Actions
     DEF LoopActions, WorkerActions, AppActions, Start, Call, Finish, Register, Assign,
         Count, Insert, Unregister, Erase, vars, brokerVars, walkVars

LEMMA OnceStep == TypeOK /\ TaskInv /\ OnceInv /\ [Next]_vars => OnceInv'
<1> SUFFICES ASSUME TypeOK, TaskInv, OnceInv, [Next]_vars PROVE OnceInv'
  OBVIOUS
<1> DEFINE P1 == \A i, j \in DOMAIN pending : pending[i] = pending[j] => i = j
           P2 == cursor # None => \A i \in DOMAIN pending : pending[i] # cursor.event
           P3 == \A i, j \in DOMAIN tasks : tasks[i] = tasks[j] => i = j
           P4 == \A v, w \in Workers : (job[v] # None /\ job[v] = job[w]) => v = w
           P5 == \A i \in DOMAIN tasks, w \in Workers : tasks[i] # job[w]
           P6 == \A i \in DOMAIN tasks : Passed(pending, cursor, tasks[i].event, tasks[i].id)
           P7 == \A w \in Workers : job[w] # None =>
                   Passed(pending, cursor, job[w].event, job[w].id)
<1>0. /\ \A i \in DOMAIN tasks :
           tasks[i] \in Tasks /\ Passed(pending', cursor', tasks[i].event, tasks[i].id)
      /\ \A w \in Workers : job[w] # None =>
           job[w] \in Tasks /\ Passed(pending', cursor', job[w].event, job[w].id)
  <2>1. \A t \in Tasks :
          (Sourced(evt, given, t) /\ Passed(pending, cursor, t.event, t.id))
            => Passed(pending', cursor', t.event, t.id)
    BY PassedStays DEF Sourced, Tasks
  <2>2. /\ \A i \in DOMAIN tasks : tasks[i] \in Tasks
        /\ \A w \in Workers : job[w] # None => job[w] \in Tasks
    BY DEF TypeOK
  <2>3. QED
    BY <2>1, <2>2 DEF TaskInv, OnceInv
<1>1. CASE ClientStep
  <2>1. PICK e \in Events, ty \in Types, f \in Forms : PublishEvent(e, ty, f)
    BY <1>1 DEF ClientStep
  <2>2. evt[e] = None /\ pending' = Append(pending, e) /\ cursor' = cursor
        /\ tasks' = tasks /\ job' = job
    BY <2>1 DEF PublishEvent, poolVars, walkVars
  <2>3. \A i \in DOMAIN pending : pending[i] # e
    BY <2>2 DEF TaskInv
  <2>4. P1'
    BY <2>2, <2>3, AppendFacts DEF OnceInv, TypeOK
  <2>5. P2'
    BY <2>2, AppendFacts DEF OnceInv, TaskInv, TypeOK
  <2>6. QED
    BY <1>0, <2>2, <2>4, <2>5 DEF OnceInv
<1>2. CASE OnEventMessage
  <2>1. /\ pending # <<>> /\ pending' = Tail(pending) /\ cursor = None
        /\ cursor' = cursor \/ cursor' = [event |-> Head(pending), last |-> 0]
        /\ tasks' = tasks /\ job' = job
    BY <1>2 DEF OnEventMessage, walkVars, poolVars
  <2>2. /\ 1 \in DOMAIN pending /\ Head(pending) = pending[1]
        /\ \A i \in DOMAIN pending' : i \in Nat /\ i # 0 /\ i + 1 \in DOMAIN pending
                                      /\ pending'[i] = pending[i + 1]
    BY <2>1, TailFacts DEF TypeOK
  <2>3. P1'
    <3>1. ASSUME NEW i \in DOMAIN pending', NEW j \in DOMAIN pending',
                 pending'[i] = pending'[j]
          PROVE  i = j
      <4>1. i + 1 = j + 1
        BY <2>2, <3>1 DEF OnceInv
      <4>2. QED
        BY <2>2, <4>1
    <3>2. QED
      BY <3>1
  <2>4. P2'
    <3>1. ASSUME NEW i \in DOMAIN pending' PROVE pending'[i] # Head(pending)
      <4>1. i + 1 # 1
        BY <2>2
      <4>2. QED
        BY <2>2, <4>1 DEF OnceInv
    <3>2. QED
      BY <2>1, <3>1
  <2>5. QED
    BY <1>0, <2>1, <2>3, <2>4 DEF OnceInv
<1>3. CASE Dispatch
  <2>1. cursor # None /\ cursor \in Walks /\ pending' = pending
    BY <1>3 DEF Dispatch, TypeOK, brokerVars
  <2>2. CASE Ahead # {} /\ Detach([event |-> cursor.event, id |-> Min(Ahead)])
             /\ cursor' = StepOver(Min(Ahead))
    <3> DEFINE t == [event |-> cursor.event, id |-> Min(Ahead)]
    <3>1. Ahead \subseteq Nat /\ Ahead \subseteq CbIds /\ \A j \in Ahead : j > cursor.last
      BY <2>1, AheadFacts
    <3>2. Min(Ahead) \in Ahead
      BY <2>2, <3>1, MinFacts
    <3>3. t \in Tasks /\ t.event = cursor.event /\ t.id > cursor.last
      BY <2>1, <3>1, <3>2 DEF Tasks, Walks
    <3>4. /\ cursor.last \in Nat /\ t.id \in Nat
          /\ cursor' # None /\ cursor'.event = cursor.event /\ cursor'.last = t.id
      BY <2>1, <2>2, <3>1, <3>2, IdsFinite DEF StepOver, Walks
    <3>5. tasks' = Append(tasks, t) /\ job' = job
      BY <2>2 DEF Detach
    <3> HIDE DEF t
    <3>6. \A i \in DOMAIN tasks : tasks[i] # t
      BY <1>0, <2>1, <3>3, <3>4, IdsFinite DEF OnceInv, Passed, Tasks
    <3>7. \A w \in Workers : job[w] # t
      BY <1>0, <2>1, <3>3, <3>4, IdsFinite DEF OnceInv, Passed, Tasks
    <3>8. Passed(pending', cursor', t.event, t.id)
      BY <2>1, <3>3, <3>4 DEF Passed, OnceInv
    <3>9. \A i \in DOMAIN tasks' :
            (i \in DOMAIN tasks /\ tasks'[i] = tasks[i]) \/ (i = Len(tasks) + 1 /\ tasks'[i] = t)
      BY <3>3, <3>5, AppendFacts DEF TypeOK
    <3>10. P3'
      <4>1. ASSUME NEW i \in DOMAIN tasks', NEW j \in DOMAIN tasks', tasks'[i] = tasks'[j]
            PROVE  i = j
        BY <3>6, <3>9, <4>1 DEF OnceInv
      <4>2. QED
        BY <4>1
    <3>11. P5'
      BY <3>5, <3>7, <3>9 DEF OnceInv
    <3>12. P6'
      BY <1>0, <3>8, <3>9
    <3>13. P7' /\ P4'
      BY <1>0, <3>5 DEF OnceInv
    <3>14. P1' /\ P2'
      BY <2>1, <3>4 DEF OnceInv
    <3>15. QED
      BY <3>10, <3>11, <3>12, <3>13, <3>14 DEF OnceInv
  <2>3. CASE UNCHANGED poolVars /\ (cursor' = None \/ cursor' = cursor)
    BY <1>0, <2>1, <2>3 DEF OnceInv, poolVars
  <2>4. QED
    BY <1>3, <2>2, <2>3 DEF Dispatch
<1>4. ASSUME NEW w \in Workers, Start(w) PROVE OnceInv'
  <2>1. /\ tasks' = Tail(tasks) /\ tasks # <<>> /\ job' = [job EXCEPT ![w] = Head(tasks)]
        /\ pending' = pending /\ cursor' = cursor
    BY <1>4 DEF Start, Take, brokerVars, walkVars
  <2>2. /\ 1 \in DOMAIN tasks /\ Head(tasks) = tasks[1]
        /\ \A i \in DOMAIN tasks' : i \in Nat /\ i # 0 /\ i + 1 \in DOMAIN tasks
                                    /\ tasks'[i] = tasks[i + 1]
    BY <2>1, TailFacts DEF TypeOK
  <2>3. \A v \in Workers : job'[v] = IF v = w THEN tasks[1] ELSE job[v]
    BY <2>1, <2>2 DEF TypeOK
  <2>4. P3'
    <3>1. ASSUME NEW i \in DOMAIN tasks', NEW j \in DOMAIN tasks', tasks'[i] = tasks'[j]
          PROVE  i = j
      <4>1. i + 1 = j + 1
        BY <2>2, <3>1 DEF OnceInv
      <4>2. QED
        BY <2>2, <4>1
    <3>2. QED
      BY <3>1
  <2>5. P4'
    BY <2>2, <2>3 DEF OnceInv
  <2>6. P5'
    <3>1. ASSUME NEW i \in DOMAIN tasks', NEW v \in Workers PROVE tasks'[i] # job'[v]
      <4>1. CASE v = w
        <5>1. i + 1 # 1
          BY <2>2
        <5>2. QED
          BY <2>2, <2>3, <4>1, <5>1 DEF OnceInv
      <4>2. CASE v # w
        BY <2>2, <2>3, <4>2 DEF OnceInv
      <4>3. QED
        BY <4>1, <4>2
    <3>2. QED
      BY <3>1
  <2>7. P6'
    BY <1>0, <2>2
  <2>8. ASSUME NEW v \in Workers, job'[v] # None
        PROVE  Passed(pending', cursor', job'[v].event, job'[v].id)
    BY <1>0, <2>2, <2>3, <2>8
  <2>9. P1' /\ P2'
    BY <2>1 DEF OnceInv
  <2>10. QED
    BY <2>4, <2>5, <2>6, <2>7, <2>8, <2>9 DEF OnceInv
<1>5. ASSUME NEW w \in Workers, Done(w), UNCHANGED <<pending, cursor>> PROVE OnceInv'
  <2>1. tasks' = tasks /\ \A v \in Workers : job'[v] = IF v = w THEN None ELSE job[v]
    BY <1>5 DEF Done, TypeOK
  <2>2. P5'
    BY <1>0, <2>1 DEF OnceInv, Tasks
  <2>3. P4' /\ P7'
    BY <1>0, <2>1 DEF OnceInv
  <2>4. QED
    BY <1>0, <1>5, <2>1, <2>2, <2>3 DEF OnceInv
<1>6. CASE UNCHANGED <<poolVars, pending, cursor>>
  BY <1>0, <1>6 DEF OnceInv, poolVars
<1>7. ASSUME NEW w \in Workers, Finish(w) PROVE OnceInv'
  BY <1>5, <1>6, <1>7 DEF Finish, brokerVars, walkVars
<1>8. QED
  BY <1>1, <1>2, <1>3, <1>4, <1>6, <1>7, Actions
     DEF LoopActions, WorkerActions, AppActions, Call, Register, Assign, Count, Insert,
         Unregister, Erase, vars, brokerVars, walkVars

-----------------------------------------------------------------------------
(***************************************************************************)
(* What was run has no task left.                                          *)
(***************************************************************************)
LEMMA RunInit == Init => RunInv
BY DEF Init, RunInv

LEMMA RunStep ==
  TypeOK /\ EditInv /\ MapInv /\ TaskInv /\ OnceInv /\ RunInv /\ [Next]_vars => RunInv'
<1> SUFFICES ASSUME TypeOK, EditInv, MapInv, TaskInv, OnceInv, RunInv, [Next]_vars,
                    NEW e \in Events, NEW c \in Callbacks, runs'[e][c] > 0
             PROVE  /\ runs'[e][c] = 1
                    /\ given'[c] # 0
                    /\ evt'[e] # None /\ evt'[e].type = TypeOf[c]
                    /\ Passed(pending', cursor', e, given'[c])
                    /\ \A i \in DOMAIN tasks' : tasks'[i] # [event |-> e, id |-> given'[c]]
                    /\ \A w \in Workers :
                         at'[w] = "call" => job'[w] # [event |-> e, id |-> given'[c]]
  BY DEF RunInv
<1> DEFINE t == [event |-> e, id |-> given[c]]
           Goal ==
             /\ runs'[e][c] = 1
             /\ given'[c] # 0
             /\ evt'[e] # None /\ evt'[e].type = TypeOf[c]
             /\ Passed(pending', cursor', e, given'[c])
             /\ \A i \in DOMAIN tasks' : tasks'[i] # [event |-> e, id |-> given'[c]]
             /\ \A w \in Workers :
                  at'[w] = "call" => job'[w] # [event |-> e, id |-> given'[c]]
<1> SUFFICES Goal
  OBVIOUS
<1>1. ASSUME runs[e][c] > 0
      PROVE  /\ runs[e][c] = 1 /\ given[c] \in CbIds /\ t \in Tasks
             /\ given'[c] = given[c]
             /\ evt'[e] # None /\ evt'[e].type = TypeOf[c]
             /\ Passed(pending', cursor', e, given'[c])
             /\ Passed(pending, cursor, e, given[c])
             /\ \A i \in DOMAIN tasks : tasks[i] # t
             /\ \A w \in Workers : at[w] = "call" => job[w] # t
  <2>1. /\ runs[e][c] = 1 /\ given[c] # 0 /\ evt[e] # None /\ evt[e].type = TypeOf[c]
        /\ Passed(pending, cursor, e, given[c])
        /\ \A i \in DOMAIN tasks : tasks[i] # t
        /\ \A w \in Workers : at[w] = "call" => job[w] # t
    BY <1>1 DEF RunInv
  <2>2. given[c] \in CbIds
    BY <2>1 DEF TypeOK
  <2>3. t \in Tasks
    BY <2>2 DEF Tasks
  <2>4. given'[c] = given[c] /\ evt'[e] = evt[e]
    BY <2>1, GivenStays, PublishedStays
  <2>5. Passed(pending', cursor', e, given[c])
    BY <2>1, <2>2, PassedStays
  <2>6. QED
    BY <2>1, <2>2, <2>3, <2>4, <2>5
<1>2. ASSUME runs[e][c] > 0, runs'[e][c] = runs[e][c], \A i \in DOMAIN tasks' : tasks'[i] # t,
             \A w \in Workers : at'[w] = "call" => job'[w] # t
      PROVE  Goal
  <2>1. [event |-> e, id |-> given'[c]] = t
    BY <1>1, <1>2
  <2>2. /\ \A i \in DOMAIN tasks' : tasks'[i] # [event |-> e, id |-> given'[c]]
        /\ \A w \in Workers : at'[w] = "call" => job'[w] # [event |-> e, id |-> given'[c]]
    BY <1>2, <2>1
  <2>3. /\ runs'[e][c] = 1 /\ given'[c] # 0 /\ evt'[e] # None /\ evt'[e].type = TypeOf[c]
        /\ Passed(pending', cursor', e, given'[c])
    BY <1>1, <1>2, IdsFinite
  <2>4. QED
    BY <2>2, <2>3
<1> HIDE DEF Goal
<1>3. CASE \E w \in Workers : Call(w)
  <2>1. PICK w \in Workers : Call(w)
    BY <1>3
  <2>2. UNCHANGED <<tasks, job, evt, pending, cursor, given>>
    BY <2>1 DEF Call, poolVars, brokerVars, walkVars, editVars
  <2>3. job[w] \in Tasks /\ at[w] = "call" /\ job[w] # None
    BY <2>1 DEF Call, TaskInv, TypeOK
  <2>4. CASE runs' = runs
    <3>1. \A v \in Workers : at'[v] = "call" => at[v] = "call"
      BY <2>1 DEF Call, TypeOK
    <3>2. runs[e][c] > 0
      BY <2>4
    <3>3. \A v \in Workers : at'[v] = "call" => job[v] # t
      BY <1>1, <3>1, <3>2
    <3>4. QED
      BY <1>1, <1>2, <2>2, <2>4, <3>2, <3>3
  <2>5. ASSUME NEW h \in HandlerOf(job[w]), Runs(job[w].event, h.cb),
               at' = [at EXCEPT ![w] = "run"]
        PROVE  /\ runs'[e][c] = 1
               /\ given[c] # 0
               /\ evt[e] # None /\ evt[e].type = TypeOf[c]
               /\ Passed(pending, cursor, e, given[c])
               /\ \A i \in DOMAIN tasks : tasks[i] # t
               /\ \A v \in Workers : at'[v] = "call" => job[v] # t
    <3>1. /\ h.cb \in Callbacks /\ given[h.cb] = job[w].id
          /\ TypeOf[h.cb] = evt[job[w].event].type
      BY <2>5 DEF HandlerOf, Handlers, MapInv, TypeOK, Entries
    <3>2. \A v \in Workers : at'[v] = "call" => at[v] = "call" /\ v # w
      BY <2>5 DEF TypeOK
    <3>3. CASE e = job[w].event /\ c = h.cb
      <4>1. t = job[w]
        BY <2>3, <3>1, <3>3 DEF Tasks
      <4>2. runs[e][c] = 0
        <5>1. runs[e][c] \in Nat
          BY DEF TypeOK
        <5>2. ~(runs[e][c] > 0)
          BY <1>1, <2>3, <4>1
        <5>3. QED
          BY <5>1, <5>2
      <4>3. runs'[e][c] = 1
        BY <2>5, <3>3, <4>2 DEF Runs, TypeOK
      <4>4. given[c] # 0
        BY <2>3, <3>1, <3>3, IdsFinite DEF Tasks
      <4>5. evt[e] # None
        BY <2>3, <3>3 DEF TaskInv, Sourced
      <4>6. \A i \in DOMAIN tasks : tasks[i] # t
        BY <4>1 DEF OnceInv
      <4>7. \A v \in Workers : at'[v] = "call" => job[v] # t
        BY <2>3, <3>2, <4>1 DEF OnceInv
      <4>8. Passed(pending, cursor, e, given[c])
        BY <2>3, <3>1, <3>3 DEF OnceInv
      <4>9. QED
        BY <3>1, <3>3, <4>3, <4>4, <4>5, <4>6, <4>7, <4>8
    <3>4. CASE ~(e = job[w].event /\ c = h.cb)
      <4>1. runs'[e][c] = runs[e][c]
        BY <2>3, <2>5, <3>1, <3>4 DEF Runs, TypeOK, Tasks
      <4>2. runs[e][c] > 0
        BY <4>1
      <4>3. \A v \in Workers : at'[v] = "call" => job[v] # t
        BY <1>1, <3>2, <4>2
      <4>4. /\ runs[e][c] = 1 /\ given[c] # 0 /\ Passed(pending, cursor, e, given[c])
            /\ \A i \in DOMAIN tasks : tasks[i] # t
        BY <1>1, <4>2, IdsFinite
      <4>5. evt[e] # None /\ evt[e].type = TypeOf[c]
        BY <1>1, <2>2, <4>2
      <4>6. QED
        BY <4>1, <4>3, <4>4, <4>5
    <3>5. QED
      BY <3>3, <3>4
  <2>6. ASSUME NEW h \in HandlerOf(job[w]), Runs(job[w].event, h.cb),
               at' = [at EXCEPT ![w] = "run"]
        PROVE  Goal
    BY <2>2, <2>5, <2>6 DEF Goal
  <2>7. QED
    BY <2>1, <2>4, <2>6 DEF Call
<1>4. CASE UNCHANGED runs /\ \A i \in DOMAIN tasks' : \E j \in DOMAIN tasks : tasks'[i] = tasks[j]
  <2>1. runs[e][c] > 0
    BY <1>4
  <2>0. \A i \in DOMAIN tasks' : tasks'[i] # t
    BY <1>1, <1>4, <2>1
  <2>2. CASE \E w \in Workers : Start(w)
    <3>1. PICK w \in Workers : Start(w)
      BY <2>2
    <3>2. tasks # <<>> /\ job' = [job EXCEPT ![w] = Head(tasks)] /\ at' = [at EXCEPT ![w] = "call"]
      BY <3>1 DEF Start, Take
    <3>3. Head(tasks) # t
      BY <1>1, <2>1, <3>2, TailFacts DEF TypeOK
    <3>4. \A v \in Workers : at'[v] = "call" => job'[v] # t
      BY <1>1, <2>1, <3>2, <3>3 DEF TypeOK
    <3>5. QED
      BY <1>2, <1>4, <2>0, <2>1, <3>4
  <2>3. CASE \E w \in Workers : Finish(w)
    <3>1. PICK w \in Workers : Finish(w)
      BY <2>3
    <3>2. UNCHANGED <<job, at>> \/ (job' = [job EXCEPT ![w] = None] /\ at' = [at EXCEPT ![w] = "start"])
      BY <3>1 DEF Finish, Done, poolVars
    <3>3. \A v \in Workers : at'[v] = "call" => at[v] = "call" /\ job'[v] = job[v]
      BY <3>2 DEF TypeOK
    <3>4. \A v \in Workers : at'[v] = "call" => job'[v] # t
      BY <1>1, <2>1, <3>3
    <3>5. QED
      BY <1>2, <1>4, <2>0, <2>1, <3>4
  <2>4. CASE UNCHANGED <<job, at>>
    <3>1. \A v \in Workers : at'[v] = "call" => job'[v] # t
      BY <1>1, <2>1, <2>4
    <3>2. QED
      BY <1>2, <1>4, <2>0, <2>1, <3>1
  <2>5. QED
    BY <1>3, <2>2, <2>3, <2>4, Actions
       DEF ClientStep, PublishEvent, LoopActions, OnEventMessage, Dispatch, Detach,
           WorkerActions,
           AppActions, Register, Assign, Count, Insert, Unregister, Erase, poolVars, vars
<1>5. CASE Dispatch
  <2>1. /\ runs' = runs /\ at' = at /\ cursor # None /\ cursor \in Walks
    BY <1>5 DEF Dispatch, TypeOK
  <2>2. runs[e][c] > 0
    BY <2>1
  <2>3. CASE Ahead # {} /\ Detach([event |-> cursor.event, id |-> Min(Ahead)])
    <3> DEFINE m == Min(Ahead)
               new == [event |-> cursor.event, id |-> m]
    <3>1. Ahead \subseteq CbIds /\ Ahead \subseteq Nat /\ \A j \in Ahead : j > cursor.last
      BY <2>1, AheadFacts
    <3>2. m \in Ahead
      BY <2>3, <3>1, MinFacts
    <3>3. m > cursor.last /\ m \in CbIds /\ m \in Nat
      BY <3>1, <3>2
    <3>4. tasks' = Append(tasks, new) /\ job' = job
      BY <2>3 DEF Detach
    <3> HIDE DEF m
    <3>5. new # t
      <4>1. cursor.last \in CbIds \cup {0}
        BY <2>1 DEF Walks
      <4>2. cursor.last \in Nat /\ given[c] \in Nat
        BY <1>1, <2>2, <4>1, IdsNat
      <4>3. cursor.event = e => given[c] <= cursor.last
        BY <1>1, <2>1, <2>2 DEF Passed
      <4>4. QED
        BY <3>3, <4>2, <4>3
    <3>6. new \in Tasks
      BY <2>1, <3>3 DEF Tasks, Walks
    <3> HIDE DEF new
    <3>7. \A i \in DOMAIN tasks' : (i \in DOMAIN tasks /\ tasks'[i] = tasks[i]) \/ tasks'[i] = new
      BY <3>4, <3>6, AppendFacts DEF TypeOK
    <3>8. \A i \in DOMAIN tasks' : tasks'[i] # t
      BY <1>1, <2>2, <3>5, <3>7
    <3>9. \A w \in Workers : at'[w] = "call" => job'[w] # t
      BY <1>1, <2>1, <2>2, <3>4
    <3>10. QED
      BY <1>2, <2>1, <2>2, <3>8, <3>9
  <2>4. CASE UNCHANGED poolVars
    <3>1. /\ \A i \in DOMAIN tasks' : tasks'[i] # t
          /\ \A w \in Workers : at'[w] = "call" => job'[w] # t
      BY <1>1, <2>1, <2>2, <2>4 DEF poolVars
    <3>2. QED
      BY <1>2, <2>1, <2>2, <3>1
  <2>5. QED
    BY <1>5, <2>3, <2>4 DEF Dispatch
<1>6. CASE \E w \in Workers : Start(w)
  <2>1. tasks' = Tail(tasks) /\ tasks # <<>> /\ runs' = runs
    BY <1>6 DEF Start, Take
  <2>2. \A i \in DOMAIN tasks' : i + 1 \in DOMAIN tasks /\ tasks'[i] = tasks[i + 1]
    BY <2>1, TailFacts DEF TypeOK
  <2>3. QED
    BY <1>4, <2>1, <2>2
<1>7. CASE UNCHANGED <<runs, tasks>>
  BY <1>4, <1>7
<1>8. QED
  BY <1>3, <1>5, <1>6, <1>7, Actions
     DEF ClientStep, PublishEvent, LoopActions, OnEventMessage, WorkerActions, Finish, Done,
         AppActions, Register, Assign, Count, Insert, Unregister, Erase, poolVars, vars

-----------------------------------------------------------------------------
IInv ==
  /\ TypeOK /\ EditInv /\ MapInv /\ TaskInv
  /\ IdInv /\ KeepInv /\ OnceInv /\ RunInv /\ DeathsExplained

LEMMA Invariance == Spec => []IInv
<1>1. Init => IInv
  BY TypeInit, EditInit, MapInit, TaskInit, IdInit, KeepInit, OnceInit, RunInit, DeathInit
     DEF IInv
<1>2. IInv /\ [Next]_vars => IInv'
  BY TypeStep, EditStep, MapStep, TaskStep, IdStep, KeepStep, OnceStep, RunStep, DeathStep
     DEF IInv
<1>3. QED
  BY <1>1, <1>2, PTL DEF Spec

\* Every variable keeps its type: in particular evt_cb_id never counts further than
\* there are callbacks to register (register_event_handler).
THEOREM TypeCorrect == Spec => []TypeOK
<1>1. IInv => TypeOK
  BY DEF IInv
<1>2. QED
  BY <1>1, Invariance, PTL

\* A callback runs at most once for an event, and only for events of its type, however
\* registrations, erasures, the walk and the workers interleave (_on_event_message,
\* _event_worker).
THEOREM EventHandledOnce == Spec => []HandledOnce
<1>1. TypeOK /\ RunInv => HandledOnce
  <2> SUFFICES ASSUME TypeOK, RunInv, NEW e \in Events, NEW c \in Callbacks
               PROVE  runs[e][c] <= 1 /\ (runs[e][c] > 0 => evt[e].type = TypeOf[c])
    BY DEF HandledOnce
  <2>1. runs[e][c] \in Nat
    BY DEF TypeOK
  <2>2. runs[e][c] > 0 => runs[e][c] = 1 /\ evt[e].type = TypeOf[c]
    BY DEF RunInv
  <2>3. QED
    BY <2>1, <2>2
<1>2. IInv => HandledOnce
  BY <1>1 DEF IInv
<1>3. QED
  BY <1>2, Invariance, PTL

\* Unless changes of the map overlapped, a registered handler stays until it is
\* unregistered: no registration overwrites or wipes out another (register_event_handler).
THEOREM RegistrationsStay == Spec => []RegistrationsLast
<1>1. IInv => RegistrationsLast
  BY DEF IInv, KeepInv
<1>2. QED
  BY <1>1, Invariance, PTL

\* The assertion of register_event_handler needs an overlap to fail; a worker finds no
\* handler, or loses the one it runs, only after an overlap or an unregister_event_handler.
THEOREM DeathsHaveCauses == Spec => []DeathsExplained
<1>1. IInv => DeathsExplained
  BY DEF IInv
<1>2. QED
  BY <1>1, Invariance, PTL
=============================================================================
