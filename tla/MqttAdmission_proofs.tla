------------------------ MODULE MqttAdmission_proofs ------------------------
(***************************************************************************)
(* MqttAdmission for any number of requests and clients, and any limits.   *)
(* The invariant says where a request can be at each point of its life     *)
(* (Places); that slots are released, that admission is bounded and that   *)
(* close() is final follows from it action by action, and so does, with    *)
(* the fate of each request, the refinement of AdmissionContract.          *)
(***************************************************************************)
EXTENDS MqttAdmission, FiniteSetTheorems, TLAPS

(* Where a request is: nowhere while new, in one callback, in the hands of *)
(* one thread, or given up.                                                *)
Places ==
  /\ \A m \in Requests : run[m] = "new" =>
       /\ m \notin tokens \union tasks \union ready \union dropped
       /\ \A c \in Clients : m \notin inbox[c] /\ held[c] # m
  /\ \A c \in Clients : \A m \in inbox[c] :
       /\ run[m] = "waiting"
       /\ m \notin tokens \union tasks \union ready \union dropped
       /\ \A d \in Clients : held[d] # m /\ (m \in inbox[d] => c = d)
  /\ \A c, d \in Clients : held[c] # None /\ held[c] = held[d] => c = d
  /\ \A c \in Clients : posted[c] => held[c] # None
  /\ \A c \in Clients : held[c] # None /\ ~posted[c] =>
       run[held[c]] = "waiting" /\ held[c] \notin ready
  /\ \A m \in ready : run[m] = "waiting"
  /\ handles \subseteq tokens
  /\ \A m \in dropped : run[m] = "waiting" /\ m \notin tokens

(* What close() leaves behind.                                             *)
Quiet ==
  /\ closed <=> closing # "open"
  /\ closed => tokens = {} /\ handles = {}
  /\ closing = "joining" => tasks \subseteq joining
  /\ closing = "joined" => tasks = {}

Inv == TypeOK /\ Places /\ SlotsAreReleased /\ Quiet /\ Bounded

(* An admission leaves room for the request it admits: the counter of      *)
(* handle_incoming is never below the requests in progress.                *)
LEMMA RoomForAdmitted ==
  ASSUME Bounded, Admits, NEW m
  PROVE  IsFiniteSet(InProgress \union {m}) /\ Cardinality(InProgress \union {m}) <= Limit
<1>1. IsFiniteSet(tasks) /\ IsFiniteSet(tokens)
  BY FS_Subset DEF Bounded, InProgress
<1>2. /\ Cardinality(tasks) \in Nat /\ Cardinality(tokens) \in Nat
      /\ Cardinality(tasks \intersect tokens) \in Nat
  BY <1>1, FS_CardinalityType, FS_Intersection
<1>3. Cardinality(InProgress) <= Cardinality(tasks) + Cardinality(tokens)
  <2>1. Cardinality(tasks \union tokens) = Cardinality(tasks) + Cardinality(tokens)
                                            - Cardinality(tasks \intersect tokens)
    BY <1>1, FS_Union
  <2> QED
    BY <1>2, <2>1 DEF InProgress
<1>4. IsFiniteSet(InProgress) /\ Cardinality(InProgress) \in Nat
  BY FS_CardinalityType DEF Bounded
<1>5. /\ IsFiniteSet(InProgress \union {m})
      /\ \/ Cardinality(InProgress \union {m}) = Cardinality(InProgress)
         \/ Cardinality(InProgress \union {m}) = Cardinality(InProgress) + 1
  BY <1>4, FS_AddElement
<1>6. Cardinality(tasks) + Cardinality(tokens) < Limit
  BY DEF Admits
<1> QED
  BY <1>2, <1>3, <1>4, <1>5, <1>6, LimitsAssumption

(* Fewer requests in progress keep within the limit.                       *)
LEMMA FewerInProgress ==
  ASSUME Bounded, NEW S, S \subseteq InProgress
  PROVE  IsFiniteSet(S) /\ Cardinality(S) <= Limit
<1>1. IsFiniteSet(S) /\ Cardinality(S) <= Cardinality(InProgress)
  BY FS_Subset DEF Bounded
<1>2. Cardinality(S) \in Nat /\ Cardinality(InProgress) \in Nat
  BY <1>1, FS_CardinalityType DEF Bounded
<1> QED
  BY <1>1, <1>2, LimitsAssumption DEF Bounded

(* The initial states satisfy the invariant.                               *)
LEMMA InitInv == Init => Inv
<1> SUFFICES ASSUME Init PROVE Inv
  OBVIOUS
<1>1. IsFiniteSet({}) /\ Cardinality({}) = 0
  BY FS_EmptySet
<1>2. TypeOK
  <2>1. ASSUME NEW c \in Clients PROVE Fits(inbox[c])
    <3>1. inbox[c] = {}
      BY DEF Init
    <3> QED
      BY <1>1, <3>1, LimitsAssumption DEF Fits
  <2> QED
    BY <2>1 DEF Init, TypeOK, Typed
<1>3. Places /\ SlotsAreReleased /\ Quiet
  BY NoneAssumption DEF Init, Places, SlotsAreReleased, Quiet
<1>4. Bounded
  <2>1. InProgress = {}
    BY DEF Init, InProgress
  <2> QED
    BY <1>1, <2>1, LimitsAssumption DEF Bounded
<1> QED
  BY <1>2, <1>3, <1>4 DEF Inv

(* Every step keeps the state well typed, and the buffers within bounds.   *)
LEMMA StepTyped == Inv /\ [Next]_vars => Typed'
<1> SUFFICES ASSUME Inv, [Next]_vars PROVE Typed'
  OBVIOUS
<1>0. Typed /\ \A c \in Clients : posted[c] => held[c] # None
  BY DEF Inv, TypeOK, Places
<1>1. ASSUME NEW c \in Clients, Post(c) \/ PostFails(c) \/ Keep(c) PROVE Typed'
  BY <1>0, <1>1 DEF Typed, Post, PostFails, Keep, Released, dispatcher, lifecycle
<1>2. ASSUME NEW c \in Clients, NEW m \in Requests, Deliver(c, m) PROVE Typed'
  BY <1>0, <1>2 DEF Deliver, Typed, dispatcher, threads, lifecycle
<1>3. ASSUME NEW c \in Clients, NEW m \in Requests, HandleOnLoop(c, m) PROVE Typed'
  BY <1>0, <1>3 DEF HandleOnLoop, Scheduled, Typed, threads, lifecycle
<1>4. ASSUME NEW c \in Clients, NEW m \in Requests, Reserve(c, m) PROVE Typed'
  BY <1>0, <1>4 DEF Reserve, Typed, lifecycle
<1>5. ASSUME NEW m \in Requests, Task(m) PROVE Typed'
  BY <1>0, <1>5 DEF Task, Schedule, Scheduled, Finish, TaskDone, Released, Typed, dispatcher,
     threads, lifecycle
<1>6. CASE Bridge
  BY <1>0, <1>6 DEF Bridge, Close, Owned, Joined, CutOff, Start, LoopEnds, Typed, dispatcher,
     threads
<1>7. CASE UNCHANGED vars
  BY <1>0, <1>7 DEF vars, Typed, dispatcher, threads, lifecycle
<1> QED
  BY <1>1, <1>2, <1>3, <1>4, <1>5, <1>6, <1>7 DEF Next, Thread

LEMMA StepFits == Inv /\ [Next]_vars => \A d \in Clients : Fits(inbox'[d])
<1> SUFFICES ASSUME Inv, [Next]_vars, NEW d \in Clients PROVE Fits(inbox'[d])
  OBVIOUS
<1>0. Fits(inbox[d]) /\ inbox \in [Clients -> SUBSET Requests]
  BY DEF Inv, TypeOK, Typed
<1>1. /\ IsFiniteSet(inbox[d]) /\ Cardinality(inbox[d]) \in Nat
      /\ Cardinality(inbox[d]) <= MaxScheduled
  BY <1>0, FS_CardinalityType DEF Fits
<1>2. CASE inbox'[d] \subseteq inbox[d]
  <2>1. IsFiniteSet(inbox'[d]) /\ Cardinality(inbox'[d]) <= Cardinality(inbox[d])
    BY <1>1, <1>2, FS_Subset
  <2>2. Cardinality(inbox'[d]) \in Nat
    BY <2>1, FS_CardinalityType
  <2> QED
    BY <1>1, <2>1, <2>2, LimitsAssumption DEF Fits
<1>3. ASSUME NEW m, inbox'[d] = inbox[d] \union {m}, Room(d) PROVE Fits(inbox'[d])
  <2>1. /\ IsFiniteSet(inbox[d] \union {m})
        /\ \/ Cardinality(inbox[d] \union {m}) = Cardinality(inbox[d])
           \/ Cardinality(inbox[d] \union {m}) = Cardinality(inbox[d]) + 1
    BY <1>1, FS_AddElement
  <2>2. Cardinality(inbox[d]) < MaxScheduled
    BY <1>3 DEF Room
  <2> QED
    BY <1>1, <1>3, <2>1, <2>2, LimitsAssumption DEF Fits
<1>4. ASSUME NEW c \in Clients, NEW m \in Requests, Deliver(c, m) PROVE Fits(inbox'[d])
  <2>1. CASE c = d /\ Room(c)
    <3>1. inbox'[d] = inbox[d] \union {m}
      BY <1>0, <1>4, <2>1 DEF Deliver
    <3>2. Room(d)
      BY <2>1
    <3> QED
      BY <1>3, <3>1, <3>2
  <2>2. CASE c # d \/ ~Room(c)
    <3>1. inbox'[d] = inbox[d]
      BY <1>0, <1>4, <2>2 DEF Deliver
    <3> QED
      BY <1>2, <3>1
  <2> QED
    BY <2>1, <2>2
<1>5. ASSUME NEW c \in Clients, NEW m \in Requests, HandleOnLoop(c, m)
      PROVE  Fits(inbox'[d])
  <2>1. inbox'[d] \subseteq inbox[d]
    BY <1>0, <1>5 DEF HandleOnLoop
  <2> QED
    BY <1>2, <2>1
<1>6. CASE UNCHANGED inbox
  BY <1>2, <1>6
<1>7. Next \/ UNCHANGED vars => \/ \E c \in Clients, m \in Requests :
                                     Deliver(c, m) \/ HandleOnLoop(c, m)
                                \/ UNCHANGED inbox
  BY DEF Next, Thread, Task, Bridge, Reserve, Post, PostFails, Keep, Schedule, Finish,
     TaskDone, Close, Joined, CutOff, Start, LoopEnds, vars
<1> QED
  BY <1>4, <1>5, <1>6, <1>7

(* Every step leaves each request in its place.                            *)
LEMMA StepPlaces == Inv /\ [Next]_vars => Places'
<1> SUFFICES ASSUME Inv, [Next]_vars PROVE Places'
  OBVIOUS
<1> USE NoneAssumption
<1>0. Typed /\ Places /\ SlotsAreReleased
  BY DEF Inv, TypeOK
<1>1. ASSUME NEW c \in Clients, NEW m \in Requests, Deliver(c, m) PROVE Places'
  BY <1>0, <1>1 DEF Deliver, Places, SlotsAreReleased, Typed, dispatcher, threads, lifecycle
<1>2. ASSUME NEW c \in Clients, NEW m \in Requests, HandleOnLoop(c, m) PROVE Places'
  BY <1>0, <1>2 DEF HandleOnLoop, Scheduled, Places, Typed, threads, lifecycle
<1>3. ASSUME NEW c \in Clients, NEW m \in Requests, Reserve(c, m) PROVE Places'
  BY <1>0, <1>3 DEF Reserve, Places, Typed, lifecycle
<1>4. ASSUME NEW c \in Clients, Post(c) PROVE Places'
  BY <1>0, <1>4 DEF Post, Places, Typed, dispatcher, lifecycle
<1>5. ASSUME NEW c \in Clients, PostFails(c) PROVE Places'
  BY <1>0, <1>5 DEF PostFails, Released, Places, Typed, lifecycle
<1>6. ASSUME NEW c \in Clients, Keep(c) PROVE Places'
  BY <1>0, <1>6 DEF Keep, Gone, Places, Typed, lifecycle
<1>7. ASSUME NEW m \in Requests, Schedule(m) PROVE Places'
  BY <1>0, <1>7 DEF Schedule, Scheduled, Dropped, Places, Typed, threads, lifecycle
<1>8. ASSUME NEW m \in Requests, Finish(m) \/ TaskDone(m) PROVE Places'
  BY <1>0, <1>8 DEF Finish, TaskDone, Released, Places, Typed, dispatcher, threads, lifecycle
<1>9. CASE Close
  BY <1>0, <1>9 DEF Close, Places, SlotsAreReleased, Typed, threads
<1>10. CASE Joined \/ CutOff \/ Start \/ LoopEnds
  BY <1>0, <1>10 DEF Joined, CutOff, Start, LoopEnds, Places, dispatcher, threads
<1>11. CASE UNCHANGED vars
  BY <1>0, <1>11 DEF vars, Places, dispatcher, threads, lifecycle
<1> QED
  BY <1>1, <1>2, <1>3, <1>4, <1>5, <1>6, <1>7, <1>8, <1>9, <1>10, <1>11
     DEF Next, Thread, Task, Bridge

(* Every step leaves live work behind every slot.                          *)
LEMMA StepSlots == Inv /\ [Next]_vars => SlotsAreReleased'
<1> SUFFICES ASSUME Inv, [Next]_vars PROVE SlotsAreReleased'
  OBVIOUS
<1> USE NoneAssumption
<1>0. Typed /\ Places /\ SlotsAreReleased /\ Quiet
  BY DEF Inv, TypeOK
<1>1. ASSUME NEW c \in Clients, NEW m \in Requests, Deliver(c, m) PROVE SlotsAreReleased'
  BY <1>0, <1>1 DEF Deliver, Places, SlotsAreReleased, Typed, dispatcher, threads
<1>2. ASSUME NEW c \in Clients, NEW m \in Requests, HandleOnLoop(c, m)
      PROVE  SlotsAreReleased'
  BY <1>0, <1>2 DEF HandleOnLoop, Scheduled, Places, SlotsAreReleased, Typed, threads
<1>3. ASSUME NEW c \in Clients, NEW m \in Requests, Reserve(c, m) PROVE SlotsAreReleased'
  BY <1>0, <1>3 DEF Reserve, Places, SlotsAreReleased, Typed
<1>4. ASSUME NEW c \in Clients, Post(c) PROVE SlotsAreReleased'
  BY <1>0, <1>4 DEF Post, Places, SlotsAreReleased, Typed, dispatcher
<1>5. ASSUME NEW c \in Clients, PostFails(c) PROVE SlotsAreReleased'
  BY <1>0, <1>5 DEF PostFails, Released, Places, SlotsAreReleased, Typed
<1>6. ASSUME NEW c \in Clients, Keep(c) PROVE SlotsAreReleased'
  BY <1>0, <1>6 DEF Keep, Gone, Places, SlotsAreReleased, Quiet, Typed
<1>7. ASSUME NEW m \in Requests, Schedule(m) PROVE SlotsAreReleased'
  BY <1>0, <1>7 DEF Schedule, Scheduled, Places, SlotsAreReleased, Typed, threads
<1>8. ASSUME NEW m \in Requests, Finish(m) \/ TaskDone(m) PROVE SlotsAreReleased'
  BY <1>0, <1>8 DEF Finish, TaskDone, Released, SlotsAreReleased, Typed, dispatcher, threads
<1>9. CASE Bridge
  BY <1>0, <1>9 DEF Bridge, Close, Joined, CutOff, Start, LoopEnds, SlotsAreReleased,
     dispatcher, threads
<1>10. CASE UNCHANGED vars
  BY <1>0, <1>10 DEF vars, SlotsAreReleased, dispatcher, threads
<1> QED
  BY <1>1, <1>2, <1>3, <1>4, <1>5, <1>6, <1>7, <1>8, <1>9, <1>10 DEF Next, Thread, Task

(* While close() is under way no task begins.                              *)
LEMMA StepQuiet == Inv /\ [Next]_vars => Quiet'
<1> SUFFICES ASSUME Inv, [Next]_vars PROVE Quiet'
  OBVIOUS
<1>0. Typed /\ Quiet
  BY DEF Inv, TypeOK
<1>1. ASSUME NEW c \in Clients, NEW m \in Requests,
             Deliver(c, m) \/ HandleOnLoop(c, m) \/ Reserve(c, m)
      PROVE  Quiet'
  BY <1>0, <1>1 DEF Deliver, HandleOnLoop, Scheduled, Reserve, Admits, Quiet, dispatcher,
     lifecycle
<1>2. ASSUME NEW c \in Clients, Post(c) \/ PostFails(c) \/ Keep(c) PROVE Quiet'
  BY <1>0, <1>2 DEF Post, PostFails, Released, Keep, Gone, Quiet, dispatcher, lifecycle
<1>3. ASSUME NEW m \in Requests, Task(m) PROVE Quiet'
  BY <1>0, <1>3 DEF Task, Schedule, Scheduled, Dropped, Finish, TaskDone, Released, Quiet,
     dispatcher, lifecycle
<1>4. CASE Bridge
  BY <1>0, <1>4 DEF Bridge, Close, Owned, Joined, CutOff, Start, LoopEnds, Quiet, Typed,
     dispatcher
<1>5. CASE UNCHANGED vars
  BY <1>0, <1>5 DEF vars, Quiet, dispatcher, lifecycle
<1> QED
  BY <1>1, <1>2, <1>3, <1>4, <1>5 DEF Next, Thread

(* Only an admission adds a request to those in progress, and only one.    *)
LEMMA StepBounded == Inv /\ [Next]_vars => Bounded'
<1> SUFFICES ASSUME Inv, [Next]_vars PROVE Bounded'
  OBVIOUS
<1>0. Bounded
  BY DEF Inv
<1>1. CASE InProgress' \subseteq InProgress
  BY <1>0, <1>1, FewerInProgress DEF Bounded
<1>2. ASSUME NEW m, Admits, InProgress' = InProgress \union {m} PROVE Bounded'
  BY <1>0, <1>2, RoomForAdmitted DEF Bounded
<1>3. ASSUME NEW c \in Clients, NEW m \in Requests, HandleOnLoop(c, m) \/ Reserve(c, m)
      PROVE  Bounded'
  <2>1. CASE Admits
    <3>1. InProgress' \subseteq InProgress \/ InProgress' = InProgress \union {m}
      BY <1>3, <2>1 DEF HandleOnLoop, Scheduled, Reserve, InProgress
    <3> QED
      BY <1>1, <1>2, <2>1, <3>1
  <2>2. CASE ~Admits
    <3>1. InProgress' \subseteq InProgress
      BY <1>3, <2>2 DEF HandleOnLoop, Reserve, InProgress
    <3> QED
      BY <1>1, <3>1
  <2> QED
    BY <2>1, <2>2
<1>4. ASSUME NEW c \in Clients, NEW m \in Requests, Deliver(c, m) PROVE Bounded'
  <2>1. InProgress' \subseteq InProgress
    BY <1>4 DEF Deliver, InProgress, dispatcher
  <2> QED
    BY <1>1, <2>1
<1>5. ASSUME NEW c \in Clients, Post(c) \/ PostFails(c) \/ Keep(c) PROVE Bounded'
  <2>1. InProgress' \subseteq InProgress
    BY <1>5 DEF Post, PostFails, Released, Keep, InProgress, dispatcher
  <2> QED
    BY <1>1, <2>1
<1>6. ASSUME NEW m \in Requests, Task(m) PROVE Bounded'
  <2>1. InProgress' \subseteq InProgress
    BY <1>6 DEF Task, Schedule, Scheduled, Dropped, Finish, TaskDone, Released, InProgress,
       dispatcher
  <2> QED
    BY <1>1, <2>1
<1>7. CASE Bridge \/ UNCHANGED vars
  <2>1. InProgress' \subseteq InProgress
    BY <1>7 DEF Bridge, Close, Joined, CutOff, Start, LoopEnds, InProgress, dispatcher, vars
  <2> QED
    BY <1>1, <2>1
<1> QED
  BY <1>3, <1>4, <1>5, <1>6, <1>7 DEF Next, Thread

(* Inv is an invariant of MqttAdmission.                                   *)
LEMMA Invariance == Spec => []Inv
<1>1. Inv /\ [Next]_vars => Inv'
  <2> SUFFICES ASSUME Inv, [Next]_vars PROVE Inv'
    OBVIOUS
  <2>1. Typed' /\ \A d \in Clients : Fits(inbox'[d])
    BY StepTyped, StepFits
  <2>2. Places' /\ SlotsAreReleased' /\ Quiet' /\ Bounded'
    BY StepPlaces, StepSlots, StepQuiet, StepBounded
  <2> QED
    BY <2>1, <2>2 DEF Inv, TypeOK
<1> QED
  BY <1>1, InitInv, PTL DEF Spec

(* The state of the admission is well typed, and the buffers between the   *)
(* network threads and the loop stay within their bound (_on_message).     *)
THEOREM AdmissionTyped == Spec => []TypeOK
<1>1. Inv => TypeOK
  BY DEF Inv
<1> QED
  BY <1>1, Invariance, PTL

(* At most MAX_MQTT_INBOUND_TASKS requests are in progress, for any number *)
(* of network threads (handle_incoming).                                   *)
THEOREM AdmissionBounded == Spec => []Bounded
<1>1. Inv => Bounded
  BY DEF Inv
<1> QED
  BY <1>1, Invariance, PTL

(* No slot is lost in the race of a thread that stores its handle with the *)
(* callback and the end of its task (handle_incoming, schedule).           *)
THEOREM SlotsComeBack == Spec => []SlotsAreReleased
<1>1. Inv => SlotsAreReleased
  BY DEF Inv
<1> QED
  BY <1>1, Invariance, PTL

(* After close() has joined, nothing runs until the next start.            *)
THEOREM ClosingIsFinal == Spec => []ClosedIsQuiet
<1>1. Inv => ClosedIsQuiet
  BY DEF Inv, Quiet, ClosedIsQuiet
<1> QED
  BY <1>1, Invariance, PTL

(* A request that close() gave up never runs, even if the bridge starts    *)
(* again before its callback comes (schedule).                             *)
THEOREM GivenUpForGood == Spec => []DroppedStaysDropped
<1>1. Inv => DroppedStaysDropped
  BY DEF Inv, Places, DroppedStaysDropped
<1> QED
  BY <1>1, Invariance, PTL

-----------------------------------------------------------------------------
(* The refinement of AdmissionContract.                                     *)

InCallback(m) == \E c \in Clients : m \in inbox[c]

FateFollows(m) ==
  /\ run[m] = "new" => FateOf(m) = "new"
  /\ run[m] \in {"running", "ended"} => FateOf(m) = "working"
  /\ run[m] = "over" => FateOf(m) = "over"
  /\ run[m] = "waiting" /\ m \in tokens => FateOf(m) = "admitted"
  /\ run[m] = "waiting" /\ m \notin tokens /\ InCallback(m) => FateOf(m) = "offered"
  /\ run[m] = "waiting" /\ m \notin tokens /\ ~InCallback(m) => FateOf(m) = "gone"
  /\ run[m] \in {"new", "waiting", "running", "ended", "over"}

FatesFollow == \A m \in Requests : FateFollows(m)

LEMMA FateIs == Typed => FatesFollow
BY DEF Typed, FateOf, FatesFollow, FateFollows, InCallback

LEMMA FateIsNext == Typed' => FatesFollow'
BY FateIs, PTL

LEMMA SameFate ==
  ASSUME Typed, Typed', NEW m \in Requests, run'[m] = run[m],
         m \in tokens' <=> m \in tokens, InCallback(m)' <=> InCallback(m)
  PROVE  FateOf(m)' = FateOf(m)
BY FateIs, FateIsNext DEF FatesFollow, FateFollows

LEMMA FatesStay ==
  ASSUME \A m \in Requests : FateOf(m)' = FateOf(m)
  PROVE  Fate' = Fate
BY DEF Fate

LEMMA FateChanges ==
  ASSUME NEW m \in Requests, NEW f, FateOf(m)' = f,
         \A n \in Requests : n # m => FateOf(n)' = FateOf(n)
  PROVE  Contract!Becomes(m, f)
<1>1. Fate' = [Fate EXCEPT ![m] = f]
  BY DEF Fate
<1> QED BY <1>1 DEF Contract!Becomes

LEMMA ModeIs ==
  ASSUME Typed
  PROVE  /\ Mode = "open" <=> closing = "open"
         /\ Mode = "closing" <=> closing \in {"joining", "abandoned"}
         /\ Mode = "quiet" <=> closing = "joined"
BY DEF Typed, Mode

(* The contract counts as the code does, and the same requests. *)
LEMMA SameCount ==
  ASSUME NEW S
  PROVE  Contract!Cardinality(S) = Cardinality(S)
BY Zenon DEF Cardinality, Contract!Cardinality

LEMMA OccupiedIs ==
  ASSUME Inv
  PROVE  Contract!Occupied = InProgress
<1>1. Typed /\ Places /\ SlotsAreReleased
  BY DEF Inv, TypeOK
<1>2. \A m \in Requests : m \in InProgress <=> FateOf(m) \in {"admitted", "working"}
  <2> SUFFICES ASSUME NEW m \in Requests
               PROVE  m \in InProgress <=> FateOf(m) \in {"admitted", "working"}
    OBVIOUS
  <2>1. m \in tasks <=> run[m] \in {"running", "ended"}
    BY <1>1 DEF SlotsAreReleased
  <2>2. m \in tokens => run[m] \in {"waiting", "running", "ended"}
    <3>1. m \in ready => run[m] = "waiting"
      BY <1>1 DEF Places
    <3>2. (\E c \in Clients : held[c] = m /\ ~posted[c]) => run[m] = "waiting"
      BY <1>1, NoneAssumption DEF Places
    <3> QED BY <1>1, <2>1, <3>1, <3>2 DEF SlotsAreReleased
  <2> QED BY <1>1, <2>1, <2>2, FateIs DEF FatesFollow, FateFollows, InProgress
<1>3. InProgress \subseteq Requests
  BY <1>1 DEF Typed, InProgress
<1> QED BY <1>2, <1>3 DEF Contract!Occupied, Contract!In, Fate

LEMMA RoomIs ==
  ASSUME Inv, Admits, NEW m \in Requests
  PROVE  Contract!Room(m) /\ Mode = "open"
<1>1. Contract!Room(m)
  BY OccupiedIs, SameCount, RoomForAdmitted DEF Inv, Contract!Room
<1>2. Mode = "open"
  BY ModeIs DEF Inv, TypeOK, Quiet, Admits
<1> QED BY <1>1, <1>2

(* Where a request is, it is alone. *)
LEMMA Whereabouts ==
  ASSUME Inv, NEW m \in Requests
  PROVE  /\ run[m] = "new" => m \notin tokens /\ ~InCallback(m)
         /\ InCallback(m) => run[m] = "waiting" /\ m \notin tokens
         /\ m \in ready => run[m] = "waiting" /\ ~InCallback(m)
         /\ \A c \in Clients :
              /\ held[c] = m => ~InCallback(m)
              /\ held[c] = m /\ ~posted[c] => run[m] = "waiting"
         /\ m \in tokens => ~InCallback(m)
         /\ m \in tasks <=> run[m] \in {"running", "ended"}
BY NoneAssumption DEF Inv, Places, SlotsAreReleased, InCallback

LEMMA DeliverFate ==
  ASSUME Inv, Inv', NEW c \in Clients, NEW m \in Requests, Deliver(c, m)
  PROVE  Contract!Next
<1>0. Typed /\ Typed'
  BY DEF Inv, TypeOK
<1>1. /\ run[m] = "new" /\ run' = [run EXCEPT ![m] = "waiting"]
      /\ inbox' = [inbox EXCEPT ![c] = @ \union {m}] \/ inbox' = inbox
      /\ tokens' = tokens /\ closing' = closing
  BY DEF Deliver, dispatcher, lifecycle
<1>2. m \notin tokens
  BY <1>1, Whereabouts
<1>3. \A n \in Requests : n # m => (InCallback(n)' <=> InCallback(n))
  BY <1>0, <1>1 DEF InCallback, Typed
<1>4. \A n \in Requests : n # m => FateOf(n)' = FateOf(n)
  BY <1>0, <1>1, <1>3, SameFate DEF Typed
<1>5. Fate[m] = "new" /\ FateOf(m)' \in {"offered", "gone"}
  <2>1. run'[m] = "waiting"
    BY <1>0, <1>1 DEF Typed
  <2> QED BY <1>0, <1>1, <1>2, <2>1, FateIs, FateIsNext DEF Fate, FatesFollow, FateFollows
<1>6. Contract!Offer(m) \/ Contract!Refuse(m)
  BY <1>1, <1>4, <1>5, FateChanges DEF Contract!Offer, Contract!Refuse, Mode
<1> QED BY <1>6 DEF Contract!Next

LEMMA HandleFate ==
  ASSUME Inv, Inv', NEW c \in Clients, NEW m \in Requests, HandleOnLoop(c, m)
  PROVE  Contract!Next
<1>0. Typed /\ Typed' /\ FatesFollow /\ FatesFollow'
  BY FateIs, FateIsNext DEF Inv, TypeOK
<1>1. /\ m \in inbox[c] /\ inbox' = [inbox EXCEPT ![c] = @ \ {m}]
      /\ InCallback(m) /\ run[m] = "waiting" /\ m \notin tokens /\ Mode' = Mode
  BY Whereabouts DEF HandleOnLoop, InCallback, lifecycle, Mode
<1>2. \/ tokens' = tokens /\ run' = run
      \/ /\ Admits
         /\ tokens' = tokens \union {m}
         /\ run' = [run EXCEPT ![m] = "running"]
  BY <1>1 DEF HandleOnLoop, Scheduled
<1>3. ~InCallback(m)'
  BY <1>0, <1>1 DEF InCallback, Typed, Inv, Places
<1>4. \A n \in Requests : n # m => (InCallback(n)' <=> InCallback(n))
  BY <1>0, <1>1 DEF InCallback, Typed
<1>5. \A n \in Requests : n # m => FateOf(n)' = FateOf(n)
  BY <1>0, <1>2, <1>4, SameFate DEF Typed
<1>6. Fate[m] = "offered"
  BY <1>0, <1>1 DEF Fate, FatesFollow, FateFollows
<1>7. CASE tokens' = tokens /\ run' = run
  <2>1. FateOf(m)' = "gone"
    BY <1>0, <1>1, <1>3, <1>7 DEF FatesFollow, FateFollows
  <2>2. Contract!Refuse(m)
    BY <1>1, <1>5, <1>6, <2>1, FateChanges DEF Contract!Refuse
  <2> QED BY <2>2 DEF Contract!Next
<1>8. CASE Admits /\ run' = [run EXCEPT ![m] = "running"]
  <2>1. FateOf(m)' = "working"
    BY <1>0, <1>8 DEF Typed, FatesFollow, FateFollows
  <2>2. Contract!Begin(m)
    BY <1>1, <1>5, <1>6, <1>8, <2>1, FateChanges, RoomIs DEF Contract!Begin
  <2> QED BY <2>2 DEF Contract!Next
<1> QED BY <1>2, <1>7, <1>8

LEMMA ReserveFate ==
  ASSUME Inv, Inv', NEW c \in Clients, NEW m \in Requests, Reserve(c, m)
  PROVE  Contract!Next
<1>0. Typed /\ Typed' /\ FatesFollow /\ FatesFollow'
  BY FateIs, FateIsNext DEF Inv, TypeOK
<1>1. /\ run[m] = "new" /\ run' = [run EXCEPT ![m] = "waiting"] /\ inbox' = inbox
      /\ tokens' = IF Admits THEN tokens \union {m} ELSE tokens
      /\ m \notin tokens /\ ~InCallback(m) /\ Mode' = Mode
  BY Whereabouts DEF Reserve, lifecycle, Mode
<1>2. \A n \in Requests : n # m => FateOf(n)' = FateOf(n)
  BY <1>0, <1>1, SameFate DEF Typed, InCallback
<1>3. /\ Fate[m] = "new" /\ run'[m] = "waiting" /\ ~InCallback(m)'
  BY <1>0, <1>1 DEF Typed, Fate, FatesFollow, FateFollows, InCallback
<1>4. CASE Admits
  <2>1. FateOf(m)' = "admitted"
    BY <1>0, <1>1, <1>3, <1>4 DEF FatesFollow, FateFollows
  <2>2. Contract!Admit(m)
    BY <1>1, <1>2, <1>3, <1>4, <2>1, FateChanges, RoomIs DEF Contract!Admit
  <2> QED BY <2>2 DEF Contract!Next
<1>5. CASE ~Admits
  <2>1. FateOf(m)' = "gone"
    BY <1>0, <1>1, <1>3, <1>5 DEF FatesFollow, FateFollows
  <2>2. Contract!Refuse(m)
    BY <1>1, <1>2, <1>3, <2>1, FateChanges DEF Contract!Refuse
  <2> QED BY <2>2 DEF Contract!Next
<1> QED BY <1>4, <1>5

(* A request that is not in a callback gives up its token, if it has one. *)
LEMMA TokenGoes ==
  ASSUME Inv, Inv', NEW m \in Requests, run[m] = "waiting", ~InCallback(m),
         tokens' = tokens \ {m}, UNCHANGED <<run, inbox, closing>>
  PROVE  [Contract!Next]_(Contract!promise)
<1>0. Typed /\ Typed' /\ FatesFollow /\ FatesFollow' /\ Mode' = Mode
  BY FateIs, FateIsNext DEF Inv, TypeOK, Mode
<1>1. \A n \in Requests : n # m => FateOf(n)' = FateOf(n)
  BY <1>0, SameFate DEF InCallback
<1>2. FateOf(m)' = "gone"
  BY <1>0 DEF FatesFollow, FateFollows, InCallback
<1>3. CASE m \in tokens
  <2>1. Fate[m] = "admitted"
    BY <1>0, <1>3 DEF Fate, FatesFollow, FateFollows
  <2>2. Contract!Refuse(m)
    BY <1>0, <1>1, <1>2, <2>1, FateChanges DEF Contract!Refuse
  <2> QED BY <2>2 DEF Contract!Next
<1>4. CASE m \notin tokens
  <2>1. FateOf(m) = "gone"
    BY <1>0, <1>4 DEF FatesFollow, FateFollows
  <2>2. Fate' = Fate
    BY <1>1, <1>2, <2>1, FatesStay
  <2> QED BY <1>0, <2>2 DEF Contract!promise
<1> QED BY <1>3, <1>4

LEMMA ScheduleFate ==
  ASSUME Inv, Inv', NEW m \in Requests, Schedule(m)
  PROVE  [Contract!Next]_(Contract!promise)
<1>0. Typed /\ Typed' /\ FatesFollow /\ FatesFollow'
  BY FateIs, FateIsNext DEF Inv, TypeOK
<1>1. run[m] = "waiting" /\ ~InCallback(m) /\ inbox' = inbox /\ closing' = closing
  BY Whereabouts DEF Schedule, lifecycle
<1>2. CASE tokens' = tokens \ {m} /\ run' = run
  BY <1>1, <1>2, TokenGoes
<1>3. CASE ~Dropped(m, tokens) /\ tokens' = tokens /\ run' = [run EXCEPT ![m] = "running"]
  <2>1. \A n \in Requests : n # m => FateOf(n)' = FateOf(n)
    BY <1>0, <1>1, <1>3, SameFate DEF Typed, InCallback
  <2>2. Fate[m] = "admitted" /\ FateOf(m)' = "working"
    BY <1>0, <1>1, <1>3 DEF Typed, Fate, FatesFollow, FateFollows, Dropped
  <2>3. Mode = "open" /\ Mode' = Mode
    BY <1>0, <1>1, <1>3, ModeIs DEF Dropped, Inv, Quiet, Mode
  <2>4. Contract!Begin(m)
    BY <2>1, <2>2, <2>3, FateChanges DEF Contract!Begin
  <2> QED BY <2>4 DEF Contract!Next
<1> QED BY <1>2, <1>3 DEF Schedule, Scheduled

LEMMA TaskDoneFate ==
  ASSUME Inv, Inv', NEW m \in Requests, TaskDone(m)
  PROVE  Contract!Next
<1>0. Typed /\ Typed' /\ FatesFollow /\ FatesFollow'
  BY FateIs, FateIsNext DEF Inv, TypeOK
<1>1. /\ run[m] = "ended" /\ run' = [run EXCEPT ![m] = "over"] /\ inbox' = inbox
      /\ tokens' = tokens \ {m} /\ Mode' = Mode
  BY DEF TaskDone, Released, lifecycle, Mode
<1>2. \A n \in Requests : n # m => FateOf(n)' = FateOf(n)
  BY <1>0, <1>1, SameFate DEF Typed, InCallback
<1>3. Fate[m] = "working" /\ FateOf(m)' = "over"
  BY <1>0, <1>1 DEF Typed, Fate, FatesFollow, FateFollows
<1>4. Contract!End(m)
  BY <1>1, <1>2, <1>3, FateChanges DEF Contract!End
<1> QED BY <1>4 DEF Contract!Next

LEMMA BridgeFate ==
  ASSUME Inv, Inv', Bridge
  PROVE  [Contract!Next]_(Contract!promise)
<1>0. Typed /\ Typed' /\ FatesFollow /\ FatesFollow' /\ Quiet
  BY FateIs, FateIsNext DEF Inv, TypeOK
<1>1. UNCHANGED <<run, inbox>>
  BY DEF Bridge, Close, Joined, CutOff, Start, LoopEnds
<1>2. CASE Close
  <2>1. tokens' = {} /\ Mode = "open" /\ Mode' = "closing"
    BY <1>0, <1>2 DEF Close, Mode
  <2>2. \A m \in Requests :
          FateOf(m)' = IF Fate[m] = "admitted" THEN "gone" ELSE Fate[m]
    <3> SUFFICES ASSUME NEW m \in Requests
                 PROVE  FateOf(m)' = IF FateOf(m) = "admitted" THEN "gone" ELSE FateOf(m)
      BY DEF Fate
    <3>1. m \in tokens => ~InCallback(m)
      BY Whereabouts
    <3> QED BY <1>0, <1>1, <2>1, <3>1 DEF FatesFollow, FateFollows, InCallback
  <2>3. Fate' = [m \in Requests |-> IF Fate[m] = "admitted" THEN "gone" ELSE Fate[m]]
    BY <2>2 DEF Fate
  <2>4. Contract!Close
    BY <2>1, <2>3 DEF Contract!Close
  <2> QED BY <2>4 DEF Contract!Next
<1>3. ASSUME tokens' = tokens PROVE Fate' = Fate
  <2>1. \A m \in Requests : FateOf(m)' = FateOf(m)
    BY <1>0, <1>1, <1>3, SameFate DEF InCallback
  <2> QED BY <2>1, FatesStay
<1>4. CASE Joined
  <2>1. Mode = "closing" /\ Mode' = "quiet" /\ tokens' = tokens
    BY <1>4 DEF Joined, Mode, dispatcher
  <2>2. tasks = {}
    BY <1>0, <1>4 DEF Joined, Quiet
  <2>3. \A m \in Requests : Fate[m] # "working"
    BY <1>0, <2>2, Whereabouts DEF Fate, FatesFollow, FateFollows
  <2>4. Contract!Quiet
    BY <1>3, <2>1, <2>3 DEF Contract!Quiet, Contract!In
  <2> QED BY <2>4 DEF Contract!Next
<1>5. CASE CutOff
  BY <1>3, <1>5 DEF CutOff, Mode, dispatcher, Contract!promise
<1>6. CASE Start
  <2>1. Mode # "open" /\ Mode' = "open" /\ tokens' = tokens
    BY <1>6 DEF Start, Mode
  <2>2. Contract!Open
    BY <1>3, <2>1 DEF Contract!Open
  <2> QED BY <2>2 DEF Contract!Next
<1>7. CASE LoopEnds
  BY <1>3, <1>7 DEF LoopEnds, Mode, dispatcher, Contract!promise
<1> QED BY <1>2, <1>4, <1>5, <1>6, <1>7 DEF Bridge

LEMMA AdmissionStep ==
  ASSUME Inv, Inv', [Next]_vars
  PROVE  [Contract!Next]_(Contract!promise)
<1>0. Typed /\ Typed' /\ FatesFollow /\ FatesFollow'
  BY FateIs, FateIsNext DEF Inv, TypeOK
<1>1. ASSUME NEW c \in Clients, NEW m \in Requests,
             Deliver(c, m) \/ HandleOnLoop(c, m) \/ Reserve(c, m)
      PROVE  Contract!Next
  BY <1>1, DeliverFate, HandleFate, ReserveFate
<1>2. ASSUME NEW c \in Clients, PostFails(c) PROVE [Contract!Next]_(Contract!promise)
  <2>1. /\ held[c] \in Requests /\ run[held[c]] = "waiting" /\ ~InCallback(held[c])
        /\ tokens' = tokens \ {held[c]} /\ UNCHANGED <<run, inbox, closing>>
    BY <1>0, <1>2, Whereabouts DEF PostFails, Released, Typed, lifecycle
  <2> QED BY <2>1, TokenGoes
<1>3. ASSUME UNCHANGED <<run, tokens, inbox, closing>> PROVE UNCHANGED Contract!promise
  <2>1. Fate' = Fate
    BY <1>0, <1>3, SameFate, FatesStay DEF InCallback
  <2> QED BY <1>3, <2>1 DEF Mode, Contract!promise
<1>4. ASSUME (\E c \in Clients : Post(c) \/ Keep(c)) \/ UNCHANGED vars
      PROVE  UNCHANGED <<run, tokens, inbox, closing>>
  BY <1>4 DEF Post, Keep, vars, dispatcher, lifecycle
<1>5. ASSUME NEW m \in Requests, Finish(m) PROVE UNCHANGED Contract!promise
  <2>1. \A n \in Requests : FateOf(n)' = FateOf(n)
    <3> SUFFICES ASSUME NEW n \in Requests PROVE FateOf(n)' = FateOf(n)
      OBVIOUS
    <3>1. CASE n = m
      <4>1. run[n] = "running" /\ run'[n] = "ended"
        BY <1>0, <1>5, <3>1 DEF Finish, Typed
      <4> QED BY <1>0, <4>1 DEF FatesFollow, FateFollows
    <3>2. CASE n # m
      BY <1>0, <1>5, <3>2, SameFate DEF Finish, Typed, InCallback, dispatcher
    <3> QED BY <3>1, <3>2
  <2>2. Fate' = Fate
    BY <2>1, FatesStay
  <2> QED BY <1>5, <2>2 DEF Finish, lifecycle, Mode, Contract!promise
<1>6. ASSUME NEW m \in Requests, Schedule(m) \/ TaskDone(m)
      PROVE  [Contract!Next]_(Contract!promise)
  BY <1>6, ScheduleFate, TaskDoneFate
<1> QED BY <1>1, <1>2, <1>3, <1>4, <1>5, <1>6, BridgeFate DEF Next, Thread, Task

(* The lock, the tokens, the callbacks and the tasks (handle_incoming,      *)
(* schedule, _release_admission, close, start) implement AdmissionContract: *)
(* a request takes one slot of Limit, is worked on at most once and only    *)
(* while the dispatcher is open, is gone for good when it was refused or    *)
(* given up, and between the end of close() and start() none is at work.    *)
THEOREM AdmissionImplementsContract == Spec => AdmissionIsOrderly
<1>1. Init => Contract!Init
  <2> SUFFICES ASSUME Init PROVE Contract!Init
    OBVIOUS
  <2>1. \A m \in Requests : FateOf(m) = "new"
    BY DEF Init, FateOf
  <2> QED BY <2>1 DEF Init, Fate, Mode, Contract!Init
<1>2. Inv /\ Inv' /\ [Next]_vars => [Contract!Next]_(Contract!promise)
  BY AdmissionStep
<1> QED BY <1>1, <1>2, Invariance, PTL DEF Spec, AdmissionIsOrderly, Contract!Spec
=============================================================================
