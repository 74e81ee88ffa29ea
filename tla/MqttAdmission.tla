--------------------------- MODULE MqttAdmission ---------------------------
(***************************************************************************)
(* How a request enters the bridge: MqttInboundDispatcher admits it under  *)
(* a lock, by a token, and turns it into a task of the event loop.         *)
(*                                                                         *)
(* handle_incoming is called on the loop, by a callback the network thread *)
(* of an MQTT client posted, or on that thread itself, when the client has *)
(* no running loop or hands its messages over directly. In the second case *)
(* the thread posts schedule() and stores its handle in a second section   *)
(* of the lock, with the loop running in between.                          *)
(*                                                                         *)
(* One action is one section of the lock, or what the loop does between    *)
(* two awaits. What a request does is CommandDispatch.                     *)
(***************************************************************************)
EXTENDS Naturals, FiniteSets

CONSTANTS
  Requests,     \* messages from the brokers
  Clients,      \* MQTT clients, one network thread each (local, external)
  None,         \* no request
  Limit,        \* MAX_MQTT_INBOUND_TASKS (50)
  MaxScheduled  \* _max_cross_thread_scheduled (256)

ASSUME NoneAssumption   == None \notin Requests
ASSUME LimitsAssumption == Limit \in Nat \ {0} /\ MaxScheduled \in Nat \ {0}

VARIABLES
  closed,   \* _closed
  tokens,   \* _admission_tokens, named by their request
  handles,  \* _scheduled_handles
  tasks,    \* _inbound_tasks
  inbox,    \* callbacks each client posted: handle_incoming is to run on the loop
  ready,    \* posted calls of schedule() that were not cancelled
  held,     \* the request a network thread carries through handle_incoming
  posted,   \* whether it has posted schedule()
  run,      \* what became of each request
  closing,  \* where close() stands
  joining,  \* the tasks it waits for
  looping,  \* whether the event loop runs
  dropped   \* history: requests that close() gave up before they ran

dispatcher == <<closed, tokens, handles, tasks>>
threads    == <<held, posted>>
lifecycle  == <<closing, joining, looping, dropped>>
vars       == <<dispatcher, inbox, ready, threads, run, lifecycle>>

Typed ==
  /\ closed \in BOOLEAN
  /\ tokens \subseteq Requests /\ handles \subseteq Requests /\ tasks \subseteq Requests
  /\ ready \subseteq Requests
  /\ inbox \in [Clients -> SUBSET Requests]
  /\ held \in [Clients -> Requests \union {None}]
  /\ posted \in [Clients -> BOOLEAN]
  /\ run \in [Requests -> {"new", "waiting", "running", "ended", "over"}]
  /\ closing \in {"open", "joining", "joined", "abandoned"}
  /\ joining \subseteq Requests
  /\ looping \in BOOLEAN
  /\ dropped \subseteq Requests
Fits(S) == IsFiniteSet(S) /\ Cardinality(S) <= MaxScheduled
TypeOK == Typed /\ \A c \in Clients : Fits(inbox[c])

-----------------------------------------------------------------------------
(* handle_incoming: a running request has a task and still its token.      *)
AdmitsByTasks == ~closed /\ Cardinality(tasks) < Limit
Admits        == ~closed /\ Cardinality(tasks) + Cardinality(tokens) < Limit
InProgress    == tasks \union tokens

(* _on_message: the callbacks of a client that did not run yet are bounded.*)
RoomForOneMore(c) == Cardinality(inbox[c]) <= MaxScheduled
Room(c)           == Cardinality(inbox[c]) < MaxScheduled

(* schedule(), with the tokens T: the request is dropped, its task cannot  *)
(* be created or registered, or it runs.                                   *)
DroppedIfClosed(m, T) == closed
Dropped(m, T)         == closed \/ m \notin T
Scheduled(m, T) ==
  /\ handles' = handles \ {m}
  /\ \/ /\ tokens' = T \ {m}
        /\ UNCHANGED <<tasks, run>>
     \/ /\ ~Dropped(m, T)
        /\ tokens' = T
        /\ tasks' = tasks \union {m}
        /\ run' = [run EXCEPT ![m] = "running"]

(* _release_admission                                                      *)
Released(m) ==
  /\ tokens' = tokens \ {m}
  /\ handles' = handles \ {m}
  /\ tasks' = tasks \ {m}

-----------------------------------------------------------------------------
Init ==
  /\ closed = FALSE
  /\ tokens = {} /\ handles = {} /\ tasks = {} /\ ready = {}
  /\ inbox = [c \in Clients |-> {}]
  /\ held = [c \in Clients |-> None]
  /\ posted = [c \in Clients |-> FALSE]
  /\ run = [m \in Requests |-> "new"]
  /\ closing = "open" /\ joining = {} /\ looping = TRUE /\ dropped = {}

(* A network thread that knows the loop posts a callback, or rejects.      *)
Deliver(c, m) ==
  /\ looping
  /\ held[c] = None
  /\ run[m] = "new"
  /\ run' = [run EXCEPT ![m] = "waiting"]
  /\ inbox' = IF Room(c) THEN [inbox EXCEPT ![c] = @ \union {m}] ELSE inbox
  /\ UNCHANGED <<dispatcher, ready, threads, lifecycle>>

(* The callback: handle_incoming on the loop, schedule() within it.        *)
HandleOnLoop(c, m) ==
  /\ looping
  /\ m \in inbox[c]
  /\ inbox' = [inbox EXCEPT ![c] = @ \ {m}]
  /\ IF Admits THEN Scheduled(m, tokens \union {m})
               ELSE UNCHANGED <<tokens, handles, tasks, run>>
  /\ UNCHANGED <<closed, ready, threads, lifecycle>>

(* handle_incoming on a network thread: the first section of the lock.     *)
Reserve(c, m) ==
  /\ held[c] = None
  /\ run[m] = "new"
  /\ run' = [run EXCEPT ![m] = "waiting"]
  /\ IF Admits THEN /\ tokens' = tokens \union {m}
                    /\ held' = [held EXCEPT ![c] = m]
               ELSE UNCHANGED <<tokens, held>>
  /\ UNCHANGED <<closed, handles, tasks, inbox, ready, posted, lifecycle>>

(* call_soon_threadsafe                                                    *)
Post(c) ==
  /\ looping
  /\ held[c] # None /\ ~posted[c]
  /\ ready' = ready \union {held[c]}
  /\ posted' = [posted EXCEPT ![c] = TRUE]
  /\ UNCHANGED <<dispatcher, inbox, held, run, lifecycle>>

(* It raises, or loop.is_closed().                                         *)
PostFails(c) ==
  /\ ~looping
  /\ held[c] # None /\ ~posted[c]
  /\ Released(held[c])
  /\ held' = [held EXCEPT ![c] = None]
  /\ UNCHANGED <<closed, inbox, ready, posted, run, lifecycle>>

(* The second section of the lock: schedule() may have run, and the task it *)
(* made may have ended.                                                     *)
GoneIfClosed(m) == closed
Gone(m)         == closed \/ m \notin tokens
Keep(c) ==
  LET m == held[c] IN
  /\ posted[c]
  /\ held' = [held EXCEPT ![c] = None]
  /\ posted' = [posted EXCEPT ![c] = FALSE]
  /\ ready' = IF Gone(m) THEN ready \ {m} ELSE ready
  /\ handles' = IF Gone(m) \/ m \in tasks THEN handles
                ELSE handles \union {m}
  /\ UNCHANGED <<closed, tokens, tasks, inbox, run, lifecycle>>

Schedule(m) ==
  /\ looping
  /\ m \in ready
  /\ ready' = ready \ {m}
  /\ Scheduled(m, tokens)
  /\ UNCHANGED <<closed, inbox, threads, lifecycle>>

(* A task returns, raises or is cancelled; its callback runs later.        *)
Finish(m) ==
  /\ looping
  /\ run[m] = "running"
  /\ run' = [run EXCEPT ![m] = "ended"]
  /\ UNCHANGED <<dispatcher, inbox, ready, threads, lifecycle>>

TaskDone(m) ==
  /\ looping
  /\ run[m] = "ended"
  /\ Released(m)
  /\ run' = [run EXCEPT ![m] = "over"]
  /\ UNCHANGED <<closed, inbox, ready, threads, lifecycle>>

(* close(), up to its gather of the tasks it found and cancelled.          *)
StillPosted == tasks \intersect ready
Owned       == tasks
Close ==
  /\ looping
  /\ closing = "open"
  /\ closed' = TRUE
  /\ tokens' = {} /\ handles' = {}
  /\ ready' = ready \ handles
  /\ joining' = Owned
  /\ closing' = "joining"
  /\ dropped' = dropped \union (tokens \ tasks)
  /\ UNCHANGED <<tasks, inbox, threads, run, looping>>

(* gather returns, after the callbacks of the tasks; or the bridge cuts it *)
(* off when its budget of 1.5 seconds ends.                                *)
Joined ==
  /\ closing = "joining"
  /\ joining \intersect tasks = {}
  /\ closing' = "joined"
  /\ UNCHANGED <<dispatcher, inbox, ready, threads, run, joining, looping, dropped>>

CutOff ==
  /\ closing = "joining"
  /\ closing' = "abandoned"
  /\ UNCHANGED <<dispatcher, inbox, ready, threads, run, joining, looping, dropped>>

(* The bridge is started again in the same process.                        *)
Start ==
  /\ looping
  /\ closing \in {"joined", "abandoned"}
  /\ closed' = FALSE
  /\ closing' = "open"
  /\ UNCHANGED <<tokens, handles, tasks, inbox, ready, threads, run, joining, looping,
                 dropped>>

(* The process ends; a task that does not heed its cancellation is lost.   *)
LoopEnds ==
  /\ looping
  /\ closing \in {"joined", "abandoned"}
  /\ looping' = FALSE
  /\ UNCHANGED <<dispatcher, inbox, ready, threads, run, closing, joining, dropped>>

Thread(c) ==
  \/ \E m \in Requests : Deliver(c, m) \/ HandleOnLoop(c, m) \/ Reserve(c, m)
  \/ Post(c) \/ PostFails(c) \/ Keep(c)
Task(m) == Schedule(m) \/ Finish(m) \/ TaskDone(m)
Bridge  == Close \/ Joined \/ CutOff \/ Start \/ LoopEnds

Next == (\E c \in Clients : Thread(c)) \/ (\E m \in Requests : Task(m)) \/ Bridge

Spec == Init /\ [][Next]_vars

-----------------------------------------------------------------------------
(* However the threads race, at most Limit requests are waiting or running *)
(* (handle_incoming reserves before it posts).                             *)
Bounded == IsFiniteSet(InProgress) /\ Cardinality(InProgress) <= Limit

(* Every slot stands for live work, so that capacity comes back: a token   *)
(* has a thread, a callback or a task to give it back, a stored handle has *)
(* a callback to cancel, although the callback may run, and the task end,  *)
(* before the thread stores the handle (schedule, _release_admission).     *)
SlotsAreReleased ==
  /\ \A m \in tokens :
       m \in tasks \union ready \/ \E c \in Clients : held[c] = m /\ ~posted[c]
  /\ handles \subseteq ready
  /\ \A m \in Requests : m \in tasks <=> run[m] \in {"running", "ended"}

(* Once close() has joined, nothing runs until the next start, whatever    *)
(* the threads still post.                                                 *)
ClosedIsQuiet == closing = "joined" => tasks = {}

(* A request given up by close() never runs, not even when its callback is *)
(* still to come and start() reopens the admission before it does.         *)
DroppedStaysDropped == \A m \in dropped : run[m] = "waiting"

(* The dispatcher keeps the promise of AdmissionContract: a slot for each   *)
(* request admitted or at work, one run of each at most, none after it was  *)
(* refused or given up, and quiet from the end of close() to start().  The  *)
(* fate of a request follows from where it is: in a callback, with a token, *)
(* in a task, or nowhere any more.                                          *)
FateOf(m) ==
  CASE run[m] = "new"                  -> "new"
    [] run[m] \in {"running", "ended"} -> "working"
    [] run[m] = "over"                 -> "over"
    [] run[m] = "waiting"              ->
         IF m \in tokens THEN "admitted"
         ELSE IF \E c \in Clients : m \in inbox[c] THEN "offered" ELSE "gone"
Fate == [m \in Requests |-> FateOf(m)]
Mode == CASE closing = "open"                     -> "open"
          [] closing \in {"joining", "abandoned"} -> "closing"
          [] closing = "joined"                   -> "quiet"
Contract == INSTANCE AdmissionContract WITH fate <- Fate, mode <- Mode
AdmissionIsOrderly == Contract!Spec
=============================================================================
