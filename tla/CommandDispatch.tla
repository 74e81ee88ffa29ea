-------------------------- MODULE CommandDispatch --------------------------
(***************************************************************************)
(* From a command to the radio: the TX and administration handlers of      *)
(* MqttInboundDispatcher, the idempotency ledger (CommandLedgerPolicy and  *)
(* the table command_ledger), the chat requests of the web API and the     *)
(* queue and worker of TxRateLimiter they share.                           *)
(*                                                                         *)
(* A request is one call of a handler; its arrival says what it carries.   *)
(* Every write of the ledger runs in a worker thread that outlives its     *)
(* caller (asyncio.shield): it is pending in writes until it commits, and  *)
(* two pending writes commit in any order.                                 *)
(***************************************************************************)
EXTENDS Naturals, FiniteSets

CONSTANTS
  Requests,      \* calls of a handler
  Ids,           \* command identifiers, with their scope
  None,          \* no identifier (legacy), no request
  Fingerprints,  \* fingerprints of the contents of commands
  Arrivals,      \* what may arrive: records of Kinds
  MaxRows,       \* rows of command_ledger (10 000)
  QueueSize,     \* capacity of the TX queue (500)
  StorageFaults  \* whether an access to SQLite may fail

Kinds == [via : {"tx", "admin", "http"}, id : Ids \union {None},
          fingerprint : Fingerprints, priority : 0..2]
LOW   == 2

ASSUME ArrivalsAssumption == Arrivals \subseteq Kinds
ASSUME NoneAssumption     == None \notin Ids \union Requests \union Kinds
ASSUME LimitsAssumption   == MaxRows \in Nat \ {0} /\ QueueSize \in Nat \ {0}
ASSUME FaultsAssumption   == StorageFaults \in BOOLEAN

VARIABLES
  req,       \* what each request carries, None before it arrives
  pc,        \* where its handler stands
  writes,    \* its writes of the ledger that did not commit yet
  future,    \* its future in the TX queue
  ledger,    \* table command_ledger: the row of each identifier
  next_row,  \* AUTOINCREMENT of that table
  queue,     \* items in the TX queue
  counter,   \* TxItem.counter of each request
  seq,       \* _seq_counter
  worker,    \* the item being transmitted, and how far it got
  life,      \* of the bridge: running, closing (MQTT ingress closed), stopped
  aired,     \* times each request was handed to the radio
  pruned     \* identifiers whose row the ledger has dropped

handlers == <<req, pc, writes>>
table    == <<ledger, next_row>>
limiter  == <<queue, counter, seq, worker>>
history  == <<aired, pruned>>
vars     == <<handlers, future, table, limiter, life, history>>

Final    == {"completed", "failed", "uncertain"}
NoRow    == [row |-> 0, fingerprint |-> None, status |-> "none"]
Rows     == [row : Nat, fingerprint : Fingerprints \union {None},
             status : Final \union {"none", "admitted", "dispatching"}]
Idle     == [item |-> None, step |-> "idle"]
HasRow(c) == ledger[c].row > 0

TypeOK ==
  /\ req \in [Requests -> Arrivals \union {None}]
  /\ pc \in [Requests -> {"new", "reserve", "mark", "waiting", "admin", "record",
                          "final", "done"}]
  /\ writes \in [Requests -> SUBSET (Final \union {"admitted", "dispatching"})]
  /\ future \in [Requests -> {"none", "pending", "cancelled", "sent", "error", "exception"}]
  /\ ledger \in [Ids -> Rows]
  /\ next_row \in Nat
  /\ queue \subseteq Requests
  /\ counter \in [Requests -> Nat]
  /\ seq \in Nat
  /\ worker \in [item : Requests \union {None}, step : {"idle", "publish", "send", "air"}]
  /\ life \in {"running", "closing", "stopped"}
  /\ aired \in [Requests -> Nat]
  /\ pruned \subseteq Ids

-----------------------------------------------------------------------------
(* The ledger. An operator defined just before another one with the same    *)
(* parameters is a mistake that the properties have to notice: no action    *)
(* uses it.                                                                 *)

(* reserve_command: an identifier that has a row is denied, whatever the     *)
(* status of the row and whether the fingerprints agree or conflict.        *)
ReservedWithOutcome(c, fp)     == ledger[c].status \in Final
ReservedUnlessFailed(c, fp)    == HasRow(c) /\ ledger[c].status # "failed"
ReservedForSameContent(c, fp)  == HasRow(c) /\ ledger[c].fingerprint = fp
Reserved(c, fp)                == HasRow(c)

(* What an insertion leaves: the oldest rows go, whatever their status, and *)
(* those are the ones that MaxRows others follow.                           *)
Inserted(c, fp) ==
  [ledger EXCEPT ![c] = [row |-> next_row + 1, fingerprint |-> fp, status |-> "admitted"]]
Excess(rows) == {c \in Ids : rows[c].row > 0 /\
                   Cardinality({d \in Ids : rows[d].row > rows[c].row}) >= MaxRows}
Kept(rows)   == [c \in Ids |-> IF c \in Excess(rows) THEN NoRow ELSE rows[c]]

(* update_command_status: an UPDATE, which touches no row that is gone.     *)
Marked(c, status) ==
  IF c # None /\ HasRow(c) THEN [ledger EXCEPT ![c].status = status] ELSE ledger

(* What _handle_tx_request records for what became of its future.           *)
OutcomeAsReported(f)   == f
OutcomeOfAnyAnswer(f)  == IF f \in {"sent", "error"} THEN "completed"
                          ELSE IF f = "cancelled" THEN "uncertain" ELSE "failed"
OutcomeOf(f)           == IF f = "sent" THEN "completed"
                          ELSE IF f = "cancelled" THEN "uncertain" ELSE "failed"

-----------------------------------------------------------------------------
(* The TX queue.                                                           *)

(* future.cancel, set_exception and set_result touch a pending future only. *)
Settled(f, S, outcome) ==
  [r \in Requests |-> IF r \in S /\ f[r] = "pending" THEN outcome ELSE f[r]]

(* An evicted or dropped item fails with an exception.                      *)
Forgotten(f, S) == f
Failed(f, S)    == Settled(f, S, "exception")

(* cancel_by_request_id: every queued item with that identifier, whoever    *)
(* queued it; the items keep their places.                                  *)
SameId(c) == {x \in queue : c # None /\ req[x].id = c}

Low       == {x \in queue : req[x].priority >= LOW}
Full      == Cardinality(queue) >= QueueSize
Victims   == {x \in Low : Full /\ \A y \in Low : counter[x] <= counter[y]}
Precedes(x, y) ==
  \/ req[x].priority < req[y].priority
  \/ req[x].priority = req[y].priority /\ counter[x] <= counter[y]

(* The items that the worker passes over.                                   *)
NeverPassedOver(r) == FALSE
PassedOver(r)      == future[r] = "cancelled"

(* The 30 seconds of an await run while the item is queued or on its way.   *)
TimesOutInQueue(r) == pc[r] = "waiting" /\ r \in queue
TimesOut(r)        == pc[r] = "waiting"

(* submit: the oldest LOW item makes room in a full queue.                  *)
Enqueue(r) ==
  LET full == Full /\ Victims = {} IN
  IF life = "stopped" \/ full
  THEN /\ future' = [future EXCEPT ![r] = "exception"]
       /\ seq' = IF life = "stopped" THEN seq ELSE seq + 1
       /\ UNCHANGED <<queue, counter>>
  ELSE /\ future' = [Failed(future, Victims) EXCEPT ![r] = "pending"]
       /\ queue' = (queue \ Victims) \union {r}
       /\ counter' = [counter EXCEPT ![r] = seq + 1]
       /\ seq' = seq + 1

-----------------------------------------------------------------------------
Init ==
  /\ req = [r \in Requests |-> None]
  /\ pc = [r \in Requests |-> "new"]
  /\ writes = [r \in Requests |-> {}]
  /\ future = [r \in Requests |-> "none"]
  /\ ledger = [c \in Ids |-> NoRow]
  /\ next_row = 0
  /\ queue = {}
  /\ counter = [r \in Requests |-> 0]
  /\ seq = 0
  /\ worker = Idle
  /\ life = "running"
  /\ aired = [r \in Requests |-> 0]
  /\ pruned = {}

Goto(r, step) == pc' = [pc EXCEPT ![r] = step]

(* The handler of r leaves its outcome with a worker thread and awaits it.  *)
Record(r, status, step) ==
  /\ writes' = [writes EXCEPT ![r] = @ \union {status}]
  /\ Goto(r, step)

-----------------------------------------------------------------------------
(* The handlers.                                                           *)

(* A message arrives by MQTT and its handler asks for a reservation.        *)
Arrive(r, kind) ==
  /\ pc[r] = "new"
  /\ kind.via # "http"
  /\ life = "running"
  /\ req' = [req EXCEPT ![r] = kind]
  /\ Record(r, "admitted", "reserve")
  /\ UNCHANGED <<future, table, limiter, life, history>>

(* A request of the web API goes straight to the queue.                     *)
SubmitChat(r, kind) ==
  /\ pc[r] = "new"
  /\ kind.via = "http"
  /\ req' = [req EXCEPT ![r] = kind]
  /\ Goto(r, "waiting")
  /\ Enqueue(r)
  /\ UNCHANGED <<writes, table, worker, life, history>>

(* The reservation of r commits. A handler that was cancelled meanwhile     *)
(* leaves a row that nobody acts on; an identifier that has a row is denied,*)
(* with its status or, when the fingerprints differ, as a conflict.         *)
Reserve(r) ==
  LET c == req[r].id
      admitted == c = None \/ ~Reserved(c, req[r].fingerprint)
      awaited == pc[r] = "reserve"
  IN
  /\ "admitted" \in writes[r]
  /\ IF c # None /\ admitted
     THEN /\ ledger' = Kept(Inserted(c, req[r].fingerprint))
          /\ next_row' = next_row + 1
          /\ pruned' = pruned \union Excess(Inserted(c, req[r].fingerprint))
     ELSE UNCHANGED <<table, pruned>>
  /\ writes' = [writes EXCEPT ![r] =
                  (@ \ {"admitted"}) \union {s \in {"dispatching"} : awaited /\ admitted}]
  /\ Goto(r, IF ~awaited THEN pc[r] ELSE IF admitted THEN "mark" ELSE "done")
  /\ UNCHANGED <<req, future, limiter, life, aired>>

(* The ledger is unavailable: the command is refused.                       *)
ReserveFails(r) ==
  /\ StorageFaults
  /\ "admitted" \in writes[r]
  /\ writes' = [writes EXCEPT ![r] = @ \ {"admitted"}]
  /\ Goto(r, "done")
  /\ UNCHANGED <<req, future, table, limiter, life, history>>

(* mark_dispatching commits; its caller, unless it was cancelled, submits    *)
(* the text to the queue or starts the administrative operation.            *)
MarkDispatching(r) ==
  /\ "dispatching" \in writes[r]
  /\ ledger' = Marked(req[r].id, "dispatching")
  /\ writes' = [writes EXCEPT ![r] = @ \ {"dispatching"}]
  /\ \/ /\ pc[r] = "mark"
        /\ req[r].via = "tx"
        /\ Enqueue(r)
        /\ Goto(r, "waiting")
        /\ UNCHANGED aired
     \/ /\ pc[r] = "mark"
        /\ req[r].via = "admin"
        /\ aired' = [aired EXCEPT ![r] = @ + 1]
        /\ Goto(r, "admin")
        /\ UNCHANGED <<future, queue, counter, seq>>
     \/ /\ pc[r] # "mark"
        /\ UNCHANGED <<pc, future, queue, counter, seq, aired>>
  /\ UNCHANGED <<req, next_row, worker, life, pruned>>

MarkDispatchingFails(r) ==
  /\ StorageFaults
  /\ "dispatching" \in writes[r]
  /\ writes' = [writes EXCEPT ![r] =
                  (@ \ {"dispatching"}) \union {s \in {"failed"} : pc[r] = "mark"}]
  /\ Goto(r, IF pc[r] = "mark" THEN "final" ELSE pc[r])
  /\ UNCHANGED <<req, future, table, limiter, life, history>>

(* The future of r is done and its handler resumes. A cancelled one raises   *)
(* CancelledError there.                                                    *)
Resume(r) ==
  /\ pc[r] = "waiting"
  /\ future[r] # "pending"
  /\ IF req[r].via = "http"
     THEN Goto(r, "done") /\ UNCHANGED writes
     ELSE Record(r, OutcomeOf(future[r]),
                 IF future[r] \in {"sent", "error"} THEN "record" ELSE "final")
  /\ future' = IF req[r].via = "tx" /\ future[r] = "cancelled"
               THEN Settled(future, SameId(req[r].id), "cancelled") ELSE future
  /\ UNCHANGED <<req, table, limiter, life, history>>

(* 30 seconds are over: the await cancels the future of r.                  *)
TimeOut(r) ==
  /\ TimesOut(r)
  /\ future' = Settled(future, {r} \union SameId(req[r].id), "cancelled")
  /\ IF req[r].via = "http"
     THEN Goto(r, "done") /\ UNCHANGED writes
     ELSE Record(r, "uncertain", "final")
  /\ UNCHANGED <<req, table, limiter, life, history>>

(* handle_admin returns or raises.                                          *)
AdminDone(r) ==
  /\ pc[r] = "admin"
  /\ \E status \in {"completed", "failed"} : Record(r, status, "final")
  /\ UNCHANGED <<req, future, table, limiter, life, history>>

(* record_result commits, or fails and is swallowed. The handler returns     *)
(* when the write it awaits, the last one it asked for, is over.            *)
RecordResult(r, status) ==
  /\ status \in writes[r] \intersect Final
  /\ \/ ledger' = Marked(req[r].id, status)
     \/ StorageFaults /\ UNCHANGED ledger
  /\ writes' = [writes EXCEPT ![r] = @ \ {status}]
  /\ Goto(r, IF status = "uncertain" \/ "uncertain" \notin writes[r] THEN "done" ELSE pc[r])
  /\ UNCHANGED <<req, future, next_row, limiter, life, history>>

-----------------------------------------------------------------------------
(* The worker of the TX queue.                                             *)

(* It takes the most urgent item; drops it when its future is cancelled, or *)
(* when it is LOW and the duty cycle is used up; rejects it when it is not  *)
(* valid; or starts to transmit it.                                         *)
Take(r) ==
  /\ worker = Idle
  /\ life # "stopped"
  /\ r \in queue
  /\ \A x \in queue : Precedes(r, x)
  /\ queue' = queue \ {r}
  /\ \/ /\ PassedOver(r)
        /\ UNCHANGED <<worker, future>>
     \/ /\ ~PassedOver(r)
        /\ req[r].priority >= LOW
        /\ future' = Failed(future, {r})
        /\ UNCHANGED worker
     \/ /\ ~PassedOver(r)
        /\ future' = Settled(future, {r}, "error")
        /\ UNCHANGED worker
     \/ /\ ~PassedOver(r)
        /\ worker' = [item |-> r, step |-> "publish"]
        /\ UNCHANGED future
  /\ UNCHANGED <<handlers, table, counter, seq, life, history>>

(* The item is settled with what execute_tx returned or raised.             *)
Return(outcome) ==
  /\ future' = Settled(future, {worker.item}, outcome)
  /\ worker' = Idle
  /\ UNCHANGED <<handlers, table, queue, counter, seq, life, history>>

(* publish_chat_event(queued).                                              *)
Publish ==
  /\ worker.step = "publish"
  /\ \/ /\ worker' = [worker EXCEPT !.step = "send"]
        /\ UNCHANGED <<handlers, future, table, queue, counter, seq, life, history>>
     \/ StorageFaults /\ Return("exception")

(* send_message. It does not ask for the future again.                      *)
Send ==
  /\ worker.step = "send"
  /\ \/ /\ worker' = [worker EXCEPT !.step = "air"]
        /\ aired' = [aired EXCEPT ![worker.item] = @ + 1]
        /\ UNCHANGED <<handlers, future, table, queue, counter, seq, life, pruned>>
     \/ Return("error")

(* The radio confirmed the text or not; then its persistence may fail.      *)
Finish ==
  /\ worker.step = "air"
  /\ \E outcome \in {"sent", "error"} \union {e \in {"exception"} : StorageFaults} :
       Return(outcome)

-----------------------------------------------------------------------------
(* The life of the bridge.                                                 *)

Mqtt == {r \in Requests : pc[r] # "new" /\ req[r].via # "http"}

(* MqttInboundDispatcher.close cancels the tasks of all handlers: at the     *)
(* reservation, or in an exception handler, it ends them; elsewhere they     *)
(* record an uncertain outcome first.                                       *)
Close ==
  LET caught == {r \in Mqtt : pc[r] \in {"mark", "waiting", "admin", "record"}}
      ended  == {r \in Mqtt : pc[r] \in {"reserve", "final"}}
      waiting == {r \in caught : pc[r] = "waiting"}
  IN
  /\ life = "running"
  /\ life' = "closing"
  /\ writes' = [r \in Requests |-> IF r \in caught THEN writes[r] \union {"uncertain"}
                                   ELSE writes[r]]
  /\ pc' = [r \in Requests |-> IF r \in caught THEN "final"
                               ELSE IF r \in ended THEN "done" ELSE pc[r]]
  /\ future' = Settled(future,
                       waiting \union UNION {SameId(req[r].id) : r \in
                                             {x \in caught : req[x].via = "tx"}},
                       "cancelled")
  /\ UNCHANGED <<req, table, limiter, history>>

(* The handlers that are still not done are cancelled again, and            *)
(* TxRateLimiter.stop cancels the item in transmission and the queue.       *)
Stop ==
  /\ life = "closing"
  /\ life' = "stopped"
  /\ pc' = [r \in Requests |-> IF r \in Mqtt THEN "done" ELSE pc[r]]
  /\ future' = Settled(future, queue \union {worker.item}, "cancelled")
  /\ queue' = {}
  /\ worker' = Idle
  /\ UNCHANGED <<req, writes, table, counter, seq, history>>

(* The bridge starts again in the same process ...                          *)
Start ==
  /\ life = "stopped"
  /\ life' = "running"
  /\ UNCHANGED <<handlers, future, table, limiter, history>>

(* ... or in a new one, after a crash or an exit at any point: only the      *)
(* ledger is left.                                                          *)
Crash ==
  /\ pc' = [r \in Requests |-> IF pc[r] = "new" THEN "new" ELSE "done"]
  /\ writes' = [r \in Requests |-> {}]
  /\ future' = [r \in Requests |-> "none"]
  /\ queue' = {}
  /\ counter' = [r \in Requests |-> 0]
  /\ seq' = 0
  /\ worker' = Idle
  /\ life' = "running"
  /\ UNCHANGED <<req, table, history>>

-----------------------------------------------------------------------------
Handler(r) ==
  \/ \E kind \in Arrivals : Arrive(r, kind) \/ SubmitChat(r, kind)
  \/ Reserve(r) \/ ReserveFails(r) \/ MarkDispatching(r) \/ MarkDispatchingFails(r)
  \/ Resume(r) \/ TimeOut(r) \/ AdminDone(r)
  \/ \E status \in Final : RecordResult(r, status)
Worker == (\E r \in Requests : Take(r)) \/ Publish \/ Send \/ Finish

(* The bridge between a start and a stop.                                   *)
SteadyNext == Worker \/ \E r \in Requests : Handler(r)
Next == SteadyNext \/ Close \/ Stop \/ Start \/ Crash

Spec == Init /\ [][Next]_vars

(* Threads commit, timers ring and coroutines that can go on do. Nothing is *)
(* assumed of the radio, nor even of the worker of the queue.               *)
FairSteadySpec ==
  /\ Init /\ [][SteadyNext]_vars
  /\ \A r \in Requests :
       /\ WF_vars(Reserve(r)) /\ WF_vars(MarkDispatching(r))
       /\ WF_vars(Resume(r) \/ TimeOut(r))
       /\ \A status \in Final : WF_vars(RecordResult(r, status))

-----------------------------------------------------------------------------
(* The requests that carry the identifier c and went to the radio.          *)
Commands(c) == {r \in Requests : pc[r] # "new" /\ req[r].via # "http" /\ req[r].id = c}
Aired(c)    == {r \in Commands(c) : aired[r] > 0}

(* While the ledger keeps its row, a command is handed to the radio at most *)
(* once: whatever the duplicates in flight, the time-outs, the restarts and *)
(* the failures of storage (N8N_WORKFLOW_GUIDE.md:59-66, reserve_command).  *)
AtMostOnce ==
  \A c \in Ids \ pruned :
    /\ \A r, s \in Aired(c) : r = s
    /\ \A r \in Aired(c) : aired[r] = 1

(* ... and it is the command the row was made for: a request that reuses    *)
(* the identifier with another content is never transmitted.                *)
AiredAsReserved ==
  \A c \in Ids \ pruned : \A r \in Aired(c) :
    HasRow(c) /\ ledger[c].fingerprint = req[r].fingerprint

(* A command is recorded as completed only if it went to the radio          *)
(* (_handle_tx_request, _dispatch_admin_command, _worker_loop).             *)
CompletedWasAired == \A c \in Ids : ledger[c].status = "completed" => Aired(c) # {}

(* A recorded outcome is kept: only 'uncertain', which the closing of the   *)
(* dispatcher records for a handler it interrupts, replaces it.             *)
OutcomeIsKept ==
  [][\A c \in Ids \ pruned' :
       ledger[c].status \in {"completed", "failed"}
         => ledger'[c].status \in {ledger[c].status, "uncertain"}]_vars

(* The bridge keeps the promise of CommandContract to whoever sends a       *)
(* command with an identifier: one execution of the content it was first    *)
(* sent with, no 'completed' before it, none after 'failed', and a result   *)
(* that stands until closing makes it uncertain. What is on record is the   *)
(* row of the identifier (reserve_command, CommandLedgerPolicy).            *)
Run(r) == [by |-> r, nth |-> aired[r], content |-> req[r].fingerprint]
Entry  == [c \in Ids |-> IF c \in pruned THEN [status |-> "forgotten", content |-> None]
                         ELSE [status |-> ledger[c].status, content |-> ledger[c].fingerprint]]
Runs   == [c \in Ids |-> IF c \in pruned THEN {} ELSE {Run(r) : r \in Aired(c)}]
Contract == INSTANCE CommandContract WITH
  Contents <- Fingerprints, entry <- Entry, runs <- Runs
CommandsAreHonest == Contract!Spec

(* No handler waits for a future that nobody will settle: it is in the      *)
(* queue or with the worker, through evictions, drops and the stop of the   *)
(* limiter (_evict_low_priority_if_needed, _worker_loop, stop).             *)
WaitersAreServed ==
  \A r \in Requests : future[r] = "pending" => r \in queue \/ worker.item = r

(* A request whose future is cancelled while it is queued is not            *)
(* transmitted, then or later (cancel_by_request_id, _worker_loop).         *)
CancelledIsNotSent ==
  \A r \in Requests : []((r \in queue /\ future[r] = "cancelled") => [](aired[r] = 0))

(* While the bridge runs and the database answers, every reserved command   *)
(* gets an outcome or leaves the ledger, even if the worker of the queue    *)
(* hangs (the time-out of _handle_tx_request).                              *)
CommandsSettle ==
  \A c \in Ids :
    ledger[c].status \in {"admitted", "dispatching"}
      ~> ledger[c].status \notin {"admitted", "dispatching"}
=============================================================================
