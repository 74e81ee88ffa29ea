-------------------------- MODULE MessageDelivery --------------------------
(***************************************************************************)
(* Delivery of outgoing direct messages: TxCoordinator.execute_tx, the     *)
(* MessageRetryScheduler, the AckTracker, the receive path of an ACK and   *)
(* the four SQLite tables they share (messages, pending_retries,           *)
(* pending_acks, delivery_events).                                         *)
(*                                                                         *)
(* Everything between two awaits of the event loop is one step; a write    *)
(* made through _persist runs in a worker thread and is a step of its own, *)
(* so other coroutines run between the commit and the resumption.          *)
(***************************************************************************)
EXTENDS Naturals, FiniteSets

CONSTANTS
  Msgs,          \* identifiers of outgoing direct messages
  Codes,         \* expected_ack codes the radio hands out
  Resenders,     \* concurrent HTTP requests to resend a message
  None,          \* no message, no code
  Retries,       \* range of max_retries (1..3 in the code)
  AckCapacity,   \* entries of the ACK tracker and of pending_acks (200)
  BusyHistory,   \* whether 50 other messages may follow one in the history
  StorageFaults, \* whether a write to SQLite may fail
  MaxSpent       \* bound on the transmissions of a message per request

ASSUME RetriesAssumption  == Retries \subseteq Nat \ {0}
ASSUME NoneAssumption     == None \notin Msgs \union Codes /\ "open" \notin Msgs \union {None}
ASSUME CapacityAssumption == AckCapacity \in Nat /\ MaxSpent \in Nat
ASSUME CallersAssumption  == {"worker", "loop"} \cap Resenders = {}
ASSUME SwitchAssumption   == BusyHistory \in BOOLEAN /\ StorageFaults \in BOOLEAN

(* Whoever runs execute_tx: the worker of the TX queue, the retry loop and *)
(* the requests to resend.                                                 *)
Callers == {"worker", "loop"} \union Resenders

VARIABLES
  messages,            \* table messages: status of each message
  pending_retries,     \* table pending_retries: one row per message
  pending_acks,        \* table pending_acks: code -> message
  delivery_events,     \* table delivery_events: messages with an id: event
  tracker,             \* AckTracker.pending_acks, in memory
  auto_retry_enabled,
  max_retries,
  pc, item, code, sent_ok, revoke,  \* the running calls of execute_tx
  next_attempt,        \* local of the retry loop
  batch,               \* rest of due_items, as read by get_due_retries
  rx, rx_msg,          \* handling of an ACK with each code
  submitted,           \* messages handed to the TX queue
  onAir,               \* codes of the transmissions of each message
  heard,               \* codes of the ACKs received
  spent                \* transmissions since the user last asked for one

tables  == <<messages, pending_retries, pending_acks, delivery_events>>
config  == <<auto_retry_enabled, max_retries>>
calls   == <<pc, item, code, sent_ok, revoke>>
loop    == <<next_attempt, batch>>
acks    == <<rx, rx_msg>>
mesh    == <<submitted, onAir, heard, spent>>
vars    == <<tables, tracker, config, calls, loop, acks, mesh>>

Statuses == {"absent", "queued", "sent", "failed", "retrying", "cancelled", "delivered"}
Steps    == {"idle", "queued", "send", "air", "register", "persist", "schedule",
             "publish", "done"}
NoRow    == [attempt |-> 0, max |-> 0, due |-> FALSE]
Rows     == [attempt : Nat, max : Nat, due : BOOLEAN]
NoBatch  == [m \in Msgs |-> NoRow]
HasRow(rows, m) == rows[m].attempt > 0

TypeOK ==
  /\ messages \in [Msgs -> Statuses]
  /\ pending_retries \in [Msgs -> Rows]
  /\ pending_acks \in [Codes -> Msgs \union {None}]
  /\ delivery_events \subseteq Msgs
  /\ tracker \in [Codes -> Msgs \union {None}]
  /\ auto_retry_enabled \in BOOLEAN
  /\ max_retries \in Retries
  /\ pc \in [Callers -> Steps]
  /\ item \in [Callers -> Msgs \union {None}]
  /\ code \in [Callers -> Codes \union {None}]
  /\ sent_ok \in [Callers -> BOOLEAN]
  /\ revoke \in [Callers -> BOOLEAN]
  /\ next_attempt \in Nat
  /\ batch \in [Msgs -> Rows]
  /\ rx \in [Codes -> {"idle", "consume", "deliver"}]
  /\ rx_msg \in [Codes -> Msgs \union {None}]
  /\ submitted \subseteq Msgs
  /\ onAir \in [Msgs -> SUBSET Codes]
  /\ heard \subseteq Codes
  /\ spent \in [Msgs -> 0..MaxSpent]

-----------------------------------------------------------------------------
(* The writes of StationDatabase, as functions of the tables they read. An  *)
(* operator named after another one and what it lacks is the mistake that   *)
(* the properties have to notice: no action uses it.                        *)

WrittenOverReceipt(m, status) == IF m \in delivery_events THEN "delivered" ELSE status

(* _write_message: a delivered message stays delivered, and a recorded     *)
(* delivery event applies to whatever is written.                          *)
Written(m, status) ==
  IF messages[m] = "delivered" \/ m \in delivery_events THEN "delivered" ELSE status

(* update_delivery with a msg_id changes a message only if it is stored.    *)
Updated(m, status) ==
  IF messages[m] = "absent" THEN "absent" ELSE Written(m, status)

(* _prune_acks: what is left of pending_acks and of delivery_events.        *)
PrunedAcks ==
  [c \in Codes |->
     IF pending_acks[c] \in delivery_events
        \/ \E m \in Msgs : pending_acks[c] = m /\ messages[m] = "delivered"
     THEN None ELSE pending_acks[c]]
PrunedEvents == {m \in delivery_events : messages[m] # "delivered"}

(* save_pending_retry as schedule_retry calls it, and its guard.            *)
MaySchedule(attempt) == auto_retry_enabled /\ attempt <= max_retries
NewRowOfFirstAttempt(attempt) == [attempt |-> 1, max |-> max_retries, due |-> FALSE]
NewRow(attempt) == [attempt |-> attempt, max |-> max_retries, due |-> FALSE]

(* The scheduler writes the row and the status of a message by two          *)
(* transactions in a row; the failure of the second is swallowed (a crash   *)
(* between the two leaves the same tables).                                 *)
Marked == IF StorageFaults THEN BOOLEAN ELSE {TRUE}

(* schedule_retry(m, attempt) on the two tables.                            *)
RowsOnlyAdvanced(m, attempt) ==
  IF MaySchedule(attempt) /\ (attempt = 1 \/ HasRow(pending_retries, m))
  THEN [pending_retries EXCEPT ![m] = NewRow(attempt)]
  ELSE pending_retries
ScheduledRows(m, attempt) ==
  IF MaySchedule(attempt) THEN [pending_retries EXCEPT ![m] = NewRow(attempt)]
  ELSE pending_retries
ScheduledMessages(m, attempt, marked) ==
  IF MaySchedule(attempt) /\ marked THEN [messages EXCEPT ![m] = Updated(m, "retrying")]
  ELSE messages

(* The loop gives up a message after the attempt that is its last.          *)
OutOfAttemptsTooLate(row) == row.attempt > row.max
OutOfAttempts(row) == row.attempt >= row.max

(* AckTracker.register: a code does not change hands.                       *)
Entries(f) == {c \in Codes : f[c] # None}
OverwritingRegister(c, m) ==
  IF tracker[c] # None \/ Cardinality(Entries(tracker)) < AckCapacity THEN "registered"
  ELSE "capacity_exceeded"
RegisterResult(c, m) ==
  CASE tracker[c] = m              -> "registered"
    [] tracker[c] \notin {m, None} -> "collision"
    [] tracker[c] = None           ->
         IF Cardinality(Entries(tracker)) >= AckCapacity THEN "capacity_exceeded"
         ELSE "registered"

(* AckTracker.consume: the correlation in the database wins over the one in *)
(* memory.                                                                  *)
MemoryFirst(c) == IF rx_msg[c] # None THEN rx_msg[c] ELSE PrunedAcks[c]
Correlated(c) == IF PrunedAcks[c] # None THEN PrunedAcks[c] ELSE rx_msg[c]

-----------------------------------------------------------------------------
Init ==
  /\ messages = [m \in Msgs |-> "absent"]
  /\ pending_retries = [m \in Msgs |-> NoRow]
  /\ pending_acks = [c \in Codes |-> None]
  /\ delivery_events = {}
  /\ tracker = [c \in Codes |-> None]
  /\ auto_retry_enabled = TRUE
  /\ max_retries \in Retries
  /\ pc = [p \in Callers |-> "idle"]
  /\ item = [p \in Callers |-> None]
  /\ code = [p \in Callers |-> None]
  /\ sent_ok = [p \in Callers |-> FALSE]
  /\ revoke = [p \in Callers |-> FALSE]
  /\ next_attempt = 0
  /\ batch = NoBatch
  /\ rx = [c \in Codes |-> "idle"]
  /\ rx_msg = [c \in Codes |-> None]
  /\ submitted = {}
  /\ onAir = [m \in Msgs |-> {}]
  /\ heard = {}
  /\ spent = [m \in Msgs |-> 0]

(* p starts execute_tx for m.                                              *)
Begin(p, m) ==
  /\ pc' = [pc EXCEPT ![p] = "queued"]
  /\ item' = [item EXCEPT ![p] = m]
  /\ code' = [code EXCEPT ![p] = None]
  /\ sent_ok' = [sent_ok EXCEPT ![p] = FALSE]
  /\ revoke' = [revoke EXCEPT ![p] = FALSE]

Goto(p, step) == pc' = [pc EXCEPT ![p] = step]

(* The call of p is over, and its locals with it.                          *)
End(p) ==
  /\ pc' = [pc EXCEPT ![p] = "idle"]
  /\ item' = [item EXCEPT ![p] = None]
  /\ code' = [code EXCEPT ![p] = None]
  /\ sent_ok' = [sent_ok EXCEPT ![p] = FALSE]
  /\ revoke' = [revoke EXCEPT ![p] = FALSE]

(* An exception leaves the call, and with it the pass of the retry loop.   *)
Throw(p) ==
  /\ End(p)
  /\ IF p = "loop" THEN batch' = NoBatch /\ next_attempt' = 0 ELSE UNCHANGED loop

-----------------------------------------------------------------------------
(* execute_tx, from one await to the next.                                 *)

(* A validation fails, or the request was cancelled while it was queued:   *)
(* execute_tx returns before it writes anything.                           *)
Refuse(p) ==
  /\ pc[p] = "queued"
  /\ Goto(p, "done")
  /\ UNCHANGED <<tables, tracker, config, item, code, sent_ok, revoke, loop, acks, mesh>>

(* publish_chat_event(queued) commits.                                     *)
PublishQueued(p) ==
  /\ pc[p] = "queued"
  /\ messages' = [messages EXCEPT ![item[p]] = Written(item[p], "queued")]
  /\ Goto(p, "send")
  /\ UNCHANGED <<pending_retries, pending_acks, delivery_events, tracker, config,
                 item, code, sent_ok, revoke, loop, acks, mesh>>

(* The first write fails and the exception leaves execute_tx.              *)
PublishQueuedFails(p) ==
  /\ StorageFaults
  /\ pc[p] = "queued"
  /\ Throw(p)
  /\ UNCHANGED <<tables, tracker, config, acks, mesh>>

(* serial_adapter.send_message puts the message on the air; the radio      *)
(* answers with the code of the expected ACK, or with none.                *)
Transmit(p) ==
  /\ pc[p] = "send"
  /\ spent[item[p]] < MaxSpent
  /\ \E c \in Codes \union {None} :
       /\ code' = [code EXCEPT ![p] = c]
       /\ onAir' = [onAir EXCEPT ![item[p]] = @ \union ({c} \ {None})]
  /\ spent' = [spent EXCEPT ![item[p]] = @ + 1]
  /\ Goto(p, "air")
  /\ UNCHANGED <<tables, tracker, config, item, sent_ok, revoke, loop, acks,
                 submitted, heard>>

(* send_message raises, before the message is on the air or after it.      *)
SendFails(p) ==
  /\ pc[p] \in {"send", "air"}
  /\ code' = [code EXCEPT ![p] = None]
  /\ Goto(p, "publish")
  /\ UNCHANGED <<tables, tracker, config, item, sent_ok, revoke, loop, acks, mesh>>

(* send_message returns; AckTracker.register.                               *)
Register(p) ==
  LET c == code[p]
      registered == c # None /\ RegisterResult(c, item[p]) = "registered"
  IN
  /\ pc[p] = "air"
  /\ sent_ok' = [sent_ok EXCEPT ![p] = TRUE]
  /\ tracker' = IF registered THEN [tracker EXCEPT ![c] = item[p]] ELSE tracker
  /\ Goto(p, IF registered THEN "persist" ELSE IF c # None THEN "schedule" ELSE "publish")
  /\ UNCHANGED <<tables, config, item, code, revoke, loop, acks, mesh>>

(* save_pending_ack commits. Any answer but "registered" makes the caller  *)
(* take its entry out of the tracker when it resumes.                      *)
SavePendingAck(p) ==
  LET c == code[p]
      m == item[p]
      delivered == m \in delivery_events \/ messages[m] = "delivered"
      room == Cardinality(Entries(PrunedAcks)) < AckCapacity
      saved == ~delivered /\ PrunedAcks[c] = None /\ room
  IN
  /\ pc[p] = "persist"
  /\ pending_acks' = IF saved THEN [PrunedAcks EXCEPT ![c] = m] ELSE PrunedAcks
  /\ delivery_events' = PrunedEvents
  /\ revoke' = [revoke EXCEPT ![p] = delivered \/ ~(saved \/ PrunedAcks[c] = m)]
  /\ Goto(p, "schedule")
  /\ UNCHANGED <<messages, pending_retries, tracker, config, item, code, sent_ok, loop,
                 acks, mesh>>

(* save_pending_ack raises: "persistence_failed" keeps the entry.          *)
SavePendingAckFails(p) ==
  /\ StorageFaults
  /\ pc[p] = "persist"
  /\ Goto(p, "schedule")
  /\ UNCHANGED <<tables, tracker, config, item, code, sent_ok, revoke, loop, acks, mesh>>

(* execute_tx resumes: ack_tracker.remove, then schedule_retry(attempt 1). *)
Resumed(p) == IF revoke[p] THEN [tracker EXCEPT ![code[p]] = None] ELSE tracker
ScheduleFirst(p) ==
  /\ pc[p] = "schedule"
  /\ tracker' = Resumed(p)
  /\ pending_retries' = ScheduledRows(item[p], 1)
  /\ \E marked \in Marked : messages' = ScheduledMessages(item[p], 1, marked)
  /\ code' = [code EXCEPT ![p] = None]
  /\ revoke' = [revoke EXCEPT ![p] = FALSE]
  /\ Goto(p, "publish")
  /\ UNCHANGED <<pending_acks, delivery_events, config, item, sent_ok, loop, acks, mesh>>

(* save_pending_retry raises: the sent message is never published as sent.  *)
ScheduleFirstFails(p) ==
  /\ StorageFaults
  /\ pc[p] = "schedule"
  /\ MaySchedule(1)
  /\ tracker' = Resumed(p)
  /\ Throw(p)
  /\ UNCHANGED <<tables, config, acks, mesh>>

(* publish_chat_event(sent or failed) commits; its failure is swallowed.   *)
SentIsDelivered(p) == IF sent_ok[p] THEN "delivered" ELSE "failed"
Outcome(p) == IF sent_ok[p] THEN "sent" ELSE "failed"
PublishOutcome(p) ==
  /\ pc[p] = "publish"
  /\ \/ messages' = [messages EXCEPT ![item[p]] = Written(item[p], Outcome(p))]
     \/ StorageFaults /\ UNCHANGED messages
  /\ Goto(p, "done")
  /\ UNCHANGED <<pending_retries, pending_acks, delivery_events, tracker, config,
                 item, code, sent_ok, revoke, loop, acks, mesh>>

-----------------------------------------------------------------------------
(* The TX queue: a request of the user reaches the worker.                 *)
Submit(m) ==
  /\ pc["worker"] = "idle"
  /\ m \notin submitted
  /\ submitted' = submitted \union {m}
  /\ spent' = [spent EXCEPT ![m] = 0]
  /\ Begin("worker", m)
  /\ UNCHANGED <<tables, tracker, config, loop, acks, onAir, heard>>

WorkerDone ==
  /\ pc["worker"] = "done"
  /\ End("worker")
  /\ UNCHANGED <<tables, tracker, config, loop, acks, mesh>>

-----------------------------------------------------------------------------
(* The retry loop.                                                         *)

(* The items of the batch D from one await of the loop to the next: each   *)
(* is settled (delivered, or out of attempts), until one is transmitted or *)
(* an access to the database fails. rows and msgs are the tables as the    *)
(* loop finds them. The order of the items, by next_attempt_epoch, is any; *)
(* a delivered message is missed when it is not among the last 50 of the   *)
(* history.                                                                *)
Dispatch(D, rows, msgs) ==
  LET Pending == {m \in Msgs : HasRow(D, m)}
      Lost    == {m \in Pending : BusyHistory /\ msgs[m] = "delivered"}
  IN
  \E settled \in SUBSET Pending, missed \in SUBSET Lost, marked \in [Msgs -> Marked] :
    LET Seen(m) == msgs[m] = "delivered" /\ m \notin missed
        Exhausted(m) == ~Seen(m) /\ OutOfAttempts(D[m])
    IN
    /\ \A m \in settled : Seen(m) \/ Exhausted(m)
    /\ pending_retries' = [m \in Msgs |-> IF m \in settled THEN NoRow ELSE rows[m]]
    /\ messages' = [m \in Msgs |->
                      IF m \in settled /\ Exhausted(m) /\ marked[m] /\ msgs[m] # "absent"
                      THEN Written(m, "failed") ELSE msgs[m]]
    /\ \/ /\ settled = Pending \/ StorageFaults
          /\ batch' = NoBatch
          /\ next_attempt' = 0
          /\ End("loop")
       \/ \E m \in Pending \ settled :
            /\ ~Seen(m) /\ ~Exhausted(m)
            /\ batch' = [n \in Msgs |-> IF n \in settled \union {m} THEN NoRow ELSE D[n]]
            /\ next_attempt' = D[m].attempt + 1
            /\ Begin("loop", m)

(* The ACK timeout of a retry elapses.                                     *)
FallDue(m) ==
  /\ HasRow(pending_retries, m)
  /\ ~pending_retries[m].due
  /\ pending_retries' = [pending_retries EXCEPT ![m].due = TRUE]
  /\ UNCHANGED <<messages, pending_acks, delivery_events, tracker, config, calls, loop,
                 acks, mesh>>

(* A pass of _run_loop: get_due_retries, then the items up to the first    *)
(* transmission. The pass is skipped while the radio is not connected.     *)
Poll ==
  LET Due == {m \in Msgs : HasRow(pending_retries, m) /\ pending_retries[m].due} IN
  /\ pc["loop"] = "idle"
  /\ Due # {}
  /\ Dispatch([m \in Msgs |-> IF m \in Due THEN pending_retries[m] ELSE NoRow],
              pending_retries, messages)
  /\ UNCHANGED <<pending_acks, delivery_events, tracker, config, acks, mesh>>

(* execute_tx returns to the loop, which schedules the next attempt        *)
(* whatever the result and goes on with the rest of its batch.             *)
LoopDone ==
  /\ pc["loop"] = "done"
  /\ \E marked \in Marked :
       Dispatch(batch, ScheduledRows(item["loop"], next_attempt),
                ScheduledMessages(item["loop"], next_attempt, marked))
  /\ UNCHANGED <<pending_acks, delivery_events, tracker, config, acks, mesh>>

(* save_pending_retry raises instead.                                      *)
LoopDoneFails ==
  /\ StorageFaults
  /\ pc["loop"] = "done"
  /\ Throw("loop")
  /\ UNCHANGED <<tables, tracker, config, acks, mesh>>

-----------------------------------------------------------------------------
(* The requests of the user.                                               *)

(* resend_message, up to its first await.                                  *)
Resend(r, m) ==
  /\ pc[r] = "idle"
  /\ messages[m] # "absent"
  /\ pending_retries' = [pending_retries EXCEPT ![m] = NoRow]
  /\ messages' = [messages EXCEPT ![m] = Updated(m, "queued")]
  /\ spent' = [spent EXCEPT ![m] = 0]
  /\ Begin(r, m)
  /\ UNCHANGED <<pending_acks, delivery_events, tracker, config, loop, acks,
                 submitted, onAir, heard>>

(* Its second write raises, and the first has taken effect.                *)
ResendFails(r, m) ==
  /\ StorageFaults
  /\ pc[r] = "idle"
  /\ messages[m] # "absent"
  /\ pending_retries' = [pending_retries EXCEPT ![m] = NoRow]
  /\ UNCHANGED <<messages, pending_acks, delivery_events, tracker, config, calls, loop,
                 acks, mesh>>

ResendDone(r) ==
  /\ pc[r] = "done"
  /\ End(r)
  /\ \/ /\ sent_ok[r]
        /\ pending_retries' = ScheduledRows(item[r], 1)
        /\ \E marked \in Marked : messages' = ScheduledMessages(item[r], 1, marked)
     \/ /\ ~sent_ok[r] \/ StorageFaults
        /\ UNCHANGED <<pending_retries, messages>>
  /\ UNCHANGED <<pending_acks, delivery_events, tracker, config, loop, acks, mesh>>

(* cancel_retry: the row goes, the message is marked.                      *)
Cancel(m) ==
  /\ pending_retries' = [pending_retries EXCEPT ![m] = NoRow]
  /\ \E marked \in Marked :
       messages' = [messages EXCEPT ![m] = IF marked THEN Updated(m, "cancelled") ELSE @]
  /\ UNCHANGED <<pending_acks, delivery_events, tracker, config, calls, loop, acks, mesh>>

(* update_config, which clamps the number of retries.                      *)
UpdateConfigUnclamped ==
  /\ auto_retry_enabled' \in BOOLEAN
  /\ max_retries' \in Retries \union {0}
  /\ UNCHANGED <<tables, tracker, calls, loop, acks, mesh>>
UpdateConfig ==
  /\ auto_retry_enabled' \in BOOLEAN
  /\ max_retries' \in Retries
  /\ UNCHANGED <<tables, tracker, calls, loop, acks, mesh>>

(* clear_feed_messages deletes the message and nothing else.               *)
ClearFeed(m) ==
  /\ messages' = [messages EXCEPT ![m] = "absent"]
  /\ UNCHANGED <<pending_retries, pending_acks, delivery_events, tracker, config, calls,
                 loop, acks, mesh>>

-----------------------------------------------------------------------------
(* An ACK arrives: handle, up to the await of consume_pending_ack. A code  *)
(* that no transmission carried correlates with nothing.                   *)
RxAck(c) ==
  /\ rx[c] = "idle"
  /\ \E m \in Msgs : c \in onAir[m]
  /\ rx' = [rx EXCEPT ![c] = "consume"]
  /\ rx_msg' = [rx_msg EXCEPT ![c] = tracker[c]]
  /\ tracker' = [tracker EXCEPT ![c] = None]
  /\ heard' = heard \union {c}
  /\ UNCHANGED <<tables, config, calls, loop, submitted, onAir, spent>>

(* consume_pending_ack commits.                                            *)
ConsumePendingAck(c) ==
  LET m == PrunedAcks[c] IN
  /\ rx[c] = "consume"
  /\ pending_acks' = [PrunedAcks EXCEPT ![c] = None]
  /\ delivery_events' = PrunedEvents \union ({m} \ {None})
  /\ messages' = [n \in Msgs |-> IF n = m /\ messages[n] # "absent"
                                 THEN "delivered" ELSE messages[n]]
  /\ rx_msg' = [rx_msg EXCEPT ![c] = Correlated(c)]
  /\ rx' = [rx EXCEPT ![c] = IF Correlated(c) = None THEN "idle" ELSE "deliver"]
  /\ UNCHANGED <<pending_retries, tracker, config, calls, loop, mesh>>

(* publish_chat_event(message_delivered): update_delivery commits.         *)
PublishDelivered(c) ==
  LET m == rx_msg[c] IN
  /\ rx[c] = "deliver"
  /\ pending_retries' = [pending_retries EXCEPT ![m] = NoRow]
  /\ pending_acks' = [d \in Codes |-> IF pending_acks[d] = m THEN None ELSE pending_acks[d]]
  /\ delivery_events' = delivery_events \union {m}
  /\ messages' = [messages EXCEPT ![m] = IF @ = "absent" THEN @ ELSE "delivered"]
  /\ rx' = [rx EXCEPT ![c] = "idle"]
  /\ rx_msg' = [rx_msg EXCEPT ![c] = None]
  /\ UNCHANGED <<tracker, config, calls, loop, mesh>>

(* A write of the receive path fails, and with it the handling of the ACK. *)
AckHandlingFails(c) ==
  /\ StorageFaults
  /\ rx[c] # "idle"
  /\ rx' = [rx EXCEPT ![c] = "idle"]
  /\ rx_msg' = [rx_msg EXCEPT ![c] = None]
  /\ UNCHANGED <<tables, tracker, config, calls, loop, mesh>>

(* A correlation reaches its hour, in memory (prune) or in the database,   *)
(* or a delivery event does.                                               *)
ExpireTracker(c) ==
  /\ tracker[c] # None
  /\ tracker' = [tracker EXCEPT ![c] = None]
  /\ UNCHANGED <<tables, config, calls, loop, acks, mesh>>
ExpirePendingAck(c) ==
  /\ pending_acks[c] # None
  /\ pending_acks' = [pending_acks EXCEPT ![c] = None]
  /\ UNCHANGED <<messages, pending_retries, delivery_events, tracker, config, calls, loop,
                 acks, mesh>>
ExpireEvent(m) ==
  /\ m \in delivery_events
  /\ delivery_events' = delivery_events \ {m}
  /\ UNCHANGED <<messages, pending_retries, pending_acks, tracker, config, calls, loop,
                 acks, mesh>>

-----------------------------------------------------------------------------
(* The process stops or crashes and starts again: load_pending_acks, then  *)
(* MessageRetryScheduler.start, which gives up the retries older than 15   *)
(* minutes (stale) and postpones the others.                               *)
Restart ==
  \E stale \in SUBSET {m \in Msgs : HasRow(pending_retries, m)} :
    /\ pending_acks' = PrunedAcks
    /\ delivery_events' = PrunedEvents
    /\ tracker' = PrunedAcks
    /\ pending_retries' = [m \in Msgs |->
                             IF m \in stale THEN NoRow
                             ELSE [pending_retries[m] EXCEPT !.due = FALSE]]
    /\ messages' = [m \in Msgs |->
                      IF m \in stale /\ messages[m] \notin {"absent", "delivered"}
                      THEN "failed" ELSE messages[m]]
    /\ pc' = [p \in Callers |-> "idle"]
    /\ item' = [p \in Callers |-> None]
    /\ code' = [p \in Callers |-> None]
    /\ sent_ok' = [p \in Callers |-> FALSE]
    /\ revoke' = [p \in Callers |-> FALSE]
    /\ next_attempt' = 0
    /\ batch' = NoBatch
    /\ rx' = [c \in Codes |-> "idle"]
    /\ rx_msg' = [c \in Codes |-> None]
    /\ UNCHANGED <<config, mesh>>

-----------------------------------------------------------------------------
ExecuteTx(p) ==
  \/ Refuse(p) \/ PublishQueued(p) \/ PublishQueuedFails(p)
  \/ Transmit(p) \/ SendFails(p)
  \/ Register(p) \/ SavePendingAck(p) \/ SavePendingAckFails(p)
  \/ ScheduleFirst(p) \/ ScheduleFirstFails(p) \/ PublishOutcome(p)

HandleAck(c) ==
  \/ RxAck(c) \/ ConsumePendingAck(c) \/ PublishDelivered(c) \/ AckHandlingFails(c)
  \/ ExpireTracker(c) \/ ExpirePendingAck(c)

(* What the program and the mesh do by themselves.                         *)
System ==
  \/ \E p \in Callers : ExecuteTx(p)
  \/ WorkerDone \/ Poll \/ LoopDone \/ LoopDoneFails
  \/ \E r \in Resenders : ResendDone(r)
  \/ \E m \in Msgs : FallDue(m) \/ ExpireEvent(m)
  \/ \E c \in Codes : HandleAck(c)

(* What the operator does.                                                 *)
Operator ==
  \/ \E m \in Msgs : Submit(m) \/ Cancel(m) \/ ClearFeed(m)
  \/ \E r \in Resenders, m \in Msgs : Resend(r, m) \/ ResendFails(r, m)
  \/ UpdateConfig

Next == System \/ Operator \/ Restart

Spec == Init /\ [][Next]_vars

(* The program between two starts, with a settled retry policy: no resend, *)
(* no restart. The operator may still send, cancel and clear.              *)
SettledNext == System \/ \E m \in Msgs : Submit(m) \/ Cancel(m) \/ ClearFeed(m)
SettledSpec == Init /\ [][SettledNext]_vars

(* The same while the operator also changes the retry policy.              *)
TunedSpec == Init /\ [][SettledNext \/ UpdateConfig]_vars

(* The event loop, the radio and the timers go on; the operator and the    *)
(* mesh owe nothing, and no ACK need ever arrive.                          *)
Fairness ==
  /\ \A p \in Callers : WF_vars(ExecuteTx(p))
  /\ WF_vars(WorkerDone) /\ WF_vars(Poll) /\ WF_vars(LoopDone)
  /\ \A m \in Msgs : WF_vars(FallDue(m))
FairSettledSpec == SettledSpec /\ Fairness

-----------------------------------------------------------------------------
(* A message is shown as delivered only if an ACK with the code of one of  *)
(* its own transmissions was received: whatever the collisions of codes,   *)
(* the restarts, the expiries and the order of ACK and registration        *)
(* (ack_tracker.py, consume_pending_ack, update_delivery).                 *)
Acknowledged == {m \in Msgs : onAir[m] \intersect heard # {}}
DeliveredOnlyIfAcked == \A m \in Msgs : messages[m] = "delivered" => m \in Acknowledged

(* The message of every correlation was on the air with its code, and so   *)
(* was that of every transmission and of every ACK being handled, so that  *)
(* the database and the memory can be consulted in any order.              *)
CodesAreOwned ==
  /\ \A c \in Codes :
       /\ tracker[c] # None => c \in onAir[tracker[c]]
       /\ pending_acks[c] # None => c \in onAir[pending_acks[c]]
       /\ rx_msg[c] # None => c \in onAir[rx_msg[c]]
  /\ \A p \in Callers : code[p] # None => code[p] \in onAir[item[p]]

(* A code does not change hands while its owner waits for the ACK: another *)
(* message that gets the same code goes without receipt instead of taking  *)
(* over the correlation, in the table as in memory, which only a restart   *)
(* replaces by the table (register, save_pending_ack).                     *)
Waiting(m) == messages[m] # "delivered" /\ m \notin delivery_events
CodesKeepOwner ==
  [][\A c \in Codes :
       /\ pending_acks[c] # None /\ Waiting(pending_acks[c])
            => pending_acks'[c] \in {pending_acks[c], None}
       /\ tracker[c] # None => tracker'[c] \in {tracker[c], None, pending_acks[c]}]_vars

(* The receipts keep the promise of DeliveryContract: an ACK being handled  *)
(* settles on one message, the delivery is on record when the message or a  *)
(* delivery event says so, and the user sees the status of the message.     *)
Claim  == [c \in Codes |-> CASE rx[c] = "idle"    -> None
                             [] rx[c] = "consume" -> "open"
                             [] rx[c] = "deliver" -> rx_msg[c]]
Shown  == {m \in Msgs : messages[m] = "delivered"}
Proven == Shown \union delivery_events
Contract == INSTANCE DeliveryContract WITH
  Open <- "open", carried <- onAir, claim <- Claim, proven <- Proven, shown <- Shown
ReceiptsAreHonest == Contract!Spec

(* A delivered message stays delivered until its conversation is cleared:  *)
(* no late 'sent', 'retrying', 'failed' or 'cancelled' overwrites it       *)
(* (_write_message, update_delivery, prune_stale_retries).                 *)
DeliveredIsFinal ==
  [][\A m \in Msgs : messages[m] = "delivered" => messages'[m] \in {"delivered", "absent"}]_vars

(* A message shown as retrying has its row in pending_retries, in every    *)
(* interleaving of the loop, cancel, resend, ACK and restart, as long as   *)
(* no write fails: else nothing would ever settle it.                      *)
RetryingHasRow == \A m \in Msgs : messages[m] = "retrying" => HasRow(pending_retries, m)

(* With a settled policy, one request of the user costs at most            *)
(* max_retries transmissions, however execute_tx and the loop, which both  *)
(* schedule, interleave with cancel and ACKs.                              *)
RetryBudget == \A m \in Msgs : spent[m] <= max_retries

(* A scheduled retry does not stay scheduled for ever: it ends in          *)
(* delivered, failed or cancelled and its row goes.                        *)
RetriesEnd == \A m \in Msgs : HasRow(pending_retries, m) ~> ~HasRow(pending_retries, m)

-----------------------------------------------------------------------------
(* What the documentation says and the code does not do.                   *)

(* message_retry_scheduler.py:3 and index.html:1789, bounded retries: the  *)
(* request of a user costs one transmission and at most the largest number *)
(* of retries the policy can be set to.                                    *)
RetriesAreBounded == \A m \in Msgs : \E n \in Retries : spent[m] <= 1 + n
=============================================================================
