# A TLA+ model of the MeshCore bridge

The bridge connects a LoRa transceiver that speaks the MeshCore companion
protocol with MQTT (n8n, Home Assistant), a web interface and TCP companion
clients. It is one asyncio process with worker threads for SQLite and for the
MQTT client. This directory models what is hard about it: what becomes of a text
message between the request to send it and the acknowledgement of its
destination, what becomes of a command between MQTT and the radio, how requests
are admitted from the threads of the MQTT clients, how TCP clients share the
radio, how received frames are worked off, and what the web page shows of all
this while its requests, events and cache overlap.

Paths below are relative to the repository; `src/src/` is its Python package.

## 1. Inventory

| Component | State | Operations | Talks to |
|---|---|---|---|
| Retry scheduler (`core/message_retry_scheduler.py`) | policy; the batch and locals of its loop | `start`, loop, `schedule_retry`, `resend_message`, `cancel_retry`, `update_config` | tables `pending_retries`, `messages`; calls `execute_tx` |
| Transmission coordinator (`core/tx_coordinator.py`) | locals of each `execute_tx` | validate, publish 'queued', send, register the ACK, schedule a retry, publish the outcome | serial adapter, ACK tracker, tables, retry scheduler |
| ACK tracker (`core/ack_tracker.py`) | `pending_acks` in memory | `register`, `consume`, `remove`, `prune`, reload | table `pending_acks` |
| Delivery tables (`station_database.py`) | `messages`, `pending_retries`, `pending_acks`, `delivery_events` | record, update, consume, save, prune, clear | everyone, some calls in worker threads |
| ACK reception (`routers/repeater_handler.py`) | none | `handle` for an ACK event | ACK tracker, `publish_chat_event` |
| Command ledger (`application/command_policy.py`, `station_database.py`) | table `command_ledger`, shielded worker tasks | reserve, mark dispatching, record result, drain | MQTT dispatcher |
| MQTT dispatcher (`mqtt_dispatcher.py`) | admission tokens, handles, tasks, closed flag | admission, TX and administration handlers, close | ledger, limiter, administration |
| TX limiter (`rate_limiter.py`) | priority queue, worker, stopped flag | `submit`, evict, `cancel_by_request_id`, worker loop, `start`, `stop` | `execute_tx`, airtime tracker |
| Airtime tracker (`rate_limiter.py`) | history, duty cycle, cut-off | record, prune, statistics, cut-off, single writer of the history | SQLite |
| Messaging service (`application/messaging.py`) | none | validation, `submit_chat`, history, search | limiter, database |
| TCP companion (`tcp_companion_server.py`, `core/companion_proxy.py`) | active and pending clients, transaction lock, owner of the response stream | connect, authenticate, dispatch, transaction, drop, stop | serial adapter, limiter |
| RX router (`rx_router.py`, `routers/`) | bounded queue of jobs, workers | enqueue, displace, coalesce, drain | handlers, MQTT, web |
| Deduplicator (`deduplicator.py`) | keys with their windows | `is_duplicate` | RX router |
| Serial adapter, dispatcher, watchdog (`serial/`) | connection, command lock, pending raw command, backoff | connect, send, raw transactions, supervise | SDK, TCP companion |
| Chat of the page (`web/static/js/modules/chat.js`) | conversations in memory, bubbles, timers of codes, render generation | send, render, live events, clear, switch | storage of the page, REST and WebSocket of the bridge |
| Storage of the page (`web/static/js/core/storage.js`) | IndexedDB cache, validated station, credential and access generations | request, accept, cached read, save, clear, deny | chat, REST of the bridge |
| Life cycle (`bridge_core.py`) | running, draining, background queue | start, stop, reconfigure, `_persist` | all |
| Rest of the web, services, contacts, metrics, diagnostics | sessions, presets, registries, counters | request/response code | all |

What is hard: the event loop interleaves the TX worker, the retry loop, resend
requests, cancellations and the handling of ACKs at every `await`; writes made
through `_persist` and `_in_worker` commit in threads and outlive a cancelled
caller; four tables and a dictionary hold overlapping facts about one message;
acknowledgement codes are four bytes, so they collide; commands are duplicated
by MQTT and repeated by impatient clients; every wait has a time-out that races
with the answer; a crash may fall between any two writes. Companion replies name no request, so
who gets one is a matter of order. The page keeps up to four copies of a message
(the sender's object, the conversation's, the bubble, the cache) and writes them
from answers, events, timers and history pages. `PROJECT.json` lists the hazards line by line with the properties that watch them.

What makes the components correct:

* delivery: nothing is shown as delivered without an ACK for it; a delivered
  message stays so; a message said to be retrying has a retry; retries end and
  cost a bounded number of transmissions; a code does not change hands while
  its owner waits;
* commands: a reserved command reaches the radio at most once and with the
  content it was reserved for; an outcome on record is true and is kept; every
  command gets one;
* queue: no waiter is forgotten; a cancelled item is not sent;
* admission: the limit holds for racing threads, every slot comes back, and
  closing is final;
* received work: the queue and the workers keep their bounds, nothing accepted
  waits for a worker nobody starts, the newest observation wins;
* companion: an invited client has room, a command has exactly one voice, a
  reply reaches whoever asked, what was given up is not sent, transactions end;
* page: a receipt is shown only if there was one and is not forgotten, a page
  without access shows and stores nothing, messages do not vanish, and the
  screen is what the memory holds.

## 2. Plan

| # | Module | Question | State |
|---|---|---|---|
| 1 | `MessageDelivery`, with `DeliveryContract` | delivery, retries, receipts | done, safety proved |
| 2 | `CommandDispatch`, with `CommandContract` | commands, ledger, TX queue | done, safety proved |
| 3 | `MqttAdmission`, with `AdmissionContract` | tokens of broker threads against the loop and `close` | done, safety proved |
| 4 | `OutgoingChat` | the copies of a message the page sends | done, safety proved |
| 5 | `ChatHistory` | pages, cache, access, stations and screen of the page | done, safety proved |
| 6 | `RxWork`, with `WorkContract` | bounded queue of received work and its workers | done, safety proved |
| 7 | `CompanionProxy`, with `CompanionContract` | who gets a reply: transactions, time-outs, late replies, slow and leaving clients | done, safety proved |

The modules are separate because the components meet at narrow places:
`MessageDelivery` and `CommandDispatch` share `execute_tx` (the first models it
in full, the second as what its queue sees), `MqttAdmission` hands over to the
handlers of `CommandDispatch`, `CompanionProxy` contains the limiter, the lock of
the adapter and the radio as far as companion commands see them, and the events
of `OutgoingChat` are what `MessageDelivery` may publish. What an extension would
take next: the single writer of the airtime history, the watchdog, and the order
of shutdown in `bridge_core.py`.

A `...Contract` module says what a component promises to those around it, in
their terms and without its queues, locks and tasks; the module itself holds the
refinement mapping (`Contract`) and the contract's specification as a property,
which a run checks and a theorem proves for all constants. The two modules of the
page have none: what they promise is relative to the bridge, and `ReceiptIsTrue`
and `QuietScreenIsComplete` say it directly.

## 3. Modules and code

### MessageDelivery

One action is everything between two awaits. `Callers` are the coroutines that
run `execute_tx`: the TX worker, the retry loop and resend requests; `pc`, `item`,
`code`, `sent_ok` and `revoke` are the locals of each call.

| TLA+ | Code |
|---|---|
| `messages`, `pending_retries`, `pending_acks`, `delivery_events` | the tables of `station_database.py` |
| `tracker` | `AckTracker.pending_acks` |
| `next_attempt`, `batch` | locals of `_run_loop` |
| `rx`, `rx_msg` | an ACK being handled by `RepeaterAdminHandler.handle` |
| `submitted`, `onAir`, `heard`, `spent` | history: what was handed over, sent, heard, and the transmissions since the last request of the user |
| `Refuse`, `PublishQueued`, `Transmit`, `SendFails`, `Register`, `SavePendingAck`, `ScheduleFirst`, `PublishOutcome` | `execute_tx`, in order; the names in `-Fails` are a write that raises |
| `Poll`, `Dispatch`, `LoopDone`, `FallDue` | `_run_loop`: a pass over the batch up to the next `execute_tx`, and its return |
| `Resend`, `ResendDone`, `Cancel`, `UpdateConfig`, `ClearFeed` | what the operator asks for |
| `RxAck`, `ConsumePendingAck`, `PublishDelivered` | the receive path of an ACK |
| `ExpireTracker`, `ExpirePendingAck`, `ExpireEvent` | the hours-long life times of correlations and events |
| `Restart` | a stop or crash at any point, and the start that follows |

Abstractions. A message is an outgoing direct chat message (other texts skip the
publications). Due items come in any order and the limit of five is dropped:
`Dispatch` picks any subset to settle and any message to send. Delays are
abstract: a row becomes due by `FallDue`. The scheduler's two transactions in a
row are one step whose second half may fail (`Marked`), which also stands for a
crash between them. A radio that is not connected is `SendFails`, or a `Poll`
that does not happen. The cut-off gate of the loop is absent because the code
asks for a method that does not exist (`bridge_core.py:262`) and gets `False`.
`BusyHistory` says whether fifty other messages may hide one from the loop's
look at the history.

`DeliveryContract` is the promise: an acknowledgement settles on one message
that was on the air with its code, only that proves the message, and only a
proven message is shown as delivered. `MessageDelivery` instantiates it with a
refinement mapping (`Contract`), and `ReceiptsAreHonest` is its specification.

### CommandDispatch

A request is one call of a handler; what it carries (`via`, identifier,
fingerprint, priority) is chosen on arrival from `Arrivals`.

| TLA+ | Code |
|---|---|
| `pc` | where `_handle_tx_request`, `_dispatch_admin_command` or `submit_chat` awaits |
| `writes` | worker tasks of `CommandLedgerPolicy._in_worker` that did not commit yet |
| `ledger`, `next_row`, `pruned` | `command_ledger`, its AUTOINCREMENT, and the identifiers it dropped (history) |
| `queue`, `counter`, `seq`, `worker`, `future` | `CustomTxQueue`, `TxItem`s, the worker of `TxRateLimiter` and the futures it settles |
| `life` | running, closing (`dispatcher.close` done), stopped (`rate_limiter.stop` done) |
| `aired` | history: how often a request was handed to the radio |
| `Arrive`, `Reserve`, `MarkDispatching`, `Resume`, `TimeOut`, `AdminDone`, `RecordResult` | the handlers, one action per await |
| `SubmitChat` | a request of the web API, straight to the queue |
| `Take`, `Publish`, `Send`, `Finish` | `_worker_loop` and the three awaits of `execute_tx` |
| `Close`, `Stop`, `Start`, `Crash` | `MqttInboundDispatcher.close`, `TxRateLimiter.stop`, `start`, and the death of the process |

Abstractions. There are finitely many requests, each one call; the fingerprint
stands for the content; the two integration scopes are part of the identifier.
Commits of the ledger are steps of their own in any order, merged with the
resumption of the caller (a cancellation between the two is a cancellation
before the first). `Close` and `Stop` are one step each. `execute_tx` is reduced
to what the queue sees. Spacing between transmissions is left out. A client of
the web API does not disconnect. Requests without an identifier, and the
generated ones of the web API, have `None`.

`CommandContract` is the promise per identifier: what is on record and what was
executed. The content it was first sent with is executed at most once, after
the record says 'dispatching' and not when it says 'failed'; 'completed' needs an
execution; a result changes only to 'uncertain', when the bridge closes. An
identifier whose row the ledger pruned is forgotten: nothing is promised of it
any more. `CommandsAreHonest` is this specification.

### MqttAdmission

One action is one section of `_admission_lock`, or what the loop does between
two awaits. `Clients` are the network threads of paho, one request in hand each.

| TLA+ | Code |
|---|---|
| `closed`, `tokens`, `handles`, `tasks` | `_closed`, `_admission_tokens`, `_scheduled_handles`, `_inbound_tasks` |
| `inbox`, `Deliver`, `HandleOnLoop` | the usual path: `_on_message` posts a callback, bounded by `_max_cross_thread_scheduled`, and `handle_incoming` runs on the loop |
| `held`, `posted`, `Reserve`, `Post`, `PostFails`, `Keep` | `handle_incoming` on the network thread: first section of the lock, `call_soon_threadsafe`, second section |
| `ready`, `Schedule` | the posted `schedule()` |
| `run`, `Finish`, `TaskDone` | the task of a request and its done-callback |
| `Close`, `Joined`, `CutOff`, `Start`, `LoopEnds` | `close` up to its gather, its return or its 1.5 second budget, `start`, the end of the process |
| `dropped` | history: what `close` gave up |

Abstractions. A token is named by its request. `schedule()` on the loop is one
step: only network threads run beside it, and they touch nothing it reads after
its lock. The checks of size and topic before the admission are left out, and
so is the bridge's own look at `running`, which rejects part of what `closed`
does. The request itself is `CommandDispatch`, whose `Arrive` is the start of
the task and whose `Close` is the `close` of this module with its tasks joined.

`AdmissionContract` gives each request a fate (new, offered, admitted, working,
over, gone) and the dispatcher a mode. At most the limit is admitted or at work
(the code counts more strictly, see section 6), work begins only while it is
open and once per request, what was refused or given up is gone for good, and
between the end of `close` and the next `start` nothing is at work.
`AdmissionIsOrderly` is this specification; `FateOf` reads the fate from the
token, the handle, the task and the place of a request.

### OutgoingChat

One action is what the page does between two awaits; writes to IndexedDB take
effect when they are asked for, as transactions on a store run in order. The
record written is the message as it is at the request: `saveMessage` holds the
object itself and copies it only when the old record has been read
(`storage.js:334`). What that means for a status that comes in between is in
section 6.

| TLA+ | Code |
|---|---|
| `pc`, `answer` | where `_sendSingleMessageChunk` awaits, and the code in its answer |
| `mine`, `feed`, `same` | the captured `outgoingMsg`, the object in `channelFeeds`, and whether they are still one object |
| `row`, `active`, `pending` | the bubble and its `data-ack-code`, the selection, `pendingOutgoingAcks` with its timers |
| `cache` | the record in IndexedDB |
| `coded`, `receipts` | history: the codes the bridge registered, the acknowledgements it got |
| `Send`, `Post`, `Accept`, `Track`, `Show`, `Reject`, `GiveBack` | `sendMessage` and `_sendSingleMessageChunk`, in order |
| `OnChat`, `OnDelivered`, `OnStatus`, `AckTimeout` | the events of the WebSocket and the timer of a code |
| `RenderPage`, `Switch`, `PaintOther` | a history page, another conversation |

Abstractions. A record is its status, its flag and its code. Several WebSocket
workers and a dropping queue let events come late, twice, never and in any order.
The text, the fragments' order and the toasts are left out. The bridge is
`BridgeRecords`: it tells of a code only what it registered, and of a receipt
only what was acknowledged.

### ChatHistory

| TLA+ | Code |
|---|---|
| `selected`, `wanted` | the chosen conversation, and a render that a change of it scheduled |
| `memory`, `denied` | `channelFeeds`, `_historyAccessDenied` |
| `shown`, `screen` | `_visibleFeedKey` and the bubbles |
| `station`, `validated`, `blocked` | `stationId`, `validatedOnline`, `cacheAccessBlocked` |
| `cache`, `before` | `message_cache`, and the order of transactions on it |
| `calls` | renders, the list of conversations and clears under way, each with what it remembers: its conversation, whether its generations are current, the station it reads, what it found |
| `Render`, `Refresh`, `CachedRead` | `renderCurrentConversation` up to its request |
| `Answer`, `Accept`, `Fail`, `Offline`, `OfflineRead` | `_request`, `_accept`, `getHistoryPage` and what the render does with it |
| `Refuse`, `ChangeCredentials` | `_denyAccess` after 401 or 403, and after a login or logout |
| `Switch`, `Clear`, `Clearing`, `ClearAll`, `Repaint`, `Live` | the operator, and events |

Abstractions. A generation is only compared with a later value of itself: a
request has a flag that is lowered when it moves. Messages are received ones,
each of one conversation and one station. Left out: the limit
`MAX_FEED_MESSAGES` (which takes the oldest message away on purpose), a browser
without IndexedDB, the number of messages of a page, the wait of `ClearAll`
for its transaction. A request that a
refusal aborts ends at once; its error is not shown.

### RxWork

| TLA+ | Code |
|---|---|
| `queue` | `_pending_rx` |
| `starting`, `running`, `ended` | worker tasks that did not run yet, that await a handler, that returned and whose done-callback is to come |
| `overflow` | `rx_overflow_count` |
| `Coalesce`, `Admit`, `Displace`, `Refuse` | the branches of `_enqueue_work` |
| `Begin`, `Finish`, `WorkerDone`, `Stop` | `_drain_rx_work` between two awaits, `_rx_worker_done`, the cancellation by `stop` |
| `offered`, `latest`, `lost` | history |

Abstractions. A job is its key and the number of its arrival; what its handler
does is not modelled, so neither is the order in which two handlers end.

`WorkContract` says what whoever hands over work may rely on: bounds on what waits
and what is at work, critical jobs in their order of arrival and lost only when
the queue is full of them or the bridge stops, an observation replaced only by a
newer one of the same key, and a worker that gets done takes up the next job
unless nothing waits. The mapping counts as waiting what `queue` holds and
forgets the places: an observation keeps the place of the one it replaced, so
the queue as a whole is not in the order of arrival.

### CompanionProxy

| TLA+ | Code |
|---|---|
| `running`, `conn` | `running`, `active_clients`, `_pending_clients` and the handler of each connection |
| `stage`, `line`, `owner`, `received` | a command on its way through `_dispatch_companion_command`, those who wait for `_transaction_lock`, `_active_transaction_writer`, `_response_received` |
| `result` | what `handle_tcp_companion_command` awaits |
| `txq`, `worker`, `airing` | the queue of the limiter, the command its worker has in hand and how far it got with it |
| `radio`, `answer` | those who wait for the adapter's `_command_lock`, its holder first, and `_raw_command_future` |
| `asked`, `heard`, `errors`, `lapsed` | the replies the radio may still send; history: what each sender was given, what the server answered itself, what was given up before its outcome |
| `Connect` … `Leave` | `_handle_client`, `_queue_client_frame` |
| `Arrive`, `Begin`, `Deadline`, `End` | a transaction, with the 30 seconds of a command that transmits |
| `Take`, `Record`, `Transmit`, `Recorded`, `Report` | `_worker_loop` and `_execute_tx_transmission`: a command is dropped, refused, handed to the adapter or, a chat message, first recorded; the two returns of `publish_chat_event` |
| `Resolve`, `Settle` | what the limiter writes into the future of a command, unless that was cancelled |
| `SendRaw` … `Release`, `OwnAsks`, `OwnEnds` | `send_raw_companion_frame`, and the bridge's own commands under the same lock |
| `Reply`, `Ignore`, `ListItem` | `_observe_companion_frame` and `on_raw_companion_frame_rx` |
| `StopBegin`, `StopCancel` | `stop` up to and after its first wait |

Abstractions. A connection is made once and a command sent once. Left out: the
two commands the radio answers otherwise (reboot, opcode 19, has no reply; own
telemetry is answered by a push, 0x8B), pushes, framing, the outgoing connection
of `companion_connection.py`. Whether the type of a late reply fits the command
that waits is a choice (`Reply` or `Ignore`). Which commands are chat messages is
a choice too (`Record` or `Transmit`), as is whether the outcome of one is
recorded before its future is settled. What the two records say is left out.

`CompanionContract` is the server as its clients see it: commands take turns in
the order in which they came, the radio speaks only during a turn and only to its
sender, and a sender that stays until the end of the turn heard the radio, or
hears one error of the server, and never both (the mapping `Told` names that
case, and no step of the contract leads to it). Locks, limiter, adapter, time-outs
and late replies are steps it does not see. It says nothing of whose reply the
radio gives: that is `StraysFollowALapse`. `ServedAsPromised` is this
specification.

## 4. Runs

| Run | Checks | Bounds and why they are enough |
|---|---|---|
| `faults` | `DeliveredOnlyIfAcked`, `DeliveredIsFinal` | one message, one code, a resend request, two transmissions per request of the user, writes that may fail, a history that hides messages from the loop: all conflicts of the four coroutines are about one message |
| `collisions` | `TypeOK`, `CodesKeepOwner`, `ReceiptsAreHonest` | two messages, two codes, a tracker of one entry: collision and overflow both occur |
| `settled` | `RetryBudget`, `RetryingHasRow`, `RetriesEnd` | policies of 1 to 3 retries, so that the loop retransmits and reschedules up to two times, two codes, cancel, clear and ACK at any time, a busy history that may hide a delivered message from the loop, fair; resends, restarts and changes of the policy only in the proof of `RetryingHasRow` |
| `bounded` | `RetriesAreBounded` | violated: see section 6 |
| `once` | `TypeOK`, `AtMostOnce`, `AiredAsReserved`, `WaitersAreServed`, `CompletedWasAired`, `CommandsAreHonest` | three requests with two identifiers and two contents, a ledger of one row and a queue of one, so that pruning of commands in flight, overflow and eviction happen |
| `settle` | `CommandsSettle`, `CancelledIsNotSent` | two requests of all priorities, with and without identifiers, in a ledger of one row, with a worker that may hang |
| `admission` | `TypeOK`, `Bounded`, `SlotsAreReleased`, `ClosedIsQuiet`, `AdmissionIsOrderly` | two threads, four requests, two slots, buffers of one: each thread can be at each point while the loop starts, ends and closes others |
| `receipts` | `TypeOK`, `ReceiptIsTrue`, `ReceiptsStayCached` | one message with two codes, one of which may belong to another message too: all writers of a message's copies meet; two messages meet only in a shared code, which the other message stands for |
| `pages` | `TypeOK`, `BlockedShowsNothing`, `QuietScreenIsComplete`, `BlockedCacheIsFrozen`, `MessagesStay` | two conversations with a message each and two requests at a time: one may overtake the other at every wait, and a paint may meet the wrong conversation |
| `stations` | `StationsDontMix` | violated: see section 6 |
| `work` | `TypeOK`, `Bounded`, `WorkersForWork`, `WorkAsPromised`, `WorkIsTaken` | five jobs, critical or of two keys, two places, two workers: the queue fills, displaces and coalesces while workers start, end and are called back |
| `voices` | `TypeOK`, `InvitedHaveRoom`, `ServedAsPromised`, `StraysFollowALapse`, `GivenUpIsNotSent`, `TransactionsEnd` | three connections for two places, two of them with a command, one that transmits and one that asks, and a command of the bridge: a late reply has a next transaction to go to, and the bridge's own command comes between |

`MaxSpent` bounds the transmissions of a message between two requests of the
user. Symmetry sets are used in the safety runs with several messages or requests.
`settle` does not check deadlock: its requests are finitely many and all end.
Nor do `admission`, where the process ends (`LoopEnds`), `work`, where the
bridge stops, and `voices`, whose connections, commands and stop happen once.
`MaxJobs` bounds the jobs that arrive, `Slots` the requests under way, and the
commands of `CompanionProxy` are each sent once.

`StorageFaults` is FALSE where a property is about a database that answers:
`RetryingHasRow` and `RetryBudget` do not hold otherwise, because the scheduler
swallows the failure of its second write, and because a failing
`save_pending_retry` leaves a due row that is sent again on every poll.

**Fairness.** `Fairness` asks for weak fairness of `execute_tx`, of the worker's
and the loop's return, of the poll and of rows that fall due: an event loop runs
its ready coroutines and its timers ring. The operator, the mesh and the ACKs
owe nothing. `FairSteadySpec` asks that threads commit, that a handler whose
future is done resumes and that the 30 second timer rings; not even the worker
of the queue must go on. It has no close, crash or storage fault, and makes no
promise for administrative commands, whose executor has no time-out.
`FairSpec` of `RxWork` asks that workers run, that their callbacks come and that
handlers end. `FairSpec` of `CompanionProxy` asks for what the event loop runs
(`Begin`, `End`, `Release`, the send of the holder of the radio, the end of the
bridge's own commands, each of which has the SDK's time-out) and for the two
timers (`Deadline`, `RawTimeout`); nobody has to connect, reply, read or stop,
and the limiter's worker need not go on. The pages of the browser are
asked for safety only.

Each property has a mutant: an operator defined next to the one it would
replace (`WrittenOverReceipt`, `ReservedWithOutcome`, ...). No action uses them.

## 5. Proofs

TLAPS proves for all values of the constants, from the assumptions named in the
modules:

| Theorem | Property |
|---|---|
| `TypeCorrect`, `CommandsTyped` | `TypeOK` of each module |
| `OnlyAckedIsDelivered` | `DeliveredOnlyIfAcked` |
| `DeliveryIsFinal` | `DeliveredIsFinal` |
| `RetryingRowsExist` | `RetryingHasRow`, assuming no storage fault |
| `CodesAreKept` | `CodesKeepOwner` |
| `RetriesAreBudgeted` | `RetryBudget` under `SettledSpec`, assuming no storage fault |
| `RetriesAdvance` | `SeriesAdvance` and `SeriesInPolicy` under `SettledSpec`, assuming no storage fault: the safety core of `RetriesEnd` |
| `ReceiptsImplementContract` | `ReceiptsAreHonest`: the refinement of `DeliveryContract` |
| `CommandsAtMostOnce` | `AtMostOnce` |
| `CommandsAiredAsReserved` | `AiredAsReserved` |
| `CompletedCommandsWereAired` | `CompletedWasAired` |
| `WaitersServed` | `WaitersAreServed` |
| `CancelledStayUnsent` | `CancelledIsNotSent` |
| `CommandsImplementContract` | `CommandsAreHonest`: the refinement of `CommandContract` |
| `OutcomesKept` | `OutcomeIsKept`: an outcome on record is not overwritten |
| `CommandsAttended` | `Attended` under `SteadySpec`: the safety core of `CommandsSettle` |
| `AdmissionTyped`, `ChatTyped`, `HistoryTyped`, `WorkTyped`, `ProxyTyped` | `TypeOK` of the other modules |
| `AdmissionBounded` | `Bounded` |
| `SlotsComeBack` | `SlotsAreReleased` |
| `ClosingIsFinal` | `ClosedIsQuiet` |
| `AdmissionImplementsContract` | `AdmissionIsOrderly`: the refinement of `AdmissionContract` |
| `GivenUpForGood` | `DroppedStaysDropped`: what `close` gave up has no task later |
| `ReceiptsAreTrue` | `ReceiptIsTrue` |
| `CacheKeepsReceipts` | `ReceiptsStayCached` |
| `BlockedPageIsEmpty`, `BlockedCacheFrozen` | `BlockedShowsNothing`, `BlockedCacheIsFrozen` |
| `MessagesAreKept` | `MessagesStay` |
| `QuietScreen` | `QuietScreenIsComplete` |
| `WorkBounded`, `WorkHasWorkers` | `Bounded`, `WorkersForWork` of `RxWork` |
| `WorkImplementsContract` | `WorkAsPromised`: the refinement of `WorkContract` |
| `LatestObservationWins` | `LatestWins`: of two observations of a key the later one waits, and no job twice |
| `CriticalWorkIsKept` | `LossIsOfObservations` of `RxWork`, which no run needs: critical work is lost only to a queue full of critical work |
| `InvitedAreAdmitted` | `InvitedHaveRoom` |
| `ServerKeepsItsPromise` | `ServedAsPromised`: the refinement of `CompanionContract` |
| `CommandsHaveOneVoice` | `OneVoice`: a command that ended with its client there has one voice |
| `TransactionsAttended` | `Helped` and `Aired`: the safety core of `TransactionsEnd` |
| `RepliesFindTheirOwner` | `StraysFollowALapse` |
| `GivenUpStaysUnsent` | `GivenUpIsNotSent` |

*MessageDelivery_proofs.* `DeliveredOnlyIfAcked` is not inductive: what marks a
message as delivered is a lookup of a code in memory or in the table, or an old
delivery event. The invariant adds that every correlation, running call and ACK
in progress names a message that was on the air with its code (`CodesAreOwned`),
and that events and claims come from ACKs that were heard. The refinement uses
the same invariant, step by step: each action is one of the contract or leaves
its variables alone. `RetryingRowsExist` needs that the loop never schedules
attempt 0 and that every pass of the loop that drops a row also takes its
message out of 'retrying'. `CodesAreKept` looks at the two writers of a code:
making room (`PrunedKeeps`) takes out entries of other codes or the code
altogether, and a registration is refused while another message waits on it.

*RetryBudget_proofs.* `Account` compares what a message has cost with the number
of the attempt that stands for it: in its row, in the batch the loop has read, or
in the running call of the loop. During that call the row is no witness, because
`execute_tx` puts it back to attempt 1; it becomes one again when the loop writes
its own count over it. The other half of the argument is that the worker has
nothing to compete with: until it schedules the first retry, no row, batch or
call of the loop knows the message. The policy may be any, but nobody changes it
and nobody asks for a resend; the finding `RetriesAreBounded` is what happens
otherwise. On the same invariant rests `RetriesAdvance`: the attempt that a message
has reached grows by one when the loop starts `execute_tx` for it, and by nothing
else, and once no row, batch or call knows the message, none comes to know it
again. Since the attempt stays within the policy, a series is over after finitely
many runs of the loop, provided that the loop goes on: that much is fairness, and
`RetriesEnd` leaves it to TLC.

*CommandDispatch_proofs.* `Progress` says for each request what may be pending,
queued or aired at each point of its handler. A request that passed its
reservation *holds* its identifier (`Holds`); `Reservations` says that while the
ledger keeps the row the holder is unique and the row has its fingerprint;
`Outcomes` that a holder whose outcome is on record has nothing but 'uncertain'
left to write. The step lemmas show first that every step inserts one row,
updates one on behalf of a holder, or leaves the ledger alone, and that nobody
else comes to hold an identifier (`LedgerStep`); the rest follows from that
without looking at the actions again. `CancelledStayUnsent` rests on `Barred`: the
future of an item is cancelled only while the item is queued, so a cancelled one
has not been aired, and the worker skips it. The refinement needs two facts more:
what a row says bounds how far its holder got (`Orders`: a row that says
'admitted' has a holder for whom nothing was done, and one that says 'failed' a
holder of whom the limiter has nothing left), and an identifier without a row has
no status (`RowsInv`). `CommandsAttended` says that an open row has a handler that
will mark it, waits for the radio with a timer running, or has an outcome that a
thread is writing.

*MqttAdmission_proofs.* `Places` says where a request can be at each point of
its life; one fact is easy to miss, that a stored handle always has its token:
it is why the second section of the lock may cancel without looking at the
handles. `Bounded` counts the union of tokens and tasks, which is never more than
the sum the code compares with its limit. The refinement follows one request at
a time: a step changes the fate of the request it is about, and `Close` those of
all that are admitted and have not begun (`FateOf`, `FatesFollow`).

*OutgoingChat_proofs.* `ReceiptIsTrue` is about what is shown; it needs that each
copy carries only codes registered for its message and shows only receipts with
evidence (`Sound`), because a later event will look for the code. The cache must
also keep flag and status in step (`Plain`): the merge looks at the status only.
The invariant is split by the party that owns the variables, so that each action
disturbs few conjuncts.

*ChatHistory_proofs.* `Entitled` is why a refusal is final: a request whose
access is of the past is neither a current render nor accepting, since
`_denyAccess` moves the render generation and aborts the transactions.
`QuietScreenIsComplete` follows from `ScreenOK`: if the screen is not what the
memory holds, a render is scheduled or a current one (`Painter`) will paint.
Each step lemma yields the invariant and both action properties at once.

*RxWork_proofs.* `WorkersForWork` is inductive only together with `LatestWins`
(the queue holds no job twice) and `Placed`: a worker that takes a job adds a job
to `running` that was not there, so the number of workers does not change. The
refinement adds `InOrder`: critical jobs stand in the queue in the order of their
numbers, which displacing an observation in front of them leaves alone.

*CompanionProxy_proofs.* `TransactionOK` says that only the owner of the lock
awaits an outcome, `PlacesOK` that a command is in one queue once, whatever was
given up. `VoicesOK` ties `_response_received` to what the client really heard.
`RepliesOK` is the reason behind `StraysFollowALapse`: while nothing was given
up, the radio owes only the reply that is awaited. `RoomOK` is stronger than what
is promised: active and pending clients together never exceed the limit, so the
second check of the limit, after the token, never turns anyone away. The
refinement needs `VoicesOK` where a transaction ends (the server speaks exactly
when its client stayed and heard nothing) and `PlacesOK` where a client comes
(none of its commands is under way). `WorkerPlaced`, a part of `PlacesOK`, says
where the command of the limiter's worker is while it is recorded, sent and
reported: it waits for the radio only in the middle. `Helped` is inductive on
top of these: who waits is in the line, the owner of the lock has an outcome, a
deadline or a place with the radio; and so is `Aired`: what the worker has in
hand has such a place or is being recorded.

Only model-checked: the liveness properties `RetriesEnd`, `CommandsSettle`,
`WorkIsTaken` and `TransactionsEnd`, which are out of the prover's reach, as is
ENABLED. What is proved of them is that nobody is ever left without somebody who
can help (`RetriesAdvance`, `CommandsAttended`, `WorkHasWorkers`,
`TransactionsAttended`); that the helpers go on is fairness.

## 6. Where code and documents disagree

* `bounded`: the retry loop ignores that `schedule_retry` refuses. When the
  policy is lowered or disabled while a retransmission is awaited, the row stays
  due and is transmitted on every poll ("reintentos automáticos acotados").
* `stations`: a cached read that began for one station may return after the page
  turned to another; `getCachedHistory` checks the credentials then, not the
  station (`storage.js:284`), and the render that asked takes the old station's
  messages ("cached reads also retain their station snapshot").

Seen while modelling, without a run of their own:

* The first transmission counts as attempt 1, so *n* additional retries in the
  interface are *n* - 1 retransmissions (`message_retry_scheduler.py:381`).
* A message cancelled while the loop transmits another item of its batch is
  transmitted all the same (`message_retry_scheduler.py:355`).
* A running request is counted by its task and by its token, so a limit of 50
  turns requests away while 25 run (`mqtt_dispatcher.py:90`).
* A reply that comes in time for a command whose transaction already gave up is
  given to the next transaction's client; the comment at
  `tcp_companion_server.py:451` says one client owns the response stream, the one
  in `sdk_adapter.py:1499` that such a reply cannot be attributed.
  `StraysFollowALapse` is the strongest that holds.
* The limiter looks at a command last when it takes it. A chat message then waits
  for its record (`bridge_core.py:2113`), and if its 30 seconds end during that
  wait, it is transmitted although its client was told of a failure.
  `GivenUpIsNotSent` is about those still in the queue.
* `saveMessage` copies the object when the old record is there, not when it is
  called (`storage.js:334`). If the object is delivered and a status such as
  'failed' is assigned to it in that moment (`chat.js:2591`, which leaves
  `delivered` alone), a record with the flag of a receipt and that status is
  stored, and the save of the status, next in line, merges by status and takes
  the flag away. `OutgoingChat` writes the record as it was at the call, so
  `ReceiptsStayCached` says nothing of this window of one read.
* When an event has replaced the object in the conversation, the answer to the
  request still writes the captured one and sets the bubble of a message that is
  acknowledged back to 'sent' until the next render; the cache is right
  (`ReceiptsStayCached`).

## 7. Not modelled

`PROJECT.json` lists every component. Left out for good: routing, compression and
documents of the web server, the page's settings, contacts, map and layout,
configuration presets, decoding of sensor and protocol data, metrics, map tiles,
installers (request/response code, data and presentation with no protocol of
their own), and everything vendored or kept for reference (`src/reference/`,
`src/.agents/`). Within reach and not done: the persistence of the airtime
history, the watchdog of the serial connection, the event dispatcher of the
adapter, sessions, and the order of start and stop of the whole bridge. Time is
abstract everywhere: a timer may ring at any moment after it is set.
