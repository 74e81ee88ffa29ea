--------------------------- MODULE CompanionProxy ---------------------------
(* The applications that share the radio through TCP                        *)
(* (tcp_companion_server.py, core/companion_proxy.py) and the raw commands  *)
(* of the adapter (serial/sdk_adapter.py).  The frames of the radio carry   *)
(* no request: the server serves one command at a time and gives each reply *)
(* to the client it serves.  A command that transmits waits in the queue of *)
(* the limiter and its transaction gives up after a time; a chat message is *)
(* also recorded in the database, before and after it is sent, while the    *)
(* limiter waits; any raw command waits for its reply for a time while it   *)
(* holds the adapter's lock.                                                *)
(*                                                                          *)
(* One action is what runs on the event loop between two awaits.  Left out: *)
(* the two commands that the radio answers otherwise (reboot, which has no  *)
(* reply, and own telemetry, which is a push) and the pushes themselves.    *)
EXTENDS Naturals, FiniteSets, SequencesExt

CONSTANTS Clients,     \* connections, each of them made once
          Commands,    \* the frames that clients send
          Sender,      \* the client of each command
          Rf,          \* the commands that transmit
          Own,         \* commands of the bridge itself
          None,
          MaxClients   \* max_clients

ASSUME CommandsAssumption == Sender \in [Commands -> Clients] /\ Rf \subseteq Commands
ASSUME NamesAssumption == Own \intersect Commands = {} /\ None \notin Commands \union Own
ASSUME LimitAssumption == IsFiniteSet(Clients) /\ MaxClients \in Nat

VARIABLES running,   \* running
          conn,      \* the state of each connection and of its handler
          stage,     \* how far each command got
          line,      \* who waits for _transaction_lock
          owner,     \* the command that holds it
          received,  \* _response_received
          result,    \* what the transaction awaits: the outcome of its command
          txq,       \* commands in the queue of the limiter
          worker,    \* the command the limiter transmits
          airing,    \* how far the limiter got with it
          radio,     \* who waits for _command_lock, its holder first
          answer,    \* _raw_command_future of the holder
          asked,     \* the commands that the radio may still answer
          begun,     \* bound: the bridge makes each of its commands once
          heard,     \* history: the commands whose replies each sender was given
          errors,    \* history: the commands that the server answered itself
          lapsed     \* history: the commands given up before their outcome

clients == <<running, conn>>
lock == <<stage, line, owner>>
limiter == <<txq, worker, airing>>
adapter == <<radio, answer, asked, begun>>
voices == <<received, heard, errors>>
vars == <<clients, lock, result, limiter, adapter, voices, lapsed>>

(* active_clients and _pending_clients.  A connection that is closing is in *)
(* neither, and its handler still runs.                                     *)
Active == {w \in Clients : conn[w] = "active"}
Pending == {w \in Clients : conn[w] = "pending"}

Init ==
  /\ running = TRUE
  /\ conn = [w \in Clients |-> "out"]
  /\ stage = [c \in Commands |-> "unsent"]
  /\ line = << >>
  /\ owner = None
  /\ received = FALSE
  /\ result = [c \in Commands |-> "none"]
  /\ txq = << >>
  /\ worker = None
  /\ airing = "idle"
  /\ radio = << >>
  /\ answer = "none"
  /\ asked = {}
  /\ begun = {}
  /\ heard = [c \in Commands |-> {}]
  /\ errors = {}
  /\ lapsed = {}

-----------------------------------------------------------------------------
(* _handle_client, and the writer of each client *)
Becomes(w, s) ==
  /\ conn' = [conn EXCEPT ![w] = s]
  /\ UNCHANGED <<running, lock, result, limiter, adapter, voices, lapsed>>

CrowdedByActive == Cardinality(Active) >= MaxClients

Crowded == Cardinality(Active) + Cardinality(Pending) >= MaxClients

Connect(w) ==
  /\ running
  /\ conn[w] = "out"
  /\ Becomes(w, IF Crowded THEN "gone" ELSE "pending")

Authenticated(w) ==
  /\ conn[w] = "pending"
  /\ Becomes(w, IF Cardinality(Active) >= MaxClients THEN "gone" ELSE "active")

(* Another address or token, or no token in time. *)
Reject(w) ==
  /\ conn[w] = "pending"
  /\ Becomes(w, "gone")

(* A client that does not read is dropped; what it sent before is served.   *)
DropSlow(w) ==
  /\ conn[w] = "active"
  /\ Becomes(w, "closing")

InDispatch(w) == \E c \in Commands : Sender[c] = w /\ stage[c] \in {"waiting", "serving"}

Leave(w) ==
  /\ conn[w] \in {"active", "closing"}
  /\ ~InDispatch(w)
  /\ Becomes(w, "gone")

-----------------------------------------------------------------------------
(* _dispatch_companion_command, and handle_tcp_companion_command that it calls *)
Arrive(c) ==
  /\ stage[c] = "unsent"
  /\ conn[Sender[c]] \in {"active", "closing"}
  /\ ~InDispatch(Sender[c])
  /\ stage' = [stage EXCEPT ![c] = "waiting"]
  /\ line' = Append(line, c)
  /\ UNCHANGED <<clients, owner, result, limiter, adapter, voices, lapsed>>

(* Not a command, cut off, no place in the queue, no radio. *)
Refuse(c) ==
  /\ result' = [result EXCEPT ![c] = "false"]
  /\ UNCHANGED <<txq, radio>>

Submit(c) ==
  /\ c \in Rf
  /\ result' = [result EXCEPT ![c] = "awaited"]
  /\ txq' = Append(txq, c)
  /\ UNCHANGED radio

Ask(c) ==
  /\ c \notin Rf
  /\ result' = [result EXCEPT ![c] = "awaited"]
  /\ radio' = Append(radio, c)
  /\ UNCHANGED txq

LockIgnored == TRUE

LockFree == owner = None

Begin ==
  /\ LockFree
  /\ line # << >>
  /\ line' = Tail(line)
  /\ LET c == Head(line)
     IN  /\ stage' = [stage EXCEPT ![c] = "serving"]
         /\ owner' = c
         /\ Refuse(c) \/ Submit(c) \/ Ask(c)
  /\ received' = FALSE
  /\ UNCHANGED <<clients, worker, airing, answer, asked, begun, heard, errors, lapsed>>

(* The transaction of a command that transmits waits for 30 s; the future   *)
(* is cancelled, wherever the command is; the limiter looks at that only    *)
(* when it takes the command.                                               *)
Deadline ==
  /\ owner \in Rf
  /\ result[owner] = "awaited"
  /\ result' = [result EXCEPT ![owner] = "false"]
  /\ lapsed' = lapsed \union {owner}
  /\ UNCHANGED <<clients, lock, limiter, adapter, voices>>

Listens(c) == running /\ conn[Sender[c]] = "active"

EndSilent ==
  /\ owner # None
  /\ result[owner] = "true"
  /\ stage' = [stage EXCEPT ![owner] = "done"]
  /\ owner' = None
  /\ UNCHANGED <<clients, line, result, limiter, adapter, voices, lapsed>>

Failed == result[owner] = "false"

(* The server sends an error only if the radio said nothing. *)
Unanswered == result[owner] = "false" /\ ~received

End ==
  /\ owner # None
  /\ result[owner] \in {"true", "false"}
  /\ errors' = IF Unanswered /\ Listens(owner)
               THEN errors \union {owner} ELSE errors
  /\ stage' = [stage EXCEPT ![owner] = "done"]
  /\ owner' = None
  /\ UNCHANGED <<clients, line, result, limiter, adapter, received, heard, lapsed>>

-----------------------------------------------------------------------------
(* _worker_loop of the limiter and _execute_tx_transmission *)
CancelledIgnored(c) == FALSE

Cancelled(c) == result[c] # "awaited"

(* The future of a command gets its outcome, unless it was cancelled. *)
Resolve(c, outcome) ==
  result' = IF Cancelled(c) THEN result ELSE [result EXCEPT ![c] = outcome]

(* The limiter is through with its command. *)
Settle(outcome) ==
  /\ Resolve(worker, outcome)
  /\ worker' = None
  /\ airing' = "idle"

Skip(c) ==
  /\ Cancelled(c)
  /\ UNCHANGED <<result, worker, airing, radio>>

Deny(c) ==
  /\ ~Cancelled(c)
  /\ result' = [result EXCEPT ![c] = "false"]
  /\ UNCHANGED <<worker, airing, radio>>

(* A chat message awaits publish_chat_event first.  *)
Record(c) ==
  /\ ~Cancelled(c)
  /\ worker' = c
  /\ airing' = "recording"
  /\ UNCHANGED <<result, radio>>

(* Any other command goes to the radio at once. *)
Transmit(c) ==
  /\ ~Cancelled(c)
  /\ worker' = c
  /\ airing' = "sending"
  /\ radio' = Append(radio, c)
  /\ UNCHANGED result

Take ==
  /\ worker = None
  /\ txq # << >>
  /\ txq' = Tail(txq)
  /\ \E c \in {Head(txq)} : Skip(c) \/ Deny(c) \/ Record(c) \/ Transmit(c)
  /\ UNCHANGED <<clients, lock, answer, asked, begun, voices, lapsed>>

(* The message is in the database and goes to the radio, given up or not;   *)
(* or there is no radio; or the database failed and it is not sent.         *)
Recorded ==
  /\ airing = "recording"
  /\ \/ /\ airing' = "sending"
        /\ radio' = Append(radio, worker)
        /\ UNCHANGED <<result, worker>>
     \/ /\ airing' = "failed"
        /\ UNCHANGED <<result, worker, radio>>
     \/ /\ Settle("false")
        /\ UNCHANGED radio
  /\ UNCHANGED <<clients, lock, txq, answer, asked, begun, voices, lapsed>>

(* The outcome of the message is in the database, or could not be put there.*)
Report ==
  /\ airing \in {"sent", "failed"}
  /\ Settle(IF airing = "sent" THEN "true" ELSE "false")
  /\ UNCHANGED <<clients, lock, txq, adapter, voices, lapsed>>

-----------------------------------------------------------------------------
(* send_raw_companion_frame: the holder of _command_lock, for a command *)
Holder == Head(radio)

HoldsRaw == radio # << >> /\ Holder \in Commands

SendRaw ==
  /\ HoldsRaw
  /\ answer = "none"
  /\ answer' = "awaited"
  /\ asked' = asked \union {Holder}
  /\ UNCHANGED <<clients, lock, result, limiter, radio, begun, voices, lapsed>>

(* The command leaves the lock.  If the limiter transmitted it, it settles  *)
(* it now, or after the outcome is recorded; if not, the transaction itself *)
(* awaited the radio.                                                       *)
Returns(outcome) ==
  /\ radio' = Tail(radio)
  /\ \/ /\ Holder # worker
        /\ Resolve(Holder, outcome)
        /\ UNCHANGED <<worker, airing>>
     \/ /\ Holder = worker
        /\ Settle(outcome)
     \/ /\ Holder = worker
        /\ airing' = IF outcome = "true" THEN "sent" ELSE "failed"
        /\ UNCHANGED <<result, worker>>
  /\ UNCHANGED <<clients, lock, txq, asked, begun, voices, lapsed>>

SendFails ==
  /\ HoldsRaw
  /\ answer = "none"
  /\ Returns("false")
  /\ UNCHANGED answer

RawTimeout ==
  /\ answer = "awaited"
  /\ answer' = "failed"
  /\ lapsed' = lapsed \union {Holder}
  /\ UNCHANGED <<clients, lock, result, limiter, radio, asked, begun, voices>>

ReleaseKept ==
  /\ answer \in {"ok", "failed"}
  /\ Returns(IF answer = "ok" THEN "true" ELSE "false")
  /\ UNCHANGED answer

Release ==
  /\ answer \in {"ok", "failed"}
  /\ answer' = "none"
  /\ Returns(IF answer = "ok" THEN "true" ELSE "false")

(* A command of the bridge takes the same lock and hears its own reply,     *)
(* unless it ends before that comes.                                        *)
OwnAsks(s) ==
  /\ s \notin begun
  /\ begun' = begun \union {s}
  /\ radio' = Append(radio, s)
  /\ UNCHANGED <<clients, lock, result, limiter, answer, asked, voices, lapsed>>

OwnEnds ==
  /\ radio # << >>
  /\ Holder \in Own
  /\ radio' = Tail(radio)
  /\ \/ UNCHANGED <<asked, lapsed>>
     \/ asked' = asked \union {Holder} /\ lapsed' = lapsed \union {Holder}
  /\ UNCHANGED <<clients, lock, result, limiter, answer, begun, voices>>

-----------------------------------------------------------------------------
(* _observe_companion_frame and on_raw_companion_frame_rx: a frame answers  *)
(* the raw command that waits, if its type fits, and goes to the client     *)
(* whose transaction it is.                                                 *)
Forwarded(r) ==
  /\ received' = (received \/ owner # None)
  /\ heard' = IF owner # None /\ Listens(owner)
              THEN [heard EXCEPT ![owner] = @ \union {r}] ELSE heard

Reply(r) ==
  /\ r \in asked
  /\ asked' = asked \ {r}
  /\ answer = "awaited"
  /\ answer' \in {"ok", "failed"}
  /\ Forwarded(r)
  /\ UNCHANGED <<clients, lock, result, limiter, radio, begun, errors, lapsed>>

(* The type of a late reply does not fit, or nothing waits. *)
Ignore(r) ==
  /\ r \in asked
  /\ answer = "awaited" => Holder # r
  /\ asked' = asked \ {r}
  /\ UNCHANGED <<clients, lock, result, limiter, radio, answer, begun, voices, lapsed>>

(* A frame of a list, which its end will answer. *)
ListItem(r) ==
  /\ r \in asked \ Rf
  /\ answer = "awaited"
  /\ Holder \notin Rf
  /\ Forwarded(r)
  /\ UNCHANGED <<clients, lock, result, limiter, adapter, errors, lapsed>>

-----------------------------------------------------------------------------
(* stop: the listener closes first; up to a second later the handlers are   *)
(* cancelled, with what each of them awaits.                                *)
StopBegin ==
  /\ running
  /\ running' = FALSE
  /\ UNCHANGED <<conn, lock, result, limiter, adapter, voices, lapsed>>

Abandoned == {c \in {owner} \ {None} : result[c] = "awaited"}

(* Where a transaction waits for the radio by itself. *)
Places == {i \in 1 .. Len(radio) : radio[i] = owner /\ owner \notin Rf}

StopCancel ==
  /\ ~running
  /\ \E w \in Clients : conn[w] \in {"pending", "active", "closing"}
  /\ conn' = [w \in Clients |-> IF conn[w] = "out" THEN "out" ELSE "gone"]
  /\ stage' = [c \in Commands |-> IF stage[c] = "unsent" THEN "unsent" ELSE "done"]
  /\ line' = << >>
  /\ owner' = None
  /\ result' = [c \in Commands |-> IF c \in Abandoned THEN "false" ELSE result[c]]
  /\ lapsed' = lapsed \union Abandoned
  /\ radio' = IF Places = {} THEN radio ELSE RemoveAt(radio, CHOOSE i \in Places : TRUE)
  /\ answer' = IF HoldsRaw /\ Holder \notin Rf THEN "none" ELSE answer
  /\ UNCHANGED <<running, limiter, asked, begun, voices>>

Next ==
  \/ \E w \in Clients :
       Connect(w) \/ Authenticated(w) \/ Reject(w) \/ DropSlow(w) \/ Leave(w)
  \/ \E c \in Commands : Arrive(c)
  \/ Begin \/ Deadline \/ End
  \/ Take \/ Recorded \/ Report
  \/ SendRaw \/ SendFails \/ RawTimeout \/ Release \/ OwnEnds
  \/ \E s \in Own : OwnAsks(s)
  \/ \E r \in Commands \union Own : Reply(r) \/ Ignore(r) \/ ListItem(r)
  \/ StopBegin \/ StopCancel

Spec == Init /\ [][Next]_vars

(* The event loop runs what is ready and both waits have a timeout; nobody  *)
(* has to connect, to send, to answer, to read or to stop.                  *)
FairSpec ==
  /\ Spec
  /\ WF_vars(Begin) /\ WF_vars(Deadline) /\ WF_vars(End)
  /\ WF_vars(SendRaw \/ SendFails) /\ WF_vars(RawTimeout) /\ WF_vars(Release)
  /\ WF_vars(OwnEnds)

-----------------------------------------------------------------------------
TypeOK ==
  /\ running \in BOOLEAN
  /\ conn \in [Clients -> {"out", "pending", "active", "closing", "gone"}]
  /\ stage \in [Commands -> {"unsent", "waiting", "serving", "done"}]
  /\ line \in Seq(Commands)
  /\ owner \in Commands \union {None}
  /\ received \in BOOLEAN
  /\ result \in [Commands -> {"none", "awaited", "true", "false"}]
  /\ txq \in Seq(Rf)
  /\ worker \in Rf \union {None}
  /\ airing \in {"idle", "recording", "sending", "sent", "failed"}
  /\ worker = None <=> airing = "idle"
  /\ radio \in Seq(Commands \union Own)
  /\ answer \in {"none", "awaited", "ok", "failed"}
  /\ answer # "none" => HoldsRaw
  /\ begun \subseteq Own
  /\ asked \subseteq Commands \union Own
  /\ heard \in [Commands -> SUBSET (Commands \union Own)]
  /\ errors \subseteq Commands
  /\ lapsed \subseteq Commands \union Own

(* A connection that is asked for its token is not turned away for lack of  *)
(* place once it has given it, whoever connects and leaves in between.      *)
InvitedHaveRoom == Pending # {} => Cardinality(Active) < MaxClients

(* A client that stays hears something of each of its commands, from the    *)
(* radio or from the server, and never from the server what the radio       *)
(* already told: a reply, an error, the part of a list.                     *)
OneVoice ==
  \A c \in Commands :
    stage[c] = "done" /\ Listens(c) => (heard[c] = {} <=> c \in errors)

(* The server keeps the promise of CompanionContract: each command has one  *)
(* turn, in the order of arrival, and its sender, if it stays, hears the    *)
(* radio or one error of the server, never both, whichever comes first      *)
(* (_dispatch_companion_command, on_raw_companion_frame_rx).                *)
Told ==
  [c \in Commands |-> CASE heard[c] # {} /\ c \in errors -> "both"
                        [] heard[c] # {} /\ c \notin errors -> "radio"
                        [] heard[c] = {} /\ c \in errors -> "server"
                        [] OTHER -> "nobody"]
Present == {c \in Commands : Listens(c)}
Contract == INSTANCE CompanionContract WITH
  phase <- stage, turn <- line, serving <- owner, told <- Told, present <- Present
ServedAsPromised == Contract!Spec

(* As long as nothing was given up before its outcome, a client hears only  *)
(* the replies to its own command, although no reply names a request.       *)
StraysFollowALapse ==
  \A c \in Commands : heard[c] \subseteq {c} \/ lapsed # {}

(* A command whose transaction gave up while it waited in the queue is not  *)
(* taken by the limiter any more, and none that was given up joins those    *)
(* who wait for the radio, but the one that the limiter had in hand already *)
(* (_worker_loop, _execute_tx_transmission).                                *)
GivenUpIsNotSent ==
  [][\A c \in lapsed \ Own :
       /\ worker' = c => worker = c
       /\ Contains(radio', c) => Contains(radio, c) \/ worker = c]_vars

(* Whoever holds the locks, a command that a handler took from its client   *)
(* comes to an end.                                                         *)
TransactionsEnd ==
  \A c \in Commands : stage[c] = "waiting" ~> stage[c] = "done"
=============================================================================
