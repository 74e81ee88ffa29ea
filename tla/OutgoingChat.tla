---------------------------- MODULE OutgoingChat ----------------------------
(* What the page shows of a message it sends (web/static/js/modules/chat.js *)
(* and core/storage.js).  The text is put into the conversation and posted  *)
(* to the bridge, and then four parties write about it: the answer to the   *)
(* request, the events of the WebSocket, the timer that waits for an        *)
(* acknowledgement, and history pages.  Each has its own copy of the        *)
(* message: the object the sender captured, the object in the conversation, *)
(* the row on the screen and the record in the browser's cache.             *)
(*                                                                          *)
(* One action is what the page does between two awaits.  A write to the     *)
(* cache takes effect when it is asked for, because IndexedDB runs          *)
(* transactions on one store in the order of their creation.  The record is *)
(* taken as it is at that moment; saveMessage keeps the object and copies   *)
(* it when the old record is there, with what was written to it meanwhile.  *)
CONSTANTS Msgs,    \* the fragments the operator sends
          Others,  \* messages of other conversations
          Codes,   \* acknowledgement codes
          News,    \* what the retry scheduler may tell about a message
          None     \* no record, no row, no code, no message

ASSUME NoneAssumption == None \notin Msgs \union Codes
ASSUME OthersAssumption == Msgs \intersect Others = {}
ASSUME NewsAssumption == News \subseteq {"queued", "retrying", "failed",
                                        "cancelled"}

VARIABLES pc,        \* where _sendSingleMessageChunk of a message awaits
          answer,    \* the code in the answer it is working through
          mine,      \* the object it captured (outgoingMsg)
          feed,      \* the object in channelFeeds
          same,      \* messages whose two objects are one
          row,       \* the bubble on the screen and its data-ack-code
          active,    \* is this conversation the selected one?
          pending,   \* pendingOutgoingAcks; each entry has its timer
          cache,     \* message_cache of IndexedDB
          coded,     \* history: the codes the bridge registered for messages
          receipts   \* history: the acknowledgements it got for them

sender == <<pc, answer>>
objects == <<mine, feed, same>>
bridge == <<coded, receipts>>
vars == <<sender, objects, row, active, pending, cache, bridge>>

Statuses == {"queued", "sent", "failed", "delivered"} \union News
Records == [status : Statuses, delivered : BOOLEAN, ack : Codes \union {None}]
Rows == [shown : Statuses \union {"unconfirmed"}, code : Codes \union {None}]
Busy == {"saving", "posting", "marking", "tracking", "failing"}

ASSUME RecordAssumption == None \notin Records \union Rows

Fresh == [status |-> "queued", delivered |-> FALSE, ack |-> None]
Undelivered(rec) == ~rec.delivered /\ rec.status # "delivered"
Receipt(rec) == [rec EXCEPT !.status = "delivered", !.delivered = TRUE]

-----------------------------------------------------------------------------
(* What the bridge may tell about a message: it has a code only if one was  *)
(* registered for it, and a receipt only if an acknowledgement came.        *)
BridgeRecords(m) ==
  {rec \in Records :
     /\ rec.ack # None => <<m, rec.ack>> \in coded
     /\ rec.delivered = (rec.status = "delivered")
     /\ rec.delivered => \E c \in Codes : <<m, c>> \in receipts}

Posted == {m \in Msgs : pc[m] \notin {"draft", "saving"}}

-----------------------------------------------------------------------------
(* Records, rows and their writers *)

MergeLatest(old, new) == new

(* mergeMessage on whole records: the fields of the second one, but a       *)
(* receipt of either is kept.                                               *)
Merge(old, new) ==
  IF "delivered" \in {old.status, new.status} THEN Receipt(new) ELSE new

(* The merge of what IndexedDB has, if anything, with a record. *)
Saved(old, rec) == Merge(IF old = None THEN rec ELSE old, rec)

(* updateMessageStatus: a message that is not in the cache is skipped. *)
CachedStatus(m, s) ==
  IF cache[m] = None THEN cache
  ELSE [cache EXCEPT ![m] =
         Merge(@, [@ EXCEPT !.status = s, !.delivered = (s = "delivered")])]

(* createMessageBubble: the row, and the wait for its acknowledgement. *)
Bubble(rec) ==
  [shown |-> IF Undelivered(rec) THEN rec.status ELSE "delivered",
   code |-> rec.ack]

Waits(m, rec) == IF rec.ack # None /\ ~rec.delivered
                   THEN [pending EXCEPT ![rec.ack] = m]
                   ELSE pending

WriteMineAlone(m, rec) ==
  /\ mine' = [mine EXCEPT ![m] = rec]
  /\ UNCHANGED <<feed, same>>

(* An assignment to fields of the captured object or of the one in the      *)
(* conversation is seen through both names while they are one object.       *)
WriteMine(m, rec) ==
  /\ mine' = [mine EXCEPT ![m] = rec]
  /\ feed' = IF m \in same THEN [feed EXCEPT ![m] = rec] ELSE feed
  /\ same' = same

WriteFeed(Updated(_, _)) ==
  /\ feed' = [m \in Msgs |-> IF feed[m] = None THEN None
                                               ELSE Updated(m, feed[m])]
  /\ mine' = [m \in Msgs |-> IF m \in same THEN Updated(m, mine[m])
                                           ELSE mine[m]]
  /\ same' = same

-----------------------------------------------------------------------------
(* Sending *)

(* sendMessage takes the lock for all fragments; the text is shown and      *)
(* saved before the request is made.                                        *)
Send(m) ==
  /\ pc[m] = "draft"
  /\ \A n \in Msgs : pc[n] \notin Busy
  /\ pc' = [pc EXCEPT ![m] = "saving"]
  /\ mine' = [mine EXCEPT ![m] = Fresh]
  /\ feed' = [feed EXCEPT ![m] = Fresh]
  /\ same' = same \union {m}
  /\ row' = IF active THEN [row EXCEPT ![m] = Bubble(Fresh)] ELSE row
  /\ cache' = [cache EXCEPT ![m] = Saved(@, Fresh)]
  /\ UNCHANGED <<answer, active, pending, bridge>>

Post(m) ==
  /\ pc[m] = "saving"
  /\ pc' = [pc EXCEPT ![m] = "posting"]
  /\ UNCHANGED <<answer, objects, row, active, pending, cache, bridge>>

(* The answer is 'ok', with a code if the bridge tracks one: the status is  *)
(* set and saved.                                                           *)
Accept(m) ==
  /\ pc[m] = "posting"
  /\ LET s == IF Undelivered(mine[m]) THEN "sent" ELSE mine[m].status
     IN  /\ WriteMine(m, [mine[m] EXCEPT !.status = s])
         /\ cache' = CachedStatus(m, s)
  /\ pc' = [pc EXCEPT ![m] = "marking"]
  /\ \E c \in Codes \union {None} :
       /\ c # None => <<m, c>> \in coded
       /\ answer' = [answer EXCEPT ![m] = c]
  /\ UNCHANGED <<row, active, pending, bridge>>

(* The code is set, waited for unless the captured object is delivered, and *)
(* saved.                                                                   *)
Track(m) ==
  /\ pc[m] = "marking"
  /\ answer[m] # None
  /\ LET rec == [mine[m] EXCEPT !.ack = answer[m]]
     IN  /\ WriteMine(m, rec)
         /\ pending' = Waits(m, rec)
         /\ cache' = IF cache[m] = None THEN cache
                     ELSE [cache EXCEPT ![m].ack = answer[m]]
  /\ pc' = [pc EXCEPT ![m] = "tracking"]
  /\ answer' = [answer EXCEPT ![m] = None]
  /\ UNCHANGED <<row, active, bridge>>

(* The row says 'sent', unless the captured object is delivered; without a  *)
(* tracked code this follows the first write.                               *)
Show(m) ==
  /\ pc[m] \in {"marking", "tracking"}
  /\ answer[m] = None
  /\ pc' = [pc EXCEPT ![m] = "accepted"]
  /\ row' = IF row[m] = None THEN row
            ELSE [row EXCEPT
                   ![m].code = IF mine[m].ack = None THEN @ ELSE mine[m].ack,
                   ![m].shown = IF mine[m].delivered THEN @ ELSE "sent"]
  /\ UNCHANGED <<answer, objects, active, pending, cache, bridge>>

(* The answer is an error, or the connection broke: the message failed,     *)
(* unless the captured object is delivered.                                 *)
Reject(m) ==
  /\ pc[m] = "posting"
  /\ IF Undelivered(mine[m])
       THEN /\ WriteMine(m, [mine[m] EXCEPT !.status = "failed"])
            /\ cache' = CachedStatus(m, "failed")
            /\ pc' = [pc EXCEPT ![m] = "failing"]
       ELSE /\ pc' = [pc EXCEPT ![m] = "accepted"]
            /\ UNCHANGED <<objects, cache>>
  /\ UNCHANGED <<answer, row, active, pending, bridge>>

(* The row is made anew from the captured object, and the text returns to   *)
(* the composer.                                                            *)
GiveBack(m) ==
  /\ pc[m] = "failing"
  /\ pc' = [pc EXCEPT ![m] = "refused"]
  /\ IF active /\ row[m] # None
       THEN /\ row' = [row EXCEPT ![m] = Bubble(mine[m])]
            /\ pending' = Waits(m, mine[m])
       ELSE UNCHANGED <<row, pending>>
  /\ UNCHANGED <<answer, objects, active, cache, bridge>>

Sending(m) == \/ Send(m) \/ Post(m) \/ Accept(m) \/ Track(m) \/ Show(m)
              \/ Reject(m) \/ GiveBack(m)

-----------------------------------------------------------------------------
(* Events.  One that the bridge could have sent comes at any time, late,    *)
(* twice or never: several background workers send them, from a queue that  *)
(* drops the oldest one when it is full.                                    *)

(* handleIncomingChatMessage: the echo of an outgoing message replaces the  *)
(* object in the conversation by a merged copy.                             *)
OnChat(m) ==
  /\ m \in Posted
  /\ \E told \in BridgeRecords(m) :
       LET rec == Merge(feed[m], told)
       IN  /\ feed' = [feed EXCEPT ![m] = rec]
           /\ same' = same \ {m}
           /\ cache' = [cache EXCEPT ![m] = Saved(@, rec)]
           /\ IF row[m] = None
                THEN UNCHANGED <<row, pending>>
                ELSE /\ row' = [row EXCEPT ![m] = Bubble(rec)]
                     /\ pending' = Waits(m, rec)
  /\ UNCHANGED <<sender, mine, active, bridge>>

AcknowledgesUncoded(m, c, n, rec) == n = m \/ rec.ack \in {c, None}

(* handleDeliveryAck matches the identifier or the code, and marks the row  *)
(* of the identifier or else the first one with the code.                   *)
Acknowledges(m, c, n, rec) == n = m \/ rec.ack = c

AckRows(m, c) ==
  IF m \in Msgs /\ row[m] # None THEN {m}
  ELSE {n \in Msgs : row[n] # None /\ row[n].code = c}

OnDelivered(m, c) ==
  /\ <<m, c>> \in receipts
  /\ pending' = [pending EXCEPT ![c] = None]
  /\ LET Acked(n, rec) == IF Acknowledges(m, c, n, rec) THEN Receipt(rec)
                                                        ELSE rec
     IN  /\ WriteFeed(Acked)
         /\ cache' = [n \in Msgs |-> IF cache[n] = None THEN None
                                                        ELSE Acked(n, cache[n])]
  /\ IF AckRows(m, c) = {} THEN row' = row
     ELSE \E n \in AckRows(m, c) : row' = [row EXCEPT ![n].shown = "delivered"]
  /\ UNCHANGED <<sender, active, bridge>>

(* handleMessageStatus and updateBubbleStatus, which has no case for        *)
(* 'queued': the record in the cache is merged, the object assigned to.     *)
OnStatus(m) ==
  /\ m \in Posted
  /\ \E s \in News :
       LET Told(n, rec) == IF n = m THEN [rec EXCEPT !.status = s] ELSE rec
       IN  /\ WriteFeed(Told)
           /\ row' = IF row[m] = None \/ s = "queued" THEN row
                     ELSE [row EXCEPT ![m].shown = s]
           /\ cache' = CachedStatus(m, s)
  /\ UNCHANGED <<sender, active, pending, bridge>>

(* The 45 seconds of a code are over: the row found by the identifier or    *)
(* by the code is marked, unless it shows a receipt.                        *)
TimedRows(c) ==
  {n \in Msgs : row[n] # None /\ (n = pending[c] \/ row[n].code = c)}

AckTimeout(c) ==
  /\ pending[c] # None
  /\ pending' = [pending EXCEPT ![c] = None]
  /\ IF TimedRows(c) = {} THEN row' = row
     ELSE \E n \in TimedRows(c) :
            row' = IF row[n].shown = "delivered" THEN row
                   ELSE [row EXCEPT ![n].shown = "unconfirmed"]
  /\ UNCHANGED <<sender, objects, active, cache, bridge>>

-----------------------------------------------------------------------------
(* The conversation on the screen *)

(* switchChannel, openDmConversation select another conversation; its       *)
(* render paints it over this one later.                                    *)
Switch ==
  /\ active' = ~active
  /\ UNCHANGED <<sender, objects, row, pending, cache, bridge>>

PaintOther ==
  /\ ~active
  /\ row' = [m \in Msgs |-> None]
  /\ UNCHANGED <<sender, objects, active, pending, cache, bridge>>

(* Painting makes a bubble of every message, and each may arm a timer; of   *)
(* two with one code the later in the conversation counts.                  *)
Unconfirmed(f, c) ==
  {m \in Msgs : f[m] # None /\ f[m].ack = c /\ ~f[m].delivered}

Paint(f) ==
  /\ row' = [m \in Msgs |-> IF f[m] = None THEN None ELSE Bubble(f[m])]
  /\ pending' \in {p \in [Codes -> Msgs \union {None}] :
                    \A c \in Codes :
                      p[c] \in IF Unconfirmed(f, c) = {} THEN {pending[c]}
                               ELSE Unconfirmed(f, c)}

(* renderCurrentConversation, for some posted messages whose records a page *)
(* brings, or none when the request fails.  The page is accepted into the   *)
(* cache; if its conversation is still selected, it is merged into it and   *)
(* painted.                                                                 *)
RenderPage ==
  \E found \in SUBSET Posted :
  \E page \in [found -> Records] :
    /\ \A m \in found : page[m] \in BridgeRecords(m)
    /\ cache' = [m \in Msgs |-> IF m \in found THEN Saved(cache[m], page[m])
                                               ELSE cache[m]]
    /\ IF active
         THEN /\ feed' = [m \in Msgs |-> IF m \in found
                                           THEN Merge(feed[m], page[m])
                                           ELSE feed[m]]
              /\ same' = same \ found
              /\ Paint(feed')
         ELSE UNCHANGED <<feed, same, row, pending>>
    /\ UNCHANGED <<sender, mine, active, bridge>>

-----------------------------------------------------------------------------
(* The bridge registers a code for a transmission of the message, and gets  *)
(* an acknowledgement.  A code may be used again when it is settled, in     *)
(* this conversation or in another one.                                     *)
Register(m, c) ==
  /\ m \in Posted
  /\ coded' = coded \union {<<m, c>>}
  /\ UNCHANGED <<sender, objects, row, active, pending, cache, receipts>>

Acknowledge(m, c) ==
  /\ m \in Others \/ <<m, c>> \in coded
  /\ receipts' = receipts \union {<<m, c>>}
  /\ UNCHANGED <<sender, objects, row, active, pending, cache, coded>>

-----------------------------------------------------------------------------
Init ==
  /\ pc = [m \in Msgs |-> "draft"]
  /\ answer = [m \in Msgs |-> None]
  /\ mine = [m \in Msgs |-> None]
  /\ feed = [m \in Msgs |-> None]
  /\ same = {}
  /\ row = [m \in Msgs |-> None]
  /\ active = TRUE
  /\ pending = [c \in Codes |-> None]
  /\ cache = [m \in Msgs |-> None]
  /\ coded = {}
  /\ receipts = {}

Next ==
  \/ \E m \in Msgs : Sending(m) \/ OnChat(m) \/ OnStatus(m)
  \/ \E m \in Msgs, c \in Codes : Register(m, c)
  \/ \E m \in Msgs \union Others, c \in Codes :
       OnDelivered(m, c) \/ Acknowledge(m, c)
  \/ \E c \in Codes : AckTimeout(c)
  \/ Switch \/ PaintOther \/ RenderPage

Spec == Init /\ [][Next]_vars

-----------------------------------------------------------------------------
(* Properties *)

TypeOK ==
  /\ pc \in [Msgs -> Busy \union {"draft", "accepted", "refused"}]
  /\ answer \in [Msgs -> Codes \union {None}]
  /\ \A m \in Msgs : answer[m] # None => <<m, answer[m]>> \in coded
  /\ mine \in [Msgs -> Records \union {None}]
  /\ feed \in [Msgs -> Records \union {None}]
  /\ cache \in [Msgs -> Records \union {None}]
  /\ row \in [Msgs -> Rows \union {None}]
  /\ same \subseteq {m \in Msgs : feed[m] # None /\ feed[m] = mine[m]}
  /\ \A m \in Msgs : pc[m] # "draft" => None \notin {mine[m], feed[m]}
  /\ active \in BOOLEAN
  /\ pending \in [Codes -> Msgs \union {None}]
  /\ receipts \subseteq coded \union (Others \X Codes)
  /\ coded \subseteq Posted \X Codes

(* The messages that a set of copies shows as received. *)
Receipted(copies) ==
  {m \in Msgs : copies[m] # None /\ ~Undelivered(copies[m])}

(* What says that a message arrived: an acknowledgement of it, or of        *)
(* another message by a code that it was given as well.                     *)
Evidence(m) == \E e \in receipts : e[1] = m \/ <<m, e[2]>> \in coded

(* Neither the object of the sender nor the conversation, the cache or the  *)
(* screen shows a receipt that no acknowledgement stands for, whatever the  *)
(* order of events, answers, pages and timers (chat.js handleDeliveryAck,   *)
(* mergeMessage).                                                           *)
ReceiptIsTrue ==
  \A m \in Msgs :
    \/ m \in Receipted(mine) \union Receipted(feed) \union Receipted(cache)
    \/ row[m] # None /\ row[m].shown = "delivered"
    => Evidence(m)

(* "A late history response or TX result must never undo a confirmed ACK"   *)
(* (storage.js, mergeMessage): in the cache nothing does, neither a late    *)
(* event nor the failure of the request, if a save writes the record that   *)
(* it was called with.                                                      *)
ReceiptsStayCached ==
  [][Receipted(cache) \subseteq Receipted(cache')]_vars
=============================================================================
