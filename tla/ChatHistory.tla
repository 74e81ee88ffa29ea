---------------------------- MODULE ChatHistory ----------------------------
(* The conversations of the page and the browser's copy of the history      *)
(* (web/static/js/modules/chat.js and core/storage.js).  The bridge owns    *)
(* the history; the page holds some of it in memory, paints the             *)
(* conversation that is selected, and keeps in IndexedDB what it            *)
(* downloaded.  Renders, the list of conversations, live events, clears,    *)
(* refusals and changes of credentials overlap: each request remembers the  *)
(* generations it began in, and checks them when it goes on.                *)
(*                                                                          *)
(* One action is what the page does between two awaits of something outside *)
(* of it.  A generation is only ever compared with a later value of itself: *)
(* instead of numbers, a request has a flag that is lowered when they move. *)
(* Messages are received ones; those the operator sends are in OutgoingChat.*)
CONSTANTS Feeds,      \* conversations
          Stations,   \* radios that the bridge may be connected to
          Msgs,       \* messages
          FeedOf,     \* the conversation of a message
          StationOf,  \* the station whose history it belongs to
          Slots,      \* bound: how many requests may be under way
          None        \* no conversation, no station, no request

ASSUME NoneAssumption == None \notin Feeds \union Stations
ASSUME FeedsAssumption == Feeds # {} /\ FeedOf \in [Msgs -> Feeds]
ASSUME StationsAssumption == StationOf \in [Msgs -> Stations]

VARIABLES selected,   \* the conversation that the operator chose
          wanted,     \* is a render of it scheduled?
          memory,     \* messages in channelFeeds
          denied,     \* _historyAccessDenied of the chat
          shown,      \* the conversation on the screen (_visibleFeedKey)
          screen,     \* the messages on the screen
          station,    \* the validated station (stationId)
          validated,  \* validatedOnline
          blocked,    \* cacheAccessBlocked
          cache,      \* message_cache of IndexedDB
          before,     \* whose transactions on it come before a request's
          calls       \* the requests under way

choice == <<selected, wanted>>
view == <<shown, screen>>
access == <<station, validated, blocked>>
vars == <<choice, memory, denied, view, access, cache, before, calls>>

(* A first render is followed by the list of conversations. *)
Kinds == {"first", "page", "list", "clear"}
Phases == {"reading", "sent", "offline", "accepting", "deleting"}

Calls == [kind : Kinds, phase : Phases, feed : Feeds \union {None},
          current : BOOLEAN,      \* is the render generation its own?
          access : {"current",    \* are the access and auth generations?
                    "denied",     \* access was refused since it began
                    "changed"},   \* the credentials changed
          source : Stations \union {None},  \* the station it reads or found
          got : SUBSET Msgs]      \* the messages it found

ASSUME CallsAssumption == None \notin Calls

-----------------------------------------------------------------------------
InFeed(msgs, f) == {m \in msgs : FeedOf[m] = f}
OfStation(msgs, s) == {m \in msgs : StationOf[m] = s}
At(q, phase) == calls[q] # None /\ calls[q].phase = phase

(* IndexedDB runs the transactions on a store in the order of their         *)
(* creation, and those that only read side by side.                         *)
Readers == {q \in Slots : At(q, "reading") \/ At(q, "offline")}
Accepting == {q \in Slots : At(q, "accepting")}
Ready(q) == before[q] = {}

Read(q) == before' = [before EXCEPT ![q] = Accepting]
Write(q) == before' = [before EXCEPT ![q] = Readers \union Accepting]
CompleteUnseen(q) == before' = [before EXCEPT ![q] = {}]

Complete(q) == before' = [p \in Slots |-> before[p] \ {q}]

(* Every render, clear and loss of access moves the render generation. *)
Stale(cs) ==
  [q \in Slots |-> IF cs[q] = None THEN None
                   ELSE [cs[q] EXCEPT !.current = FALSE]]

(* isCurrent, the other generations of which never move without this one. *)
IsCurrent(c) == c.current /\ c.feed = selected

(* _paintConversation replaces what is on the screen. *)
Paint(f, msgs) == shown' = f /\ screen' = InFeed(msgs, f)

(* A request is over; loadInitialHistory goes on with the conversations,    *)
(* unless access was denied.                                                *)
List == [kind |-> "list", phase |-> "sent", feed |-> None, current |-> FALSE,
         access |-> "current", source |-> None, got |-> {}]

Rest(q, refused) ==
  IF calls[q].kind = "first" /\ ~refused THEN List ELSE None

-----------------------------------------------------------------------------
(* Rendering *)

(* _assertCacheAccess, for a request whose generations moved like that.     *)
CacheAccessOfAuth(how) == how # "changed"

CacheAccess(how) == how # "changed" /\ ~blocked

Rendering(kind, f) ==
  [kind |-> kind, phase |-> "sent", feed |-> f, current |-> TRUE,
   access |-> "current", source |-> None, got |-> {}]

(* A request reads what the cache has of its conversation. *)
Found(c, msgs) == InFeed(OfStation(msgs, c.source), c.feed)

Reading(c, phase, s, msgs) ==
  LET reader == [c EXCEPT !.phase = phase, !.source = s]
  IN  [reader EXCEPT !.got = Found(reader, msgs)]

(* renderCurrentConversation up to its first wait: for the cache, when the  *)
(* conversation is empty in memory and the cache may be read, or else for   *)
(* its page.                                                                *)
BeginRender(kind, q) ==
  /\ calls[q] = None
  /\ LET empty == InFeed(memory, selected) = {}
         reads == empty /\ CacheAccess("current") /\ station # None
         c == Rendering(kind, selected)
     IN  /\ calls' = [Stale(calls) EXCEPT
                       ![q] = IF reads THEN Reading(c, "reading", station, cache)
                                       ELSE c]
         /\ IF reads THEN Read(q) ELSE before' = before
         /\ IF empty /\ ~reads THEN Paint(selected, memory) ELSE UNCHANGED view
  /\ UNCHANGED <<memory, denied, access, cache>>

(* The render that a change of conversation scheduled. *)
Render(q) ==
  /\ wanted
  /\ wanted' = FALSE
  /\ BeginRender("page", q)
  /\ UNCHANGED selected

(* Any other: an older page, a sender blocked, a history imported. *)
Refresh(q) ==
  /\ \E kind \in {"first", "page"} : BeginRender(kind, q)
  /\ UNCHANGED choice

(* getCachedHistory returns, with nothing if the credentials changed or     *)
(* access is blocked.  A render that is current takes what it brings.  Then *)
(* an empty conversation is painted as loading, and the page is asked for.  *)
CachedRead(q) ==
  /\ At(q, "reading")
  /\ Ready(q)
  /\ LET c == calls[q]
         empty == InFeed(memory, c.feed) = {}
     IN  /\ memory' = IF empty /\ IsCurrent(c) /\ CacheAccess(c.access)
                        THEN memory \union c.got
                        ELSE memory
         /\ IF empty THEN Paint(c.feed, memory') ELSE UNCHANGED view
         /\ calls' = [calls EXCEPT ![q] = [c EXCEPT
                       !.phase = "sent", !.access = "current", !.source = None,
                       !.got = {}]]
  /\ Complete(q)
  /\ UNCHANGED <<choice, denied, access, cache>>

-----------------------------------------------------------------------------
(* Answers *)

(* A render has a page: the messages are merged into the conversation, none *)
(* is taken from it, and it is painted, if the render is current.           *)
MergedOver(msgs, found, f) == (msgs \ InFeed(msgs, f)) \union found

Merged(msgs, found, f) == msgs \union found

Show(c, found, msgs) ==
  /\ memory' = Merged(msgs, found, c.feed)
  /\ denied' = FALSE
  /\ Paint(c.feed, memory')

(* The answer has the history of some station: it is put into the cache. *)
Answer(q) ==
  /\ At(q, "sent")
  /\ calls[q].access = "current"
  /\ \E s \in Stations :
     \E found \in SUBSET InFeed(OfStation(Msgs, s), calls[q].feed) :
       calls' = [calls EXCEPT ![q].phase = "accepting", ![q].source = s,
                              ![q].got = found]
  /\ Write(q)
  /\ UNCHANGED <<choice, memory, denied, view, access, cache>>

(* The transaction of _accept is complete, and seen by the reads behind it: *)
(* access is validated, a new station empties the page (station_changed),   *)
(* and a render goes on.                                                    *)
Accept(q) ==
  /\ At(q, "accepting")
  /\ Ready(q)
  /\ LET c == calls[q]
         kept == IF c.source = station THEN memory ELSE {}
     IN  /\ cache' = cache \union c.got
         /\ station' = c.source
         /\ validated' = TRUE
         /\ blocked' = FALSE
         /\ IF c.kind # "list" /\ IsCurrent(c)
              THEN Show(c, c.got, kept)
              ELSE /\ memory' = kept
                   /\ denied' = denied
                   /\ IF c.source = station THEN UNCHANGED view
                                            ELSE Paint(selected, {})
  /\ calls' = [p \in Slots |->
       IF p = q THEN Rest(q, denied')
       ELSE IF p \in Readers
         THEN [calls[p] EXCEPT !.got = @ \union Found(calls[p], calls[q].got)]
         ELSE calls[p]]
  /\ Complete(q)
  /\ UNCHANGED choice

(* An error of the bridge, or an answer whose credentials or access are of  *)
(* the past.                                                                *)
Fail(q) ==
  /\ At(q, "sent")
  /\ IF IsCurrent(calls[q]) THEN Paint(selected, memory) ELSE UNCHANGED view
  /\ calls' = [calls EXCEPT ![q] = Rest(q, denied)]
  /\ UNCHANGED <<choice, memory, denied, access, cache, before>>

(* fetch fails: the page is read from the cache, when access is as it was   *)
(* and not blocked; if it is blocked the page of a current render is        *)
(* emptied, as by a refusal.                                                *)
Offline(q) ==
  /\ At(q, "sent")
  /\ LET c == calls[q]
         reads == c.access = "current" /\ CacheAccess("current")
     IN  /\ IF reads /\ c.kind # "list" /\ station # None
              THEN /\ calls' = [calls EXCEPT
                                 ![q] = Reading(c, "offline", station, cache)]
                   /\ Read(q)
                   /\ UNCHANGED <<memory, denied, view>>
              ELSE /\ IF ~IsCurrent(c) THEN UNCHANGED <<memory, denied, view>>
                      ELSE IF ~reads
                        THEN memory' = {} /\ denied' = TRUE /\ Paint(selected, {})
                        ELSE Show(c, {}, memory)
                   /\ calls' = [calls EXCEPT ![q] = Rest(q, denied')]
                   /\ before' = before
  /\ UNCHANGED <<choice, access, cache>>

OfflineRead(q) ==
  /\ At(q, "offline")
  /\ Ready(q)
  /\ LET c == calls[q]
     IN  IF ~IsCurrent(c) THEN UNCHANGED <<memory, denied, view>>
         ELSE IF c.access = "current" /\ CacheAccess("current")
                 /\ c.source = station
           THEN Show(c, c.got, memory)
           ELSE Paint(selected, memory) /\ UNCHANGED <<memory, denied>>
  /\ calls' = [calls EXCEPT ![q] = Rest(q, denied')]
  /\ Complete(q)
  /\ UNCHANGED <<choice, access, cache>>

-----------------------------------------------------------------------------
(* Loss of access *)

(* Transactions that accept an answer are aborted, unless one is committed  *)
(* already, and their requests fail; the page is emptied.                   *)
NotAborted(cs) == cs

Aborted(cs) == [q \in Slots |-> IF q \in Accepting THEN None ELSE cs[q]]

Outdated(cs, how) ==
  [q \in Slots |->
     IF cs[q] = None \/ cs[q].kind = "clear" \/ cs[q].access = "changed"
       THEN cs[q]
       ELSE [cs[q] EXCEPT !.access = how]]

LoseAccess ==
  /\ cache' \in {cache} \union {cache \union calls[p].got :
                                  p \in {r \in Accepting : Ready(r)}}
  /\ before' = [q \in Slots |-> IF q \in Accepting THEN {}
                                               ELSE before[q] \ Accepting]
  /\ memory' = {}
  /\ denied' = TRUE
  /\ validated' = FALSE
  /\ blocked' = TRUE
  /\ Paint(selected, {})
  /\ UNCHANGED <<choice, station>>

(* The bridge refuses a request (401, 403) of the credentials in use. *)
Refuse(q) ==
  /\ At(q, "sent")
  /\ calls[q].access # "changed"
  /\ calls' = [Outdated(Stale(Aborted(calls)), "denied") EXCEPT ![q] = None]
  /\ LoseAccess

(* credentials_changed: a login, a logout, an expired session.  The history *)
(* is loaded anew.                                                          *)
ChangeCredentials(q) ==
  /\ Aborted(calls)[q] = None
  /\ calls' = [Outdated(Stale(Aborted(calls)), "changed") EXCEPT
                ![q] = Rendering("first", selected)]
  /\ LoseAccess

-----------------------------------------------------------------------------
(* The operator, and live events *)

(* switchChannel, openDmConversation *)
Switch ==
  /\ selected' \in Feeds
  /\ wanted' = TRUE
  /\ UNCHANGED <<memory, denied, view, access, cache, before, calls>>

(* clearCurrentChat empties the conversation in memory and in the cache,    *)
(* where what is being accepted comes before; the bridge deletes its        *)
(* history, and then the conversation is painted.                           *)
Cleared(msgs) == {m \in msgs : FeedOf[m] = selected /\ StationOf[m] = station}

Clear(q) ==
  /\ calls[q] = None
  /\ memory' = memory \ InFeed(memory, selected)
  /\ cache' = cache \ Cleared(cache)
  /\ calls' = [p \in Slots |->
       IF p = q THEN [List EXCEPT !.kind = "clear", !.phase = "deleting",
                                  !.feed = selected, !.current = TRUE]
       ELSE IF calls[p] = None THEN None
       ELSE [calls[p] EXCEPT !.current = FALSE, !.got = @ \ Cleared(@)]]
  /\ UNCHANGED <<choice, denied, view, access, before>>

Clearing(q) ==
  /\ At(q, "deleting")
  /\ IF IsCurrent(calls[q]) THEN Paint(selected, memory) ELSE UNCHANGED view
  /\ calls' = [calls EXCEPT ![q] = None]
  /\ UNCHANGED <<choice, memory, denied, access, cache, before>>

(* The cache is emptied in the settings (cache_cleared).  The wait for its  *)
(* transaction is left out.                                                 *)
ClearAll ==
  /\ memory' = {}
  /\ cache' = cache \ OfStation(cache, station)
  /\ calls' = [q \in Slots |->
       IF calls[q] = None THEN None
       ELSE [calls[q] EXCEPT !.current = FALSE, !.got = @ \ OfStation(@, station)]]
  /\ Paint(selected, {})
  /\ UNCHANGED <<choice, denied, access, before>>

(* onLanguageChange *)
Repaint ==
  /\ Paint(selected, memory)
  /\ UNCHANGED <<choice, memory, denied, access, cache, before, calls>>

AppendedAlways(m) == screen \union {m}

(* handleIncomingChatMessage: a message that is new to the selected         *)
(* conversation is appended to whatever is on the screen.                   *)
Appended(m) == IF FeedOf[m] = selected THEN screen \union {m} ELSE screen

Live(m) ==
  /\ ~denied
  /\ StationOf[m] = station
  /\ memory' = memory \union {m}
  /\ cache' = IF validated THEN cache \union {m} ELSE cache
  /\ screen' = IF m \in memory THEN screen ELSE Appended(m)
  /\ UNCHANGED <<choice, denied, shown, access, before, calls>>

-----------------------------------------------------------------------------
(* init begins with the last station that the cache knows, if any, and      *)
(* loads the history.                                                       *)
Init ==
  /\ selected \in Feeds
  /\ wanted = FALSE
  /\ memory = {}
  /\ denied = FALSE
  /\ screen = {}
  /\ station \in Stations \union {None}
  /\ validated = FALSE
  /\ blocked = FALSE
  /\ cache \in SUBSET OfStation(Msgs, station)
  /\ before = [q \in Slots |-> {}]
  /\ \E q \in Slots :
       LET reads == station # None
           c == Rendering("first", selected)
       IN  /\ calls = [p \in Slots |->
                 IF p # q THEN None
                 ELSE IF reads THEN Reading(c, "reading", station, cache) ELSE c]
           /\ shown = IF reads THEN None ELSE selected

Next ==
  \/ \E q \in Slots :
       \/ Render(q) \/ Refresh(q) \/ CachedRead(q)
       \/ Answer(q) \/ Accept(q) \/ Fail(q) \/ Offline(q) \/ OfflineRead(q)
       \/ Refuse(q) \/ ChangeCredentials(q) \/ Clear(q) \/ Clearing(q)
  \/ \E m \in Msgs : Live(m)
  \/ Switch \/ ClearAll \/ Repaint

Spec == Init /\ [][Next]_vars

-----------------------------------------------------------------------------
(* Properties *)

TypeOK ==
  /\ selected \in Feeds /\ wanted \in BOOLEAN
  /\ memory \subseteq Msgs /\ cache \subseteq Msgs
  /\ shown \in Feeds \union {None} /\ screen \subseteq Msgs
  /\ station \in Stations \union {None}
  /\ {denied, validated, blocked} \subseteq BOOLEAN
  /\ calls \in [Slots -> Calls \union {None}]
  /\ before \in [Slots -> SUBSET (Readers \union Accepting)]
  /\ \A q \in Slots : before[q] # {} => q \in Readers \union Accepting

(* "A denial ... immediately clears views" (FRONTEND_MODERNIZATION_PLAN.md  *)
(* :141): until a request of the present credentials is answered, neither   *)
(* the memory nor the screen of the page holds a message, whatever reads,   *)
(* pages and live events come in (storage.js _denyAccess, _assertCacheAccess;*)
(* chat.js _clearProtectedHistory).                                         *)
BlockedShowsNothing ==
  blocked => denied /\ ~validated /\ memory = {} /\ screen = {}

(* ... and nothing goes into the cache but an answer to a request of the    *)
(* present credentials and access: transactions that accept one of the past *)
(* are aborted (storage.js _denyAccess, _accept).                           *)
BlockedCacheIsFrozen ==
  [][blocked => cache' \subseteq cache \union
       UNION {calls[q].got : q \in {p \in Accepting :
                                     calls[p].access = "current"}}]_vars

(* A message in memory stays there, whatever an older page, a cached read   *)
(* or an offline answer brings, until the operator clears it, access is     *)
(* lost, or the station is another one (chat.js renderCurrentConversation,  *)
(* mergeMessage; test_history_merges_messages_received_while_loading).      *)
MessagesStay ==
  [][memory \subseteq memory' \/ ClearAll \/ blocked' \/ station' # station
     \/ \E q \in Slots : Clear(q)]_vars

(* When nothing that paints is under way, the selected conversation, if the *)
(* page shows it, is on the screen as it is in memory: no message of        *)
(* another conversation is left there, and none that came meanwhile is      *)
(* missing (chat.js appendChatMessage, _paintConversation).                 *)
Quiet == ~wanted /\ \A q \in Slots : calls[q] # None => calls[q].kind = "list"

QuietScreenIsComplete ==
  Quiet /\ shown = selected => screen = InFeed(memory, selected)

(* "Generation/feed/credential/station guards reject obsolete rendering"    *)
(* and "cached reads also retain their station snapshot"                    *)
(* (FRONTEND_MODERNIZATION_PLAN.md:139, 141): the page holds messages of    *)
(* the validated station only.                                              *)
StationsDontMix == \A m \in memory : StationOf[m] = station
=============================================================================
