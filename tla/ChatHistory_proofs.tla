------------------------- MODULE ChatHistory_proofs -------------------------
(* Proofs about ChatHistory: for any conversations, stations, messages and  *)
(* requests, a page without access shows and caches nothing, messages stay  *)
(* in memory, and a quiet screen is what the memory holds.                  *)
EXTENDS ChatHistory, TLAPS

Waiting == Readers \union Accepting

ScalarsOK ==
  /\ selected \in Feeds /\ wanted \in BOOLEAN
  /\ memory \subseteq Msgs /\ cache \subseteq Msgs
  /\ shown \in Feeds \union {None} /\ screen \subseteq Msgs
  /\ station \in Stations \union {None}
  /\ {denied, validated, blocked} \subseteq BOOLEAN

(* A request whose access is of the past is no current render, and does not *)
(* accept anything: that is what the aborts are for.                        *)
Entitled(c) ==
  /\ c.current => c.access = "current"
  /\ c.phase = "accepting" => c.access = "current"

CallsOK ==
  /\ calls \in [Slots -> Calls \union {None}]
  /\ \A q \in Slots : calls[q] # None => Entitled(calls[q])

QueueOK ==
  /\ before \in [Slots -> SUBSET Waiting]
  /\ \A q \in Slots : before[q] # {} => q \in Waiting

(* If the screen is not what the memory holds, someone is going to paint.   *)
Painter(c) == c # None /\ c.kind # "list" /\ IsCurrent(c)

Faithful == shown = selected => screen = InFeed(memory, selected)

ScreenOK == Faithful \/ wanted \/ \E q \in Slots : Painter(calls[q])

IInv == ScalarsOK /\ CallsOK /\ QueueOK /\ BlockedShowsNothing /\ ScreenOK

(* What one step keeps. *)
FrozenStep ==
  blocked => cache' \subseteq cache \union
    UNION {calls[q].got : q \in {p \in Accepting : calls[p].access = "current"}}

StayStep ==
  \/ memory \subseteq memory' \/ ClearAll \/ blocked' \/ station' # station
  \/ \E q \in Slots : Clear(q)

Good == IInv' /\ FrozenStep /\ StayStep

-----------------------------------------------------------------------------
(* Requests *)

LEMMA CallIs ==
  ASSUME CallsOK, NEW q \in Slots, calls[q] # None
  PROVE  /\ calls[q] \in Calls /\ Entitled(calls[q])
         /\ calls[q].kind \in Kinds /\ calls[q].phase \in Phases
         /\ calls[q].feed \in Feeds \union {None} /\ calls[q].current \in BOOLEAN
         /\ calls[q].access \in {"current", "denied", "changed"}
         /\ calls[q].source \in Stations \union {None}
         /\ calls[q].got \subseteq Msgs
BY DEF CallsOK, Calls

LEMMA ListIs ==
  /\ List \in Calls /\ List # None /\ Entitled(List)
  /\ List.phase = "sent"
<1>1. List \in Calls
  BY DEF List, Calls, Kinds, Phases
<1> QED BY <1>1, CallsAssumption DEF List, Entitled

LEMMA RenderingIs ==
  ASSUME NEW kind \in {"first", "page"}, NEW f \in Feeds
  PROVE  LET c == Rendering(kind, f)
         IN  /\ c \in Calls /\ c # None /\ Entitled(c)
             /\ c.kind = kind /\ c.phase = "sent" /\ c.feed = f /\ c.current
             /\ c.access = "current"
<1>1. Rendering(kind, f) \in Calls
  BY DEF Rendering, Calls, Kinds, Phases
<1> QED BY <1>1, CallsAssumption DEF Rendering, Entitled

LEMMA ReadingIs ==
  ASSUME NEW c \in Calls, NEW phase \in {"reading", "offline"},
         NEW s \in Stations \union {None}, NEW msgs \in SUBSET Msgs, Entitled(c)
  PROVE  LET r == Reading(c, phase, s, msgs)
         IN  /\ r \in Calls /\ r # None /\ Entitled(r)
             /\ r.kind = c.kind /\ r.phase = phase /\ r.feed = c.feed
             /\ r.current = c.current /\ r.access = c.access
<1> DEFINE reader == [c EXCEPT !.phase = phase, !.source = s]
           r == [reader EXCEPT !.got = Found(reader, msgs)]
<1>1. reader \in Calls
  BY DEF Calls, Phases
<1>2. /\ reader.kind = c.kind /\ reader.phase = phase /\ reader.feed = c.feed
      /\ reader.current = c.current /\ reader.access = c.access
  BY DEF Calls
<1>3. Found(reader, msgs) \subseteq Msgs
  BY DEF Found, InFeed, OfStation
<1> HIDE DEF reader
<1>4. r \in Calls
  BY <1>1, <1>3 DEF Calls
<1>5. /\ r.kind = c.kind /\ r.phase = phase /\ r.feed = c.feed
      /\ r.current = c.current /\ r.access = c.access
  BY <1>1, <1>2 DEF Calls
<1>6. Reading(c, phase, s, msgs) = r
  BY DEF Reading, reader
<1> HIDE DEF r
<1> QED BY <1>4, <1>5, <1>6, CallsAssumption DEF Entitled

(* A request keeps all but what an action assigns: e is d but for one field. *)
Alike(d, e) ==
  e.kind = d.kind /\ e.phase = d.phase /\ e.feed = d.feed

LEMMA NotCurrent ==
  ASSUME NEW c \in Calls
  PROVE  /\ [c EXCEPT !.current = FALSE] \in Calls
         /\ ~[c EXCEPT !.current = FALSE].current
         /\ [c EXCEPT !.current = FALSE].access = c.access
         /\ Alike(c, [c EXCEPT !.current = FALSE])
BY DEF Calls, Alike

LEMMA OtherFound ==
  ASSUME NEW c \in Calls, NEW msgs \in SUBSET Msgs
  PROVE  /\ [c EXCEPT !.got = msgs] \in Calls
         /\ [c EXCEPT !.got = msgs].current = c.current
         /\ [c EXCEPT !.got = msgs].access = c.access
         /\ Alike(c, [c EXCEPT !.got = msgs])
BY DEF Calls, Alike

(* What a clear makes of a request. *)
Overtaken(c, msgs) == [c EXCEPT !.current = FALSE, !.got = msgs]

LEMMA OvertakenIs ==
  ASSUME NEW c \in Calls, NEW msgs \in SUBSET Msgs
  PROVE  /\ Overtaken(c, msgs) \in Calls /\ ~Overtaken(c, msgs).current
         /\ Overtaken(c, msgs).access = c.access /\ Alike(c, Overtaken(c, msgs))
BY DEF Calls, Alike, Overtaken

LEMMA StaleIs ==
  ASSUME NEW cs \in [Slots -> Calls \union {None}]
  PROVE  /\ Stale(cs) \in [Slots -> Calls \union {None}]
         /\ \A q \in Slots :
              /\ Stale(cs)[q] = None <=> cs[q] = None
              /\ cs[q] # None =>
                   /\ ~Stale(cs)[q].current
                   /\ Stale(cs)[q].phase = cs[q].phase
                   /\ Stale(cs)[q].kind = cs[q].kind
                   /\ Stale(cs)[q].access = cs[q].access
<1>1. ASSUME NEW q \in Slots
      PROVE  /\ Stale(cs)[q] \in Calls \union {None}
             /\ Stale(cs)[q] = None <=> cs[q] = None
             /\ cs[q] # None =>
                  /\ ~Stale(cs)[q].current
                  /\ Stale(cs)[q].phase = cs[q].phase
                  /\ Stale(cs)[q].kind = cs[q].kind
                  /\ Stale(cs)[q].access = cs[q].access
  <2>1. CASE cs[q] = None
    BY <2>1 DEF Stale
  <2>2. CASE cs[q] # None
    <3>1. cs[q] \in Calls /\ Stale(cs)[q] = [cs[q] EXCEPT !.current = FALSE]
      BY <2>2 DEF Stale
    <3> QED BY <2>2, <3>1, NotCurrent, CallsAssumption DEF Alike
  <2> QED BY <2>1, <2>2
<1>2. Stale(cs) = [q \in Slots |-> Stale(cs)[q]]
  BY DEF Stale
<1> QED BY <1>1, <1>2

LEMMA OutdatedIs ==
  ASSUME NEW cs \in [Slots -> Calls \union {None}], NEW how \in {"denied", "changed"}
  PROVE  /\ Outdated(cs, how) \in [Slots -> Calls \union {None}]
         /\ \A q \in Slots :
              /\ Outdated(cs, how)[q] = None <=> cs[q] = None
              /\ cs[q] # None =>
                   /\ Outdated(cs, how)[q].phase = cs[q].phase
                   /\ Outdated(cs, how)[q].current = cs[q].current
                   /\ Outdated(cs, how)[q].kind = cs[q].kind
<1>1. ASSUME NEW q \in Slots
      PROVE  /\ Outdated(cs, how)[q] \in Calls \union {None}
             /\ Outdated(cs, how)[q] = None <=> cs[q] = None
             /\ cs[q] # None =>
                  /\ Outdated(cs, how)[q].phase = cs[q].phase
                  /\ Outdated(cs, how)[q].current = cs[q].current
                  /\ Outdated(cs, how)[q].kind = cs[q].kind
  <2>1. CASE Outdated(cs, how)[q] = cs[q]
    BY <2>1
  <2>2. CASE Outdated(cs, how)[q] # cs[q]
    <3>1. cs[q] # None /\ cs[q] \in Calls
          /\ Outdated(cs, how)[q] = [cs[q] EXCEPT !.access = how]
      BY <2>2 DEF Outdated
    <3>2. how \in {"current", "denied", "changed"}
      OBVIOUS
    <3>3. LET d == Outdated(cs, how)[q]
          IN  d \in Calls /\ d.current = cs[q].current /\ Alike(cs[q], d)
      BY <3>1, <3>2 DEF Calls, Alike
    <3> QED BY <3>1, <3>3, CallsAssumption DEF Alike
  <2> QED BY <2>1, <2>2
<1>2. Outdated(cs, how) = [q \in Slots |-> Outdated(cs, how)[q]]
  BY DEF Outdated
<1> QED BY <1>1, <1>2

-----------------------------------------------------------------------------
(* Who waits for IndexedDB *)

InStore(c) == c # None /\ c.phase \in {"reading", "offline", "accepting"}

LEMMA WaitingIs == Waiting = {q \in Slots : InStore(calls[q])}
BY DEF Waiting, Readers, Accepting, At, InStore

LEMMA WaitingNext ==
  ASSUME NEW q \in Slots,
         \A p \in Slots \ {q} :
           /\ calls'[p] = None <=> calls[p] = None
           /\ calls[p] # None => calls'[p].phase = calls[p].phase
  PROVE  /\ InStore(calls'[q]) => Waiting' = Waiting \union {q}
         /\ ~InStore(calls'[q]) => Waiting' = Waiting \ {q}
<1>1. Waiting = {p \in Slots : InStore(calls[p])}
  BY WaitingIs
<1>2. Waiting' = {p \in Slots : InStore(calls'[p])}
  BY DEF Waiting, Readers, Accepting, At, InStore
<1>3. \A p \in Slots \ {q} : InStore(calls'[p]) <=> InStore(calls[p])
  BY DEF InStore
<1> QED BY <1>1, <1>2, <1>3

LEMMA QueueStays ==
  ASSUME QueueOK, before' = before, Waiting \subseteq Waiting'
  PROVE  QueueOK'
BY DEF QueueOK

LEMMA QueueJoins ==
  ASSUME QueueOK, NEW q \in Slots, NEW b \in SUBSET Waiting,
         before' = [before EXCEPT ![q] = b], Waiting' = Waiting \union {q}
  PROVE  QueueOK'
BY DEF QueueOK

LEMMA QueueLeaves ==
  ASSUME QueueOK, NEW q \in Slots, Ready(q), Complete(q), Waiting' = Waiting \ {q}
  PROVE  QueueOK'
BY DEF QueueOK, Ready, Complete

(* One request goes on or ends, and the others do not move. *)
LEMMA CallWrites ==
  ASSUME CallsOK, NEW q \in Slots, NEW c,
         c = None \/ (c \in Calls /\ Entitled(c)),
         calls' = [calls EXCEPT ![q] = c]
  PROVE  /\ CallsOK' /\ calls'[q] = c
         /\ InStore(c) => Waiting' = Waiting \union {q}
         /\ ~InStore(c) => Waiting' = Waiting \ {q}
<1>1. CallsOK' /\ calls'[q] = c
  BY DEF CallsOK
<1>2. \A p \in Slots \ {q} : calls'[p] = calls[p]
  BY DEF CallsOK
<1> QED BY <1>1, <1>2, WaitingNext

LEMMA RestIs ==
  ASSUME CallsOK, NEW q \in Slots, NEW refused
  PROVE  /\ Rest(q, refused) = None \/ (Rest(q, refused) \in Calls /\ Entitled(Rest(q, refused)))
         /\ ~InStore(Rest(q, refused))
BY ListIs DEF Rest, InStore

-----------------------------------------------------------------------------
(* The screen *)

LEMMA Parts ==
  ASSUME IInv
  PROVE  ScalarsOK /\ CallsOK /\ QueueOK /\ BlockedShowsNothing /\ ScreenOK
BY DEF IInv

LEMMA Painted ==
  ASSUME NEW f, NEW msgs \in SUBSET Msgs, Paint(f, msgs)
  PROVE  /\ shown' = f /\ screen' = InFeed(msgs, f) /\ screen' \subseteq Msgs
         /\ msgs = {} => screen' = {}
BY DEF Paint, InFeed

(* Nothing on the screen or in the memory moves, and a painter goes on. *)
LEMMA ScreenStays ==
  ASSUME ScreenOK, selected' = selected, wanted' = wanted, memory' = memory,
         shown' = shown, screen' = screen,
         \A q \in Slots : Painter(calls[q]) => Faithful' \/ \E p \in Slots : Painter(calls[p])'
  PROVE  ScreenOK'
BY DEF ScreenOK, Faithful

-----------------------------------------------------------------------------
(* Renders begin *)

LEMMA BeginRenderKeeps ==
  ASSUME IInv, NEW kind \in {"first", "page"}, NEW q \in Slots,
         BeginRender(kind, q), selected' = selected, wanted' \in BOOLEAN
  PROVE  Good
<1>0. ScalarsOK /\ CallsOK /\ QueueOK /\ BlockedShowsNothing /\ ScreenOK
  BY Parts
<1> DEFINE reads == InFeed(memory, selected) = {} /\ CacheAccess("current") /\ station # None
           c == Rendering(kind, selected)
           x == IF reads THEN Reading(c, "reading", station, cache) ELSE c
<1>1. /\ calls[q] = None /\ calls' = [Stale(calls) EXCEPT ![q] = x]
      /\ IF reads THEN Read(q) ELSE before' = before
      /\ Paint(selected, memory) \/ UNCHANGED view
      /\ memory' = memory /\ denied' = denied /\ UNCHANGED access /\ cache' = cache
  BY DEF BeginRender
<1>2. /\ c \in Calls /\ c # None /\ Entitled(c) /\ c.kind = kind /\ c.phase = "sent"
      /\ c.feed = selected /\ c.current /\ c.access = "current"
  BY <1>0, RenderingIs DEF ScalarsOK
<1>3. /\ x \in Calls /\ x # None /\ Entitled(x) /\ x.kind = kind /\ x.feed = selected
      /\ x.current /\ (InStore(x) <=> reads)
  <2> HIDE DEF c
  <2>1. CASE reads
    <3>1. LET r == Reading(c, "reading", station, cache)
          IN  /\ r \in Calls /\ r # None /\ Entitled(r) /\ r.kind = kind
              /\ r.phase = "reading" /\ r.feed = selected /\ r.current
      BY <1>0, <1>2, ReadingIs DEF ScalarsOK
    <3> QED BY <2>1, <3>1 DEF InStore
  <2>2. CASE ~reads
    BY <1>2, <2>2 DEF InStore
  <2> QED BY <2>1, <2>2
<1> HIDE DEF reads, c, x
<1>4. calls \in [Slots -> Calls \union {None}]
  BY <1>0 DEF CallsOK
<1>5. /\ calls' \in [Slots -> Calls \union {None}] /\ calls'[q] = x
      /\ \A p \in Slots \ {q} : calls'[p] = Stale(calls)[p]
  BY <1>1, <1>3, <1>4, StaleIs
<1>6. CallsOK'
  <2>1. ASSUME NEW p \in Slots, calls'[p] # None PROVE Entitled(calls'[p])
    <3>1. CASE p = q
      BY <1>3, <1>5, <3>1
    <3>2. CASE p # q
      BY <1>0, <1>4, <1>5, <2>1, <3>2, StaleIs DEF CallsOK, Entitled
    <3> QED BY <3>1, <3>2
  <2> QED BY <1>5, <2>1 DEF CallsOK
<1>7. q \notin Waiting /\ Accepting \subseteq Waiting
  BY <1>1, WaitingIs DEF InStore, Waiting
<1>8. QueueOK'
  <2>1. \A p \in Slots \ {q} :
          /\ calls'[p] = None <=> calls[p] = None
          /\ calls[p] # None => calls'[p].phase = calls[p].phase
    BY <1>4, <1>5, StaleIs
  <2>2. CASE reads
    <3>1. Waiting' = Waiting \union {q}
      BY <1>3, <1>5, <2>1, <2>2, WaitingNext
    <3>2. before' = [before EXCEPT ![q] = Accepting]
      BY <1>1, <2>2 DEF Read
    <3> QED BY <1>0, <1>7, <3>1, <3>2, QueueJoins
  <2>3. CASE ~reads
    <3>1. Waiting' = Waiting \ {q} /\ before' = before
      BY <1>1, <1>3, <1>5, <2>1, <2>3, WaitingNext
    <3> QED BY <1>0, <1>7, <3>1, QueueStays
  <2> QED BY <2>2, <2>3
<1>9. ScalarsOK' /\ BlockedShowsNothing'
  <2>1. /\ shown' \in Feeds \union {None} /\ screen' \subseteq Msgs
        /\ memory = {} /\ screen = {} => screen' = {}
    <3>1. CASE Paint(selected, memory)
      BY <1>0, <3>1, Painted DEF ScalarsOK
    <3>2. CASE UNCHANGED view
      BY <1>0, <3>2 DEF view, ScalarsOK
    <3> QED BY <1>1, <3>1, <3>2
  <2> QED BY <1>0, <1>1, <2>1 DEF ScalarsOK, BlockedShowsNothing, access
<1>10. ScreenOK'
  <2>1. Painter(calls[q])'
    BY <1>3, <1>5 DEF Painter, IsCurrent
  <2> QED BY <2>1 DEF ScreenOK
<1>11. FrozenStep /\ StayStep
  BY <1>1 DEF FrozenStep, StayStep
<1> QED BY <1>6, <1>8, <1>9, <1>10, <1>11 DEF Good, IInv

LEMMA RenderKeeps ==
  ASSUME IInv, NEW q \in Slots, Render(q) \/ Refresh(q)
  PROVE  Good
BY BeginRenderKeeps, Parts DEF Render, Refresh, choice, ScalarsOK

(* A paint of what the memory holds then is faithful. *)
LEMMA PaintIsFaithful ==
  ASSUME NEW f, Paint(f, memory')
  PROVE  Faithful'
BY DEF Paint, Faithful

LEMMA CachedReadKeeps ==
  ASSUME IInv, NEW q \in Slots, CachedRead(q)
  PROVE  Good
<1>0. ScalarsOK /\ CallsOK /\ QueueOK /\ BlockedShowsNothing /\ ScreenOK
  BY Parts
<1> DEFINE c == calls[q]
           d == [c EXCEPT !.phase = "sent", !.access = "current", !.source = None,
                          !.got = {}]
           taken == InFeed(memory, c.feed) = {} /\ IsCurrent(c) /\ CacheAccess(c.access)
<1>1. /\ At(q, "reading") /\ Ready(q) /\ Complete(q)
      /\ memory' = IF taken THEN memory \union c.got ELSE memory
      /\ \/ Paint(c.feed, memory')
         \/ ~taken /\ UNCHANGED view
      /\ calls' = [calls EXCEPT ![q] = d]
      /\ UNCHANGED choice /\ denied' = denied /\ UNCHANGED access /\ cache' = cache
  BY DEF CachedRead
<1>2. c # None /\ c \in Calls /\ c.got \subseteq Msgs /\ c.feed \in Feeds \union {None}
  BY <1>0, <1>1, CallIs DEF At
<1>3. /\ d \in Calls /\ d.phase = "sent" /\ d.access = "current"
      /\ d.kind = c.kind /\ d.feed = c.feed /\ d.current = c.current
  BY <1>2 DEF Calls, Phases
<1>4. d # None /\ Entitled(d) /\ ~InStore(d)
  BY <1>3, CallsAssumption DEF Entitled, InStore
<1>5. blocked => ~taken
  BY DEF CacheAccess
<1> HIDE DEF d, taken
<1>6. CallsOK' /\ calls'[q] = d /\ Waiting' = Waiting \ {q}
  BY <1>0, <1>1, <1>3, <1>4, CallWrites
<1>7. QueueOK'
  BY <1>0, <1>1, <1>6, QueueLeaves
<1>8. memory' \in SUBSET Msgs /\ memory \subseteq memory'
  BY <1>0, <1>1, <1>2 DEF ScalarsOK
<1>9. /\ shown' \in Feeds \union {None} /\ screen' \subseteq Msgs
      /\ memory' = {} /\ screen = {} => screen' = {}
  <2>1. CASE Paint(c.feed, memory')
    BY <1>2, <1>8, <2>1 DEF Paint, InFeed
  <2>2. CASE UNCHANGED view
    BY <1>0, <2>2 DEF view, ScalarsOK
  <2> QED BY <1>1, <2>1, <2>2
<1>10. ScalarsOK'
  BY <1>0, <1>1, <1>8, <1>9 DEF ScalarsOK, choice, access
<1>11. BlockedShowsNothing'
  BY <1>0, <1>1, <1>5, <1>9 DEF BlockedShowsNothing, access
<1>12. ScreenOK'
  <2>1. CASE Paint(c.feed, memory')
    BY <2>1, PaintIsFaithful DEF ScreenOK
  <2>2. CASE ~taken /\ UNCHANGED view
    <3>1. /\ selected' = selected /\ wanted' = wanted /\ memory' = memory
          /\ shown' = shown /\ screen' = screen
      BY <1>1, <2>2 DEF choice, view
    <3>2. ASSUME NEW p \in Slots, Painter(calls[p]) PROVE Painter(calls[p])'
      <4>1. CASE p = q
        BY <1>3, <1>4, <1>6, <3>1, <3>2, <4>1 DEF Painter, IsCurrent
      <4>2. CASE p # q
        BY <1>0, <1>1, <3>1, <3>2, <4>2 DEF Painter, IsCurrent, CallsOK
      <4> QED BY <4>1, <4>2
    <3> QED BY <1>0, <3>1, <3>2, ScreenStays
  <2> QED BY <1>1, <2>1, <2>2
<1>13. FrozenStep /\ StayStep
  BY <1>1, <1>8 DEF FrozenStep, StayStep
<1> QED BY <1>6, <1>7, <1>10, <1>11, <1>12, <1>13 DEF Good, IInv

-----------------------------------------------------------------------------
(* Answers *)

(* A step of one request that neither paints nor changes the memory; the    *)
(* request stays what it is for the screen.                                 *)
LEMMA QuietStep ==
  ASSUME IInv, NEW q \in Slots, NEW d, calls[q] # None,
         d \in Calls, Entitled(d), d.kind = calls[q].kind, d.feed = calls[q].feed,
         d.current = calls[q].current, calls' = [calls EXCEPT ![q] = d],
         UNCHANGED <<choice, memory, denied, view, access, cache>>, QueueOK'
  PROVE  Good
<1>0. ScalarsOK /\ CallsOK /\ QueueOK /\ BlockedShowsNothing /\ ScreenOK
  BY Parts
<1>1. CallsOK' /\ calls'[q] = d /\ d # None
  BY <1>0, CallWrites, CallsAssumption
<1>2. /\ selected' = selected /\ wanted' = wanted /\ memory' = memory
      /\ shown' = shown /\ screen' = screen /\ denied' = denied /\ cache' = cache
      /\ station' = station /\ validated' = validated /\ blocked' = blocked
  BY DEF choice, view, access
<1>3. ScalarsOK' /\ BlockedShowsNothing'
  BY <1>0, <1>2 DEF ScalarsOK, BlockedShowsNothing
<1>4. ScreenOK'
  <2>1. ASSUME NEW p \in Slots, Painter(calls[p]) PROVE Painter(calls[p])'
    <3>1. CASE p = q
      BY <1>1, <1>2, <2>1, <3>1 DEF Painter, IsCurrent
    <3>2. CASE p # q
      BY <1>0, <1>2, <2>1, <3>2 DEF Painter, IsCurrent, CallsOK
    <3> QED BY <3>1, <3>2
  <2> QED BY <1>0, <1>2, <2>1, ScreenStays
<1>5. FrozenStep /\ StayStep
  BY <1>2 DEF FrozenStep, StayStep
<1> QED BY <1>1, <1>3, <1>4, <1>5 DEF Good, IInv

LEMMA AnswerKeeps ==
  ASSUME IInv, NEW q \in Slots, Answer(q)
  PROVE  Good
<1>0. ScalarsOK /\ CallsOK /\ QueueOK
  BY Parts
<1>1. PICK s \in Stations : \E found \in SUBSET InFeed(OfStation(Msgs, s), calls[q].feed) :
        calls' = [calls EXCEPT ![q].phase = "accepting", ![q].source = s, ![q].got = found]
  BY Zenon DEF Answer
<1>2. PICK found \in SUBSET InFeed(OfStation(Msgs, s), calls[q].feed) :
        calls' = [calls EXCEPT ![q].phase = "accepting", ![q].source = s, ![q].got = found]
  BY <1>1
<1>3. /\ At(q, "sent") /\ calls[q].access = "current" /\ Write(q)
      /\ UNCHANGED <<choice, memory, denied, view, access, cache>>
  BY DEF Answer
<1> DEFINE d == [calls[q] EXCEPT !.phase = "accepting", !.source = s, !.got = found]
<1>4. calls[q] # None /\ calls[q] \in Calls /\ found \subseteq Msgs /\ calls[q].phase = "sent"
  BY <1>0, <1>3, CallIs DEF At, InFeed, OfStation
<1>5. /\ d \in Calls /\ d.kind = calls[q].kind /\ d.feed = calls[q].feed
      /\ d.current = calls[q].current /\ d.access = "current" /\ d.phase = "accepting"
  BY <1>3, <1>4 DEF Calls, Phases
<1>6. calls' = [calls EXCEPT ![q] = d]
  BY <1>2
<1> HIDE DEF d
<1>7. d # None /\ Entitled(d) /\ InStore(d)
  BY <1>5, CallsAssumption DEF Entitled, InStore
<1>8. Waiting' = Waiting \union {q}
  BY <1>0, <1>5, <1>6, <1>7, CallWrites
<1>9. QueueOK'
  <2>1. before' = [before EXCEPT ![q] = Waiting]
    BY <1>3 DEF Write, Waiting
  <2> QED BY <1>0, <1>8, <2>1, QueueJoins
<1> QED BY <1>3, <1>4, <1>5, <1>6, <1>7, <1>9, QuietStep

(* A request ends: the page of the selected conversation is painted, or the *)
(* request is not one that will.                                            *)
LEMMA EndStep ==
  ASSUME IInv, NEW q \in Slots, calls[q] # None, ~InStore(calls[q]) \/ Ready(q),
         NEW d, d = None \/ (d \in Calls /\ Entitled(d)), ~InStore(d),
         calls' = [calls EXCEPT ![q] = d],
         \/ ~InStore(calls[q]) /\ before' = before
         \/ Complete(q),
         UNCHANGED choice, UNCHANGED access, cache' = cache,
         memory' \in SUBSET Msgs, memory \subseteq memory' \/ blocked, denied' \in BOOLEAN,
         Paint(selected, memory') \/ (~IsCurrent(calls[q]) /\ UNCHANGED <<view, memory>>),
         blocked => denied' = TRUE /\ memory' = {}
  PROVE  Good
<1>0. ScalarsOK /\ CallsOK /\ QueueOK /\ BlockedShowsNothing /\ ScreenOK
  BY Parts
<1>1. /\ CallsOK' /\ Waiting' = Waiting \ {q}
  BY <1>0, CallWrites
<1>2. QueueOK'
  <2>1. CASE ~InStore(calls[q])
    <3>1. q \notin Waiting
      BY <2>1, WaitingIs
    <3>2. before[q] = {} /\ \A p \in Slots : before[p] \subseteq Waiting
      BY <1>0, <3>1 DEF QueueOK
    <3>3. CASE before' = before
      BY <1>0, <1>1, <3>1, <3>3, QueueStays
    <3>4. CASE Complete(q)
      BY <1>0, <1>1, <3>2, <3>4, QueueLeaves DEF Ready
    <3> QED BY <3>3, <3>4
  <2>2. CASE InStore(calls[q])
    BY <1>0, <1>1, <2>2, QueueLeaves
  <2> QED BY <2>1, <2>2
<1>3. /\ selected' = selected /\ wanted' = wanted /\ cache' = cache
      /\ station' = station /\ validated' = validated /\ blocked' = blocked
  BY DEF choice, access
<1>4. /\ shown' \in Feeds \union {None} /\ screen' \subseteq Msgs
      /\ memory' = {} /\ screen = {} => screen' = {}
  <2>1. CASE Paint(selected, memory')
    BY <1>0, <2>1 DEF Paint, InFeed, ScalarsOK
  <2>2. CASE UNCHANGED <<view, memory>>
    BY <1>0, <2>2 DEF view, ScalarsOK
  <2> QED BY <2>1, <2>2
<1>5. ScalarsOK' /\ BlockedShowsNothing'
  BY <1>0, <1>3, <1>4 DEF ScalarsOK, BlockedShowsNothing
<1>6. ScreenOK'
  <2>1. CASE Paint(selected, memory')
    BY <2>1, PaintIsFaithful DEF ScreenOK
  <2>2. CASE ~IsCurrent(calls[q]) /\ UNCHANGED <<view, memory>>
    <3>1. memory' = memory /\ shown' = shown /\ screen' = screen
      BY <2>2 DEF view
    <3>2. ASSUME NEW p \in Slots, Painter(calls[p]) PROVE Painter(calls[p])'
      <4>1. p # q
        BY <2>2, <3>2 DEF Painter
      <4> QED BY <1>0, <1>3, <3>2, <4>1 DEF Painter, IsCurrent, CallsOK
    <3> QED BY <1>0, <1>3, <3>1, <3>2, ScreenStays
  <2> QED BY <2>1, <2>2
<1>7. FrozenStep /\ StayStep
  BY <1>3 DEF FrozenStep, StayStep
<1> QED BY <1>1, <1>2, <1>5, <1>6, <1>7 DEF Good, IInv

LEMMA FailKeeps ==
  ASSUME IInv, NEW q \in Slots, Fail(q)
  PROVE  Good
<1>0. ScalarsOK /\ CallsOK /\ QueueOK /\ BlockedShowsNothing
  BY Parts
<1>1. /\ At(q, "sent") /\ UNCHANGED <<choice, memory, denied, access, cache, before>>
      /\ calls' = [calls EXCEPT ![q] = Rest(q, denied)]
      /\ IF IsCurrent(calls[q]) THEN Paint(selected, memory) ELSE UNCHANGED view
  BY DEF Fail
<1>2. calls[q] # None /\ ~InStore(calls[q])
  BY <1>1 DEF At, InStore
<1>3. /\ memory' = memory /\ denied' = denied /\ before' = before /\ cache' = cache
      /\ UNCHANGED choice /\ UNCHANGED access
  BY <1>1
<1>4. /\ memory' \in SUBSET Msgs /\ denied' \in BOOLEAN
      /\ blocked => denied' = TRUE /\ memory' = {}
  BY <1>0, <1>3 DEF ScalarsOK, BlockedShowsNothing
<1>5. Paint(selected, memory') \/ (~IsCurrent(calls[q]) /\ UNCHANGED <<view, memory>>)
  BY <1>1, <1>3
<1> QED BY <1>0, <1>1, <1>2, <1>3, <1>4, <1>5, RestIs, EndStep

LEMMA OfflineKeeps ==
  ASSUME IInv, NEW q \in Slots, Offline(q)
  PROVE  Good
<1>0. ScalarsOK /\ CallsOK /\ QueueOK /\ BlockedShowsNothing
  BY Parts
<1> DEFINE c == calls[q]
           reads == c.access = "current" /\ CacheAccess("current")
<1>1. At(q, "sent") /\ UNCHANGED choice /\ UNCHANGED access /\ cache' = cache
  BY DEF Offline
<1>2. c # None /\ c \in Calls /\ Entitled(c) /\ ~InStore(c)
  BY <1>0, <1>1, CallIs DEF At, InStore
<1>3. CacheAccess("current") <=> ~blocked
  BY DEF CacheAccess
<1>4. CASE reads /\ c.kind # "list" /\ station # None
  <2> DEFINE d == Reading(c, "offline", station, cache)
  <2>1. calls' = [calls EXCEPT ![q] = d] /\ Read(q) /\ UNCHANGED <<memory, denied, view>>
    BY <1>4 DEF Offline
  <2>2. /\ d \in Calls /\ d # None /\ Entitled(d)
        /\ d.kind = c.kind /\ d.phase = "offline" /\ d.feed = c.feed
        /\ d.current = c.current
    BY <1>0, <1>2, ReadingIs DEF ScalarsOK
  <2> HIDE DEF d
  <2>3. InStore(d)
    BY <2>2 DEF InStore
  <2>4. Waiting' = Waiting \union {q}
    BY <1>0, <2>1, <2>2, <2>3, CallWrites
  <2>5. before' = [before EXCEPT ![q] = Accepting] /\ Accepting \subseteq Waiting
    BY <2>1 DEF Read, Waiting
  <2>6. QueueOK'
    BY <1>0, <2>4, <2>5, QueueJoins
  <2> QED BY <1>1, <1>2, <2>1, <2>2, <2>6, QuietStep
<1>5. CASE ~(reads /\ c.kind # "list" /\ station # None)
  <2>1. /\ calls' = [calls EXCEPT ![q] = Rest(q, denied')] /\ before' = before
        /\ \/ ~IsCurrent(c) /\ UNCHANGED <<memory, denied, view>>
           \/ IsCurrent(c) /\ ~reads /\ memory' = {} /\ denied' = TRUE /\ Paint(selected, {})
           \/ IsCurrent(c) /\ reads /\ Show(c, {}, memory)
    BY <1>5 DEF Offline
  <2>2. /\ memory' \in SUBSET Msgs
        /\ memory \subseteq memory' \/ blocked
        /\ denied' \in BOOLEAN
        /\ Paint(selected, memory') \/ (~IsCurrent(c) /\ UNCHANGED <<view, memory>>)
        /\ blocked => denied' = TRUE /\ memory' = {}
    <3>1. CASE ~IsCurrent(c) /\ UNCHANGED <<memory, denied, view>>
      BY <1>0, <3>1 DEF ScalarsOK, BlockedShowsNothing
    <3>2. CASE IsCurrent(c) /\ ~reads /\ memory' = {} /\ denied' = TRUE /\ Paint(selected, {})
      <4>1. blocked
        BY <1>2, <1>3, <3>2 DEF IsCurrent, Entitled
      <4> QED BY <3>2, <4>1
    <3>3. CASE IsCurrent(c) /\ reads /\ Show(c, {}, memory)
      <4>1. memory' = memory /\ denied' = FALSE /\ Paint(c.feed, memory') /\ c.feed = selected
        BY <3>3 DEF Show, Merged, IsCurrent
      <4> QED BY <1>0, <1>3, <3>3, <4>1 DEF ScalarsOK
    <3> QED BY <2>1, <3>1, <3>2, <3>3
  <2>3. /\ Rest(q, denied') = None \/ (Rest(q, denied') \in Calls /\ Entitled(Rest(q, denied')))
        /\ ~InStore(Rest(q, denied'))
    BY <1>0, RestIs
  <2> QED BY <1>1, <1>2, <2>1, <2>2, <2>3, EndStep
<1> QED BY <1>4, <1>5

LEMMA OfflineReadKeeps ==
  ASSUME IInv, NEW q \in Slots, OfflineRead(q)
  PROVE  Good
<1>0. ScalarsOK /\ CallsOK /\ QueueOK /\ BlockedShowsNothing
  BY Parts
<1> DEFINE c == calls[q]
           reads == c.access = "current" /\ CacheAccess("current") /\ c.source = station
<1>1. /\ At(q, "offline") /\ Ready(q) /\ Complete(q)
      /\ UNCHANGED choice /\ UNCHANGED access /\ cache' = cache
      /\ calls' = [calls EXCEPT ![q] = Rest(q, denied')]
      /\ \/ ~IsCurrent(c) /\ UNCHANGED <<memory, denied, view>>
         \/ IsCurrent(c) /\ reads /\ Show(c, c.got, memory)
         \/ IsCurrent(c) /\ Paint(selected, memory) /\ UNCHANGED <<memory, denied>>
  BY DEF OfflineRead
<1>2. c # None /\ c.got \subseteq Msgs
  BY <1>0, <1>1, CallIs DEF At
<1>3. reads => ~blocked
  BY DEF CacheAccess
<1> HIDE DEF reads
<1>4. /\ memory' \in SUBSET Msgs /\ memory \subseteq memory'
      /\ denied' \in BOOLEAN
      /\ Paint(selected, memory') \/ (~IsCurrent(c) /\ UNCHANGED <<view, memory>>)
      /\ blocked => denied' = TRUE /\ memory' = {}
  <2>1. CASE ~IsCurrent(c) /\ UNCHANGED <<memory, denied, view>>
    BY <1>0, <2>1 DEF ScalarsOK, BlockedShowsNothing
  <2>2. CASE IsCurrent(c) /\ reads /\ Show(c, c.got, memory)
    <3>1. /\ memory' = memory \union c.got /\ denied' = FALSE
          /\ Paint(c.feed, memory') /\ c.feed = selected
      BY <2>2 DEF Show, Merged, IsCurrent
    <3> QED BY <1>0, <1>2, <1>3, <2>2, <3>1 DEF ScalarsOK
  <2>3. CASE IsCurrent(c) /\ Paint(selected, memory) /\ UNCHANGED <<memory, denied>>
    BY <1>0, <2>3 DEF ScalarsOK, BlockedShowsNothing
  <2> QED BY <1>1, <2>1, <2>2, <2>3
<1>5. /\ Rest(q, denied') = None \/ (Rest(q, denied') \in Calls /\ Entitled(Rest(q, denied')))
      /\ ~InStore(Rest(q, denied'))
  BY <1>0, RestIs
<1> QED BY <1>1, <1>2, <1>4, <1>5, EndStep

LEMMA ClearingKeeps ==
  ASSUME IInv, NEW q \in Slots, Clearing(q)
  PROVE  Good
<1>0. ScalarsOK /\ BlockedShowsNothing
  BY Parts
<1>1. /\ calls[q] # None /\ ~InStore(calls[q]) /\ ~InStore(None)
      /\ UNCHANGED <<choice, memory, denied, access, cache, before>>
      /\ calls' = [calls EXCEPT ![q] = None]
      /\ IF IsCurrent(calls[q]) THEN Paint(selected, memory) ELSE UNCHANGED view
  BY DEF Clearing, At, InStore
<1>2. /\ memory' = memory /\ denied' = denied /\ before' = before /\ cache' = cache
      /\ UNCHANGED choice /\ UNCHANGED access
  BY <1>1
<1>3. /\ memory' \in SUBSET Msgs /\ denied' \in BOOLEAN
      /\ blocked => denied' = TRUE /\ memory' = {}
  BY <1>0, <1>2 DEF ScalarsOK, BlockedShowsNothing
<1>4. Paint(selected, memory') \/ (~IsCurrent(calls[q]) /\ UNCHANGED <<view, memory>>)
  BY <1>1, <1>2
<1> QED BY <1>1, <1>2, <1>3, <1>4, EndStep

(* Every request keeps its kind, phase, conversation and rights. *)
LEMMA CallsKept ==
  ASSUME CallsOK, DOMAIN calls' = Slots, calls' = [p \in Slots |-> calls'[p]],
         NEW q \in Slots,
         \A p \in Slots \ {q} :
           \/ calls[p] = None /\ calls'[p] = None
           \/ /\ calls[p] # None /\ calls'[p] \in Calls /\ Alike(calls[p], calls'[p])
              /\ calls'[p].access = calls[p].access
              /\ calls'[p].current \in {calls[p].current, FALSE},
         calls'[q] = None \/ (calls'[q] \in Calls /\ Entitled(calls'[q]))
  PROVE  /\ CallsOK'
         /\ InStore(calls'[q]) => Waiting' = Waiting \union {q}
         /\ ~InStore(calls'[q]) => Waiting' = Waiting \ {q}
<1>1. ASSUME NEW p \in Slots
      PROVE  /\ calls'[p] \in Calls \union {None}
             /\ calls'[p] # None => Entitled(calls'[p])
  <2>1. CASE p = q
    BY <2>1
  <2>2. CASE p # q
    <3>1. CASE calls[p] = None /\ calls'[p] = None
      BY <3>1
    <3>2. CASE /\ calls[p] # None /\ calls'[p] \in Calls /\ Alike(calls[p], calls'[p])
               /\ calls'[p].access = calls[p].access
               /\ calls'[p].current \in {calls[p].current, FALSE}
      <4>1. Entitled(calls[p])
        BY <3>2, CallIs
      <4> QED BY <3>2, <4>1 DEF Entitled, Alike
    <3> QED BY <2>2, <3>1, <3>2
  <2> QED BY <2>1, <2>2
<1>2. CallsOK'
  BY <1>1 DEF CallsOK
<1>3. \A p \in Slots \ {q} :
        /\ calls'[p] = None <=> calls[p] = None
        /\ calls[p] # None => calls'[p].phase = calls[p].phase
  <2> SUFFICES ASSUME NEW p \in Slots \ {q}
               PROVE  /\ calls'[p] = None <=> calls[p] = None
                      /\ calls[p] # None => calls'[p].phase = calls[p].phase
    OBVIOUS
  <2> QED BY CallsAssumption DEF Alike
<1> QED BY <1>2, <1>3, WaitingNext

LEMMA AcceptKeeps ==
  ASSUME IInv, NEW q \in Slots, Accept(q)
  PROVE  Good
<1>0. ScalarsOK /\ CallsOK /\ QueueOK /\ BlockedShowsNothing /\ ScreenOK
  BY Parts
<1> DEFINE c == calls[q]
           kept == IF c.source = station THEN memory ELSE {}
           accepts == c.kind # "list" /\ IsCurrent(c)
<1>1. /\ At(q, "accepting") /\ Ready(q) /\ Complete(q) /\ UNCHANGED choice
      /\ cache' = cache \union c.got /\ station' = c.source
      /\ validated' = TRUE /\ blocked' = FALSE
      /\ \/ accepts /\ Show(c, c.got, kept)
         \/ /\ ~accepts /\ memory' = kept /\ denied' = denied
            /\ IF c.source = station THEN UNCHANGED view ELSE Paint(selected, {})
      /\ calls' = [p \in Slots |->
           IF p = q THEN Rest(q, denied')
           ELSE IF p \in Readers
             THEN [calls[p] EXCEPT !.got = calls[p].got \union Found(calls[p], calls[q].got)]
             ELSE calls[p]]
  BY DEF Accept
<1>2. /\ c # None /\ c \in Calls /\ Entitled(c) /\ c.got \subseteq Msgs
      /\ c.feed \in Feeds \union {None} /\ c.source \in Stations \union {None}
      /\ c.phase = "accepting"
  BY <1>0, <1>1, CallIs DEF At
<1>3. kept \subseteq Msgs /\ (c.source = station => kept = memory)
      /\ (c.source # station => kept = {})
  BY <1>0 DEF ScalarsOK
<1> HIDE DEF kept, accepts
<1>4. ASSUME NEW p \in Slots \ {q}
      PROVE  \/ calls[p] = None /\ calls'[p] = None
             \/ /\ calls[p] # None /\ calls'[p] \in Calls /\ Alike(calls[p], calls'[p])
                /\ calls'[p].access = calls[p].access
                /\ calls'[p].current = calls[p].current
  <2>1. CASE p \in Readers
    <3> DEFINE msgs == calls[p].got \union Found(calls[p], calls[q].got)
    <3>1. calls[p] # None /\ calls[p] \in Calls
      BY <1>0, <2>1, CallIs DEF Readers, At
    <3>2. msgs \in SUBSET Msgs
      BY <1>0, <1>2, <3>1, CallIs DEF Found, InFeed, OfStation
    <3>3. calls'[p] = [calls[p] EXCEPT !.got = msgs]
      BY <1>1, <2>1
    <3> HIDE DEF msgs
    <3> QED BY <3>1, <3>2, <3>3, OtherFound
  <2>2. CASE p \notin Readers
    <3>1. calls'[p] = calls[p]
      BY <1>1, <2>2
    <3> QED BY <1>0, <3>1, CallIs DEF Alike
  <2> QED BY <2>1, <2>2
<1>5. /\ CallsOK' /\ Waiting' = Waiting \ {q}
  <2>1. calls'[q] = Rest(q, denied') /\ calls' = [p \in Slots |-> calls'[p]] /\ DOMAIN calls' = Slots
    BY <1>1
  <2>2. /\ Rest(q, denied') = None \/ (Rest(q, denied') \in Calls /\ Entitled(Rest(q, denied')))
        /\ ~InStore(Rest(q, denied'))
    BY <1>0, RestIs
  <2> QED BY <1>0, <1>4, <2>1, <2>2, CallsKept
<1>6. QueueOK'
  BY <1>0, <1>1, <1>5, QueueLeaves
<1>7. memory' \subseteq Msgs /\ denied' \in BOOLEAN /\ kept \subseteq memory'
  <2>1. CASE accepts /\ Show(c, c.got, kept)
    BY <1>2, <1>3, <2>1 DEF Show, Merged
  <2>2. CASE ~accepts /\ memory' = kept /\ denied' = denied
    BY <1>0, <1>3, <2>2 DEF ScalarsOK
  <2> QED BY <1>1, <2>1, <2>2
<1>8. \/ Paint(c.feed, memory') \/ (Paint(selected, {}) /\ memory' = {})
      \/ ~accepts /\ UNCHANGED view /\ memory' = memory
  BY <1>1, <1>3 DEF Show
<1>9. shown' \in Feeds \union {None} /\ screen' \subseteq Msgs
  BY <1>0, <1>2, <1>7, <1>8 DEF Paint, InFeed, view, ScalarsOK
<1>10. ScalarsOK' /\ BlockedShowsNothing'
  BY <1>0, <1>1, <1>2, <1>7, <1>9 DEF ScalarsOK, BlockedShowsNothing, choice
<1>11. ScreenOK'
  <2>1. CASE Paint(c.feed, memory') \/ (Paint(selected, {}) /\ memory' = {})
    BY <2>1, PaintIsFaithful DEF ScreenOK
  <2>2. CASE ~accepts /\ UNCHANGED view /\ memory' = memory
    <3>1. /\ selected' = selected /\ wanted' = wanted /\ memory' = memory
          /\ shown' = shown /\ screen' = screen
      BY <1>1, <2>2 DEF choice, view
    <3>2. ASSUME NEW p \in Slots, Painter(calls[p]) PROVE Painter(calls[p])'
      <4>1. p # q
        BY <2>2, <3>2 DEF Painter, accepts
      <4>2. calls'[p] # None /\ Alike(calls[p], calls'[p]) /\ calls'[p].current = calls[p].current
        BY <1>4, <3>2, <4>1, CallsAssumption DEF Painter
      <4> QED BY <3>1, <3>2, <4>2 DEF Painter, IsCurrent, Alike
    <3> QED BY <1>0, <3>1, <3>2, ScreenStays
  <2> QED BY <1>8, <2>1, <2>2
<1>12. FrozenStep
  BY <1>1, <1>2 DEF FrozenStep, Accepting, Entitled
<1>13. StayStep
  BY <1>1, <1>3, <1>7 DEF StayStep
<1> QED BY <1>5, <1>6, <1>10, <1>11, <1>12, <1>13 DEF Good, IInv

-----------------------------------------------------------------------------
(* Loss of access: requests of the past, with d in the place of one. *)
LEMMA LossKeeps ==
  ASSUME IInv, NEW how \in {"denied", "changed"}, NEW q \in Slots, NEW d,
         d = None \/ (d \in Calls /\ Entitled(d)), ~InStore(d),
         Aborted(calls)[q] = None \/ ~InStore(calls[q]),
         calls' = [Outdated(Stale(Aborted(calls)), how) EXCEPT ![q] = d],
         LoseAccess
  PROVE  Good
<1>0. ScalarsOK /\ CallsOK /\ QueueOK
  BY Parts
<1> DEFINE a == Aborted(calls)
           s == Stale(a)
           o == Outdated(s, how)
<1>1. /\ a \in [Slots -> Calls \union {None}]
      /\ \A p \in Slots : a[p] = IF p \in Accepting THEN None ELSE calls[p]
  BY <1>0 DEF Aborted, CallsOK
<1> HIDE DEF a
<1>2. /\ s \in [Slots -> Calls \union {None}]
      /\ \A p \in Slots : /\ s[p] = None <=> a[p] = None
                          /\ a[p] # None => ~s[p].current /\ s[p].phase = a[p].phase
  BY <1>1, StaleIs
<1> HIDE DEF s
<1>3. /\ o \in [Slots -> Calls \union {None}]
      /\ \A p \in Slots : /\ o[p] = None <=> s[p] = None
                          /\ s[p] # None => /\ o[p].current = s[p].current
                                            /\ o[p].phase = s[p].phase
  BY <1>2, OutdatedIs
<1>4. calls' = [o EXCEPT ![q] = d]
  BY DEF o, s, a
<1> HIDE DEF o
<1>5. \A p \in Slots : o[p] # None =>
        ~o[p].current /\ o[p].phase = calls[p].phase /\ p \notin Accepting /\ calls[p] # None
  BY <1>1, <1>2, <1>3
<1>6. \A p \in Slots : o[p] # None => Entitled(o[p])
  BY <1>5 DEF Entitled, Accepting, At
<1>7. CallsOK'
  BY <1>3, <1>4, <1>6 DEF CallsOK
<1>8. Waiting' = Waiting \ Accepting
  <2>1. Waiting = {p \in Slots : InStore(calls[p])}
    BY WaitingIs
  <2>2. Waiting' = {p \in Slots : InStore(calls'[p])}
    BY DEF Waiting, Readers, Accepting, At, InStore
  <2>3. ASSUME NEW p \in Slots PROVE InStore(o[p]) <=> InStore(calls[p]) /\ p \notin Accepting
    <3>1. CASE o[p] # None
      BY <1>5, <3>1 DEF InStore
    <3>2. CASE o[p] = None
      BY <1>1, <1>2, <1>3, <3>2 DEF InStore
    <3> QED BY <3>1, <3>2
  <2>4. ~(InStore(calls[q]) /\ q \notin Accepting)
    BY <1>1 DEF a, InStore
  <2>5. \A p \in Slots : InStore(calls'[p]) <=> InStore(calls[p]) /\ p \notin Accepting
    BY <1>3, <1>4, <2>3, <2>4
  <2> QED BY <2>1, <2>2, <2>5
<1>9. QueueOK'
  <2>1. before' = [p \in Slots |-> IF p \in Accepting THEN {} ELSE before[p] \ Accepting]
    BY DEF LoseAccess
  <2> QED BY <1>0, <1>8, <2>1 DEF QueueOK
<1>10. /\ \/ cache' = cache
          \/ \E p \in Accepting : cache' = cache \union calls[p].got
       /\ memory' = {} /\ denied' = TRUE /\ validated' = FALSE /\ blocked' = TRUE
       /\ Paint(selected, {}) /\ selected' = selected /\ wanted' = wanted
       /\ station' = station
  BY DEF LoseAccess, choice
<1>11. cache' \subseteq Msgs
  BY <1>0, <1>10, CallIs DEF Accepting, At, ScalarsOK
<1>12. shown' = selected /\ screen' = {}
  BY <1>10 DEF Paint, InFeed
<1>13. ScalarsOK' /\ BlockedShowsNothing'
  BY <1>0, <1>10, <1>11, <1>12 DEF ScalarsOK, BlockedShowsNothing
<1>14. ScreenOK'
  BY <1>10, PaintIsFaithful DEF ScreenOK
<1>15. FrozenStep /\ StayStep
  <2>1. \A p \in Accepting : calls[p].access = "current"
    BY <1>0, CallIs DEF Accepting, At, Entitled
  <2> QED BY <1>10, <2>1 DEF FrozenStep, StayStep
<1> QED BY <1>7, <1>9, <1>13, <1>14, <1>15 DEF Good, IInv

LEMMA RefuseKeeps ==
  ASSUME IInv, NEW q \in Slots, Refuse(q)
  PROVE  Good
<1>1. ~InStore(calls[q]) /\ ~InStore(None)
  BY DEF Refuse, At, InStore
<1>2. /\ calls' = [Outdated(Stale(Aborted(calls)), "denied") EXCEPT ![q] = None]
      /\ LoseAccess
  BY DEF Refuse
<1> QED BY <1>1, <1>2, LossKeeps

LEMMA ChangeCredentialsKeeps ==
  ASSUME IInv, NEW q \in Slots, ChangeCredentials(q)
  PROVE  Good
<1> DEFINE d == Rendering("first", selected)
<1>1. d \in Calls /\ Entitled(d) /\ ~InStore(d)
  <2>1. selected \in Feeds
    BY Parts DEF ScalarsOK
  <2> QED BY <2>1, RenderingIs DEF InStore
<1>2. /\ calls' = [Outdated(Stale(Aborted(calls)), "changed") EXCEPT ![q] = d]
      /\ LoseAccess /\ Aborted(calls)[q] = None
  BY DEF ChangeCredentials
<1> HIDE DEF d
<1> QED BY <1>1, <1>2, LossKeeps

-----------------------------------------------------------------------------
(* The operator, and live events *)

LEMMA SwitchKeeps ==
  ASSUME IInv, Switch
  PROVE  Good
<1>0. ScalarsOK /\ CallsOK /\ QueueOK /\ BlockedShowsNothing
  BY Parts
<1>1. /\ selected' \in Feeds /\ wanted' = TRUE /\ memory' = memory /\ denied' = denied
      /\ shown' = shown /\ screen' = screen /\ cache' = cache /\ before' = before
      /\ calls' = calls
      /\ station' = station /\ validated' = validated /\ blocked' = blocked
  BY DEF Switch, view, access
<1>2. ScalarsOK' /\ BlockedShowsNothing' /\ ScreenOK'
  BY <1>0, <1>1 DEF ScalarsOK, BlockedShowsNothing, ScreenOK
<1>3. CallsOK' /\ QueueOK'
  BY <1>0, <1>1 DEF CallsOK, QueueOK, Waiting, Readers, Accepting, At
<1>4. FrozenStep /\ StayStep
  BY <1>1 DEF FrozenStep, StayStep
<1> QED BY <1>2, <1>3, <1>4 DEF Good, IInv

LEMMA ClearKeeps ==
  ASSUME IInv, NEW q \in Slots, Clear(q)
  PROVE  Good
<1>0. ScalarsOK /\ CallsOK /\ QueueOK /\ BlockedShowsNothing
  BY Parts
<1> DEFINE d == [List EXCEPT !.kind = "clear", !.phase = "deleting",
                             !.feed = selected, !.current = TRUE]
<1>a. calls[q] = None /\ memory' = memory \ InFeed(memory, selected)
      /\ cache' = cache \ Cleared(cache) /\ UNCHANGED <<choice, denied, view, access, before>>
  BY Zenon DEF Clear
<1>b. calls' = [p \in Slots |->
        IF p = q THEN d
        ELSE IF calls[p] = None THEN None
        ELSE Overtaken(calls[p], calls[p].got \ Cleared(calls[p].got))]
  BY Zenon DEF Clear, Overtaken
<1>1. /\ calls[q] = None /\ memory' \subseteq memory /\ cache' \subseteq cache
      /\ selected' = selected /\ wanted' = wanted /\ denied' = denied
      /\ shown' = shown /\ screen' = screen /\ before' = before
      /\ station' = station /\ validated' = validated /\ blocked' = blocked
  BY <1>a DEF choice, view, access
<1>2. /\ d \in Calls /\ d.kind = "clear" /\ d.phase = "deleting"
      /\ d.feed = selected /\ d.current /\ d.access = "current"
  BY <1>0 DEF List, Calls, Kinds, Phases, ScalarsOK
<1> HIDE DEF d
<1>3. d # None /\ Entitled(d) /\ ~InStore(d)
  BY <1>2, CallsAssumption DEF Entitled, InStore
<1>4. ASSUME NEW p \in Slots \ {q}
      PROVE  \/ calls[p] = None /\ calls'[p] = None
             \/ /\ calls[p] # None /\ calls'[p] \in Calls /\ Alike(calls[p], calls'[p])
                /\ calls'[p].access = calls[p].access
                /\ calls'[p].current \in {calls[p].current, FALSE}
  <2>1. CASE calls[p] = None
    BY <1>b, <2>1
  <2>2. CASE calls[p] # None
    <3> DEFINE msgs == calls[p].got \ Cleared(calls[p].got)
    <3>0. calls[p] \in Calls /\ calls[p].got \subseteq Msgs
      BY <1>0, <2>2, CallIs
    <3>1. calls[p] \in Calls /\ msgs \in SUBSET Msgs
      BY <3>0
    <3>2. calls'[p] = Overtaken(calls[p], msgs)
      BY <1>b, <2>2
    <3> HIDE DEF msgs
    <3>3. /\ calls'[p] \in Calls /\ ~calls'[p].current
          /\ calls'[p].access = calls[p].access /\ Alike(calls[p], calls'[p])
      BY <3>1, <3>2, OvertakenIs
    <3>4. calls'[p].current = FALSE
      BY <3>3 DEF Calls
    <3> QED BY <2>2, <3>3, <3>4
  <2> QED BY <2>1, <2>2
<1>5. CallsOK' /\ Waiting' = Waiting \ {q} /\ calls'[q] = d
  <2>1. calls'[q] = d /\ DOMAIN calls' = Slots /\ calls' = [p \in Slots |-> calls'[p]]
    BY <1>b
  <2> QED BY <1>0, <1>2, <1>3, <1>4, <2>1, CallsKept
<1>6. QueueOK'
  <2>1. q \notin Waiting
    BY <1>1, WaitingIs DEF InStore
  <2> QED BY <1>0, <1>1, <1>5, <2>1, QueueStays
<1>7. ScalarsOK' /\ BlockedShowsNothing'
  BY <1>0, <1>1 DEF ScalarsOK, BlockedShowsNothing
<1>8. ScreenOK'
  <2>1. Painter(calls[q])'
    BY <1>1, <1>2, <1>3, <1>5 DEF Painter, IsCurrent
  <2> QED BY <2>1 DEF ScreenOK
<1>9. FrozenStep /\ StayStep
  BY <1>1 DEF FrozenStep, StayStep
<1> QED BY <1>5, <1>6, <1>7, <1>8, <1>9 DEF Good, IInv

(* The screen is painted empty as the memory is, and requests stay where    *)
(* they are.                                                                *)
LEMMA ClearAllKeeps ==
  ASSUME IInv, ClearAll
  PROVE  Good
<1>0. ScalarsOK /\ CallsOK /\ QueueOK /\ BlockedShowsNothing
  BY Parts
<1>a. memory' = {} /\ cache' = cache \ OfStation(cache, station)
      /\ Paint(selected, {}) /\ UNCHANGED <<choice, denied, access, before>>
  BY Zenon DEF ClearAll
<1>b. calls' = [q \in Slots |->
        IF calls[q] = None THEN None
        ELSE Overtaken(calls[q], calls[q].got \ OfStation(calls[q].got, station))]
  BY Zenon DEF ClearAll, Overtaken
<1>1. /\ memory' = {} /\ cache' \subseteq cache
      /\ shown' = selected /\ screen' = {} /\ Paint(selected, memory')
      /\ selected' = selected /\ wanted' = wanted /\ denied' = denied
      /\ before' = before
      /\ station' = station /\ validated' = validated /\ blocked' = blocked
  BY <1>a DEF choice, access, Paint, InFeed
<1>2. ASSUME NEW p \in Slots
      PROVE  /\ calls'[p] \in Calls \union {None}
             /\ calls'[p] # None => Entitled(calls'[p])
             /\ InStore(calls'[p]) <=> InStore(calls[p])
  <2>1. CASE calls[p] = None
    BY <1>b, <2>1 DEF InStore
  <2>2. CASE calls[p] # None
    <3> DEFINE msgs == calls[p].got \ OfStation(calls[p].got, station)
    <3>1. calls[p] \in Calls /\ msgs \in SUBSET Msgs /\ Entitled(calls[p])
      BY <1>0, <2>2, CallIs
    <3>2. calls'[p] = Overtaken(calls[p], msgs)
      BY <1>b, <2>2
    <3> HIDE DEF msgs
    <3>3. /\ calls'[p] \in Calls /\ ~calls'[p].current
          /\ calls'[p].access = calls[p].access /\ Alike(calls[p], calls'[p])
      BY <3>1, <3>2, OvertakenIs
    <3>4. calls'[p] # None
      BY <3>3, CallsAssumption
    <3> QED BY <2>2, <3>1, <3>3, <3>4 DEF Entitled, Alike, InStore
  <2> QED BY <2>1, <2>2
<1>3. CallsOK'
  <2>1. calls' = [p \in Slots |-> calls'[p]]
    BY <1>b
  <2> QED BY <1>2, <2>1 DEF CallsOK
<1>4. Waiting' = Waiting
  <2>1. Waiting' = {p \in Slots : InStore(calls'[p])}
    BY DEF Waiting, Readers, Accepting, At, InStore
  <2> QED BY <1>2, <2>1, WaitingIs
<1>5. QueueOK'
  BY <1>0, <1>1, <1>4, QueueStays
<1>6. ScalarsOK' /\ BlockedShowsNothing'
  BY <1>0, <1>1 DEF ScalarsOK, BlockedShowsNothing
<1>7. ScreenOK'
  BY <1>1, PaintIsFaithful DEF ScreenOK
<1>8. FrozenStep /\ StayStep
  BY <1>1 DEF FrozenStep, StayStep
<1> QED BY <1>3, <1>5, <1>6, <1>7, <1>8 DEF Good, IInv

(* Requests and their transactions do not move. *)
LEMMA RequestsStay ==
  ASSUME CallsOK, QueueOK, calls' = calls, before' = before
  PROVE  CallsOK' /\ QueueOK'
BY DEF CallsOK, QueueOK, Waiting, Readers, Accepting, At

LEMMA RepaintKeeps ==
  ASSUME IInv, Repaint
  PROVE  Good
<1>0. ScalarsOK /\ CallsOK /\ QueueOK /\ BlockedShowsNothing
  BY Parts
<1>1. /\ memory' = memory /\ cache' = cache /\ calls' = calls /\ before' = before
      /\ selected' = selected /\ wanted' = wanted /\ denied' = denied
      /\ station' = station /\ validated' = validated /\ blocked' = blocked
      /\ Paint(selected, memory')
  BY DEF Repaint, choice, access
<1>2. CallsOK' /\ QueueOK'
  BY <1>0, <1>1, RequestsStay
<1>3. /\ shown' = selected /\ screen' \subseteq Msgs /\ (memory' = {} => screen' = {})
  BY <1>0, <1>1 DEF Paint, InFeed, ScalarsOK
<1>4. ScalarsOK' /\ BlockedShowsNothing'
  BY <1>0, <1>1, <1>3 DEF ScalarsOK, BlockedShowsNothing
<1>5. ScreenOK'
  BY <1>1, PaintIsFaithful DEF ScreenOK
<1>6. FrozenStep /\ StayStep
  BY <1>1 DEF FrozenStep, StayStep
<1> QED BY <1>2, <1>4, <1>5, <1>6 DEF Good, IInv

(* A message is appended to a faithful screen exactly if it comes into what *)
(* the memory holds of the conversation.                                    *)
LEMMA LiveKeeps ==
  ASSUME IInv, NEW m \in Msgs, Live(m)
  PROVE  Good
<1>0. ScalarsOK /\ CallsOK /\ QueueOK /\ BlockedShowsNothing /\ ScreenOK
  BY Parts
<1>1. /\ ~denied /\ memory' = memory \union {m}
      /\ cache' = cache \/ cache' = cache \union {m}
      /\ screen' = IF m \notin memory /\ FeedOf[m] = selected
                     THEN screen \union {m} ELSE screen
      /\ calls' = calls /\ before' = before /\ shown' = shown
      /\ selected' = selected /\ wanted' = wanted /\ denied' = denied
      /\ station' = station /\ validated' = validated /\ blocked' = blocked
  BY DEF Live, Appended, choice, access
<1>2. CallsOK' /\ QueueOK'
  BY <1>0, <1>1, RequestsStay
<1>3. ~blocked
  BY <1>0, <1>1 DEF BlockedShowsNothing
<1>4. ScalarsOK' /\ BlockedShowsNothing'
  BY <1>0, <1>1, <1>3 DEF ScalarsOK, BlockedShowsNothing
<1>5. ScreenOK'
  <2>1. CASE Faithful
    <3>1. Faithful'
      BY <1>1, <2>1 DEF Faithful, InFeed
    <3> QED BY <3>1 DEF ScreenOK
  <2>2. CASE wanted
    BY <1>1, <2>2 DEF ScreenOK
  <2>3. CASE \E q \in Slots : Painter(calls[q])
    BY <1>1, <2>3 DEF ScreenOK, Painter, IsCurrent
  <2> QED BY <1>0, <2>1, <2>2, <2>3 DEF ScreenOK
<1>6. FrozenStep /\ StayStep
  BY <1>1, <1>3 DEF FrozenStep, StayStep
<1> QED BY <1>2, <1>4, <1>5, <1>6 DEF Good, IInv

LEMMA StutterKeeps ==
  ASSUME IInv, UNCHANGED vars
  PROVE  Good
<1>0. ScalarsOK /\ CallsOK /\ QueueOK /\ BlockedShowsNothing /\ ScreenOK
  BY Parts
<1>1. /\ memory' = memory /\ cache' = cache /\ calls' = calls /\ before' = before
      /\ selected' = selected /\ wanted' = wanted /\ denied' = denied
      /\ shown' = shown /\ screen' = screen
      /\ station' = station /\ validated' = validated /\ blocked' = blocked
  BY DEF vars, choice, view, access
<1>2. CallsOK' /\ QueueOK'
  BY <1>0, <1>1, RequestsStay
<1>3. ScalarsOK' /\ BlockedShowsNothing'
  BY <1>0, <1>1 DEF ScalarsOK, BlockedShowsNothing
<1>4. ScreenOK'
  BY <1>0, <1>1 DEF ScreenOK, Faithful, Painter, IsCurrent
<1>5. FrozenStep /\ StayStep
  BY <1>1 DEF FrozenStep, StayStep
<1> QED BY <1>2, <1>3, <1>4, <1>5 DEF Good, IInv

-----------------------------------------------------------------------------
(* The invariant *)

LEMMA Initially ==
  ASSUME Init
  PROVE  IInv
<1>1. /\ selected \in Feeds /\ wanted = FALSE /\ memory = {} /\ denied = FALSE
      /\ screen = {} /\ station \in Stations \union {None} /\ validated = FALSE
      /\ blocked = FALSE /\ cache \in SUBSET OfStation(Msgs, station)
      /\ before = [q \in Slots |-> {}]
  BY DEF Init
<1> DEFINE reads == station # None
           c == Rendering("first", selected)
           x == IF reads THEN Reading(c, "reading", station, cache) ELSE c
<1>2. PICK q \in Slots : /\ calls = [p \in Slots |-> IF p # q THEN None ELSE x]
                         /\ shown = IF reads THEN None ELSE selected
  BY DEF Init
<1>3. c \in Calls /\ c # None /\ Entitled(c)
  BY <1>1, RenderingIs
<1>4. cache \subseteq Msgs
  BY <1>1 DEF OfStation
<1> HIDE DEF c
<1>5. x \in Calls /\ x # None /\ Entitled(x)
  BY <1>1, <1>3, <1>4, ReadingIs
<1> HIDE DEF x
<1>6. CallsOK
  BY <1>2, <1>5 DEF CallsOK
<1>7. QueueOK
  BY <1>1 DEF QueueOK
<1>8. ScalarsOK /\ BlockedShowsNothing
  BY <1>1, <1>2, <1>4 DEF ScalarsOK, BlockedShowsNothing
<1>9. ScreenOK
  BY <1>1 DEF ScreenOK, Faithful, InFeed
<1> QED BY <1>6, <1>7, <1>8, <1>9 DEF IInv

LEMMA EveryStep ==
  ASSUME IInv, [Next]_vars
  PROVE  Good
<1>1. ASSUME NEW q \in Slots,
             \/ Render(q) \/ Refresh(q) \/ CachedRead(q)
             \/ Answer(q) \/ Accept(q) \/ Fail(q) \/ Offline(q) \/ OfflineRead(q)
             \/ Refuse(q) \/ ChangeCredentials(q) \/ Clear(q) \/ Clearing(q)
      PROVE  Good
  <2>1. CASE Render(q) \/ Refresh(q)
    BY <2>1, RenderKeeps
  <2>2. CASE CachedRead(q)
    BY <2>2, CachedReadKeeps
  <2>3. CASE Answer(q)
    BY <2>3, AnswerKeeps
  <2>4. CASE Accept(q)
    BY <2>4, AcceptKeeps
  <2>5. CASE Fail(q)
    BY <2>5, FailKeeps
  <2>6. CASE Offline(q)
    BY <2>6, OfflineKeeps
  <2>7. CASE OfflineRead(q)
    BY <2>7, OfflineReadKeeps
  <2>8. CASE Refuse(q)
    BY <2>8, RefuseKeeps
  <2>9. CASE ChangeCredentials(q)
    BY <2>9, ChangeCredentialsKeeps
  <2>10. CASE Clear(q)
    BY <2>10, ClearKeeps
  <2>11. CASE Clearing(q)
    BY <2>11, ClearingKeeps
  <2> QED BY <1>1, <2>1, <2>2, <2>3, <2>4, <2>5, <2>6, <2>7, <2>8, <2>9, <2>10, <2>11
<1> QED BY <1>1, LiveKeeps, SwitchKeeps, ClearAllKeeps, RepaintKeeps, StutterKeeps DEF Next

LEMMA Invariance == Spec => []IInv
<1>1. Init => IInv
  BY Initially
<1>2. IInv /\ [Next]_vars => IInv'
  BY EveryStep DEF Good
<1> QED BY <1>1, <1>2, PTL DEF Spec

(* The page's state has its types, whatever its requests do (chat.js,       *)
(* core/storage.js).                                                        *)
THEOREM HistoryTyped == Spec => []TypeOK
<1>1. IInv => TypeOK
  BY DEF IInv, TypeOK, ScalarsOK, CallsOK, QueueOK, Waiting
<1> QED BY <1>1, Invariance, PTL

(* A page without access holds and shows no message (storage.js _denyAccess, *)
(* _assertCacheAccess; chat.js _clearProtectedHistory).                      *)
THEOREM BlockedPageIsEmpty == Spec => []BlockedShowsNothing
<1>1. IInv => BlockedShowsNothing
  BY DEF IInv
<1> QED BY <1>1, Invariance, PTL

(* Nothing comes into the cache of a page without access but an answer to a *)
(* request of the present credentials (storage.js _accept, _denyAccess).    *)
THEOREM BlockedCacheFrozen == Spec => BlockedCacheIsFrozen
<1>1. IInv /\ [Next]_vars =>
        (blocked => cache' \subseteq cache \union
           UNION {calls[q].got : q \in {p \in Accepting : calls[p].access = "current"}})
  BY EveryStep DEF Good, FrozenStep
<1> QED BY <1>1, Invariance, PTL DEF Spec, BlockedCacheIsFrozen

(* A message stays in the page's memory until a clear, a loss of access or  *)
(* another station (chat.js renderCurrentConversation, mergeMessage).       *)
THEOREM MessagesAreKept == Spec => MessagesStay
<1>1. IInv /\ [Next]_vars =>
        \/ memory \subseteq memory' \/ ClearAll \/ blocked' \/ station' # station
        \/ \E q \in Slots : Clear(q)
  BY EveryStep DEF Good, StayStep
<1> QED BY <1>1, Invariance, PTL DEF Spec, MessagesStay

(* With nothing under way that paints, the selected conversation is on the  *)
(* screen as it is in memory (chat.js appendChatMessage, _paintConversation).*)
THEOREM QuietScreen == Spec => []QuietScreenIsComplete
<1>1. IInv => QuietScreenIsComplete
  BY DEF IInv, ScreenOK, Faithful, Painter, Quiet, QuietScreenIsComplete
<1> QED BY <1>1, Invariance, PTL
=============================================================================
